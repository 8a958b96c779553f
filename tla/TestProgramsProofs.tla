------------------------ MODULE TestProgramsProofs ------------------------
(***************************************************************************)
(* Proofs about TestPrograms, for every number of threads, items and turns *)
(* and every capacity of the rings: no check of the programs ever fails,   *)
(* no closed semaphore is used, the barrier separates, and the rings are   *)
(* FIFO buffers.  Every phase has an inductive invariant of its own.       *)
(***************************************************************************)
EXTENDS TestPrograms, TestRingProofs, TLAPS

-----------------------------------------------------------------------------
\* Phase 2: the barrier.

\* Where a thread may be held, and at which semaphore.
P2_At ==
    {<<t, "load1", "mutex">> : t \in P2_Workers}
    \union {<<t, "load2", "mutex">> : t \in P2_Workers}
    \union {<<t, "verify", "turnstile1">> : t \in P2_Workers}
    \union {<<t, "tell", "turnstile2">> : t \in P2_Workers}
    \union {<<P2_Main, "await", "finished">>, <<P2_Main, "close", "finished">>}

\* Where a worker has not yet looked whether it is the last at a turnstile, and
\* where it has waited at it.
P2_Before1 == {"unborn", "slot", "lock1", "load1", "store1", "test1"}
P2_Waited2 == {"tell", "done"}
P2_Waited1 == {"verify", "lock2", "load2", "store2", "test2", "open2", "unlock2", "turnstile2"}
              \union P2_Waited2
P2_Before2 == P2_Before1 \union
              {"open1", "unlock1", "turnstile1", "verify", "lock2", "load2", "store2", "test2"}
\* Under the mutex, and counted in p2_arrived.
P2_Inside == {"load1", "store1", "test1", "open1", "unlock1",
              "load2", "store2", "test2", "open2", "unlock2"}
P2_Arrived == {"test1", "open1", "unlock1", "turnstile1", "verify", "lock2", "load2", "store2"}

P2_Count(L) == CountIn(p2_pc, P2_Workers, L)

P2_Places ==
    /\ p2_pc[P2_Main] \in {"open", "create", "await", "close", "returned"}
    /\ p2_pc[P2_Main] = "open" => p2_i[P2_Main] = 0
    /\ \A t \in P2_Workers :
         /\ p2_pc[t] \in P2_Before2 \union P2_Waited1
         /\ p2_pc[t] = "unborn" <=> \/ p2_pc[P2_Main] = "open"
                                    \/ p2_pc[P2_Main] = "create" /\ t > p2_i[P2_Main]
         /\ p2_pc[P2_Main] = "returned" => p2_pc[t] = "done"
         /\ p2_pc[t] \notin {"open1", "verify", "open2"} => p2_i[t] = 0
         /\ p2_pc[t] \in {"store1", "store2"} => p2_reg[t] = p2_arrived
         /\ p2_pc[t] \notin {"unborn", "slot"} => p2_slots[t] = t

P2_Sums ==
    /\ p2_sems["mutex"].value + P2_Count(P2_Inside) = IF p2_pc[P2_Main] = "open" THEN 0 ELSE 1
    /\ p2_arrived = P2_Count(P2_Arrived)
    /\ p2_sems["finished"].value =
         P2_Count({"done"}) - IF p2_pc[P2_Main] = "await" THEN p2_i[P2_Main]
                              ELSE IF p2_pc[P2_Main] \in {"close", "returned"} THEN P2_NUM_THREADS
                              ELSE 0

\* How often a turnstile was signalled: never before the last worker comes, and
\* P2_NUM_THREADS times by it.
P2_Signals(turnstile, waited) == p2_sems[turnstile].value + P2_Count(waited)
P2_Gate(turnstile, before, open, waited) ==
    /\ \A t \in P2_Workers :
         /\ p2_pc[t] \in before => /\ P2_Signals(turnstile, waited) = 0
                                   /\ \A u \in P2_Workers : p2_pc[u] # open
         /\ p2_pc[t] = open => P2_Signals(turnstile, waited) = p2_i[t]
    /\ (\A t \in P2_Workers : p2_pc[t] \notin before /\ p2_pc[t] # open) =>
          P2_Signals(turnstile, waited) = P2_NUM_THREADS
P2_Gates ==
    /\ P2_Gate("turnstile1", P2_Before1, "open1", P2_Waited1)
    /\ P2_Gate("turnstile2", P2_Before2, "open2", P2_Waited2)

P2_Inv ==
    /\ P2_TypeOK
    /\ SemsOK(p2_sems, P2_Sems, P2_Threads, P2_At, p2_pc)
    /\ P2_Places
    /\ P2_Sums
    /\ P2_Gates

LEMMA P2_Sets ==
    /\ P2_NUM_THREADS \in Nat \ {0}
    /\ IsFiniteSet(P2_Workers) /\ IsFiniteSet(P2_Threads)
    /\ Cardinality(P2_Workers) = P2_NUM_THREADS
    /\ P2_Main \in P2_Threads /\ P2_Main \notin P2_Workers
    /\ P2_Threads = P2_Workers \union {P2_Main}
    /\ \A t \in P2_Workers : t \in P2_Threads /\ t # P2_Main
<1>1. P2_NUM_THREADS \in Nat \ {0}
  BY P2_Assumption
<1>2. IsFiniteSet(P2_Workers) /\ Cardinality(P2_Workers) = P2_NUM_THREADS /\ IsFiniteSet(P2_Threads)
  BY <1>1, FS_Interval DEF P2_Workers, P2_Threads
<1> QED BY <1>1, <1>2 DEF P2_Workers, P2_Threads, P2_Main

LEMMA P2_Free ==
    ASSUME P2_Inv, NEW t \in P2_Threads,
           p2_pc[t] \notin {"load1", "load2", "verify", "tell", "await", "close"}
    PROVE  ~IsBlocked(p2_sems, t)
<1>1. \A s \in P2_Sems : <<t, p2_pc[t], s>> \notin P2_At
  BY DEF P2_At
<1> QED BY <1>1 DEF P2_Inv, SemsOK, IsBlocked

LEMMA P2_CountNat == ASSUME NEW L PROVE P2_Count(L) \in Nat /\ P2_Count(L) <= P2_NUM_THREADS
BY P2_Sets, CountBounds DEF P2_Count

LEMMA P2_Exclusion ==
    ASSUME P2_Inv, NEW t \in P2_Workers, p2_pc[t] \in P2_Inside, ~IsBlocked(p2_sems, t),
           NEW u \in P2_Workers, p2_pc[u] \in P2_Inside, u # t
    PROVE  p2_pc[u] \in {"load1", "load2"}
<1> DEFINE A == {v \in P2_Workers : p2_pc[v] \in P2_Inside}
<1>1. /\ SemsOK(p2_sems, P2_Sems, P2_Threads, P2_At, p2_pc) /\ DOMAIN p2_sems = P2_Sems
      /\ "mutex" \in P2_Sems
  BY DEF P2_Inv, SemsOK, P2_Sems
<1>2. p2_pc[P2_Main] # "open"
  BY DEF P2_Inv, P2_Places, P2_Inside
<1>3. p2_sems["mutex"].value + Cardinality(A) = 1
  BY <1>2 DEF P2_Inv, P2_Sums, P2_Count, CountIn
<1>4. A \in SUBSET P2_Threads /\ IsFiniteSet(P2_Threads)
  BY P2_Sets
<1>5. \A v \in P2_Threads : <<v, p2_pc[v], "mutex">> \in P2_At => v \in A
  BY DEF P2_At, P2_Inside
<1>6. t \in A /\ u \in A
  OBVIOUS
<1> HIDE DEF A
<1>7. p2_sems["mutex"].value = 1 - Cardinality(A)
  BY <1>1, <1>3, <1>4, FS_Subset, FS_CardinalityType DEF SemsOK, SemOK
<1>8. SUFFICES ASSUME p2_pc[u] \notin {"load1", "load2"} PROVE FALSE
  OBVIOUS
<1>9. u \notin Range(p2_sems["mutex"].blocked) /\ t \notin Range(p2_sems["mutex"].blocked)
  <2>1. <<u, p2_pc[u], "mutex">> \notin P2_At
    BY <1>8, P2_Sets DEF P2_At
  <2> QED BY <1>1, <2>1 DEF SemsOK, IsBlocked
<1> QED BY <1>1, <1>4, <1>5, <1>6, <1>7, <1>9, Mutex

-----------------------------------------------------------------------------
\* Worker t goes from one position to another, or no worker moves (from = to).
P2_Move(t, from, to) ==
    /\ p2_pc[t] = from /\ p2_pc'[t] = to
    /\ \A u \in P2_Workers \ {t} : p2_pc'[u] = p2_pc[u]

LEMMA P2_CountMoves ==
    ASSUME NEW t \in P2_Workers, NEW from, NEW to, P2_Move(t, from, to), NEW L
    PROVE  P2_Count(L)' = P2_Count(L) - (IF from \in L THEN 1 ELSE 0)
                                      + (IF to \in L THEN 1 ELSE 0)
<1>1. IsFiniteSet(P2_Workers) /\ \A u \in P2_Workers \ {t} : p2_pc'[u] = p2_pc[u]
  BY P2_Sets DEF P2_Move
<1>2. CountIn(p2_pc', P2_Workers, L) = CountIn(p2_pc, P2_Workers, L)
             - (IF p2_pc[t] \in L THEN 1 ELSE 0) + (IF p2_pc'[t] \in L THEN 1 ELSE 0)
  BY <1>1, CountMoves
<1> QED BY <1>2 DEF P2_Count, P2_Move

\* A gate stays as it is when nobody comes to it or opens it.
LEMMA P2_GateKept ==
    ASSUME NEW turnstile, NEW before, NEW open, NEW waited,
           P2_Gate(turnstile, before, open, waited),
           NEW t \in P2_Workers, NEW from, NEW to, P2_Move(t, from, to),
           from \in before <=> to \in before, from # open, to # open,
           P2_Signals(turnstile, waited)' = P2_Signals(turnstile, waited),
           \A u \in P2_Workers \ {t} : p2_i'[u] = p2_i[u]
    PROVE  P2_Gate(turnstile, before, open, waited)'
<1> DEFINE n == P2_Signals(turnstile, waited)
<1>1. n' = n
  OBVIOUS
<1>2. /\ \A u \in P2_Workers :
           /\ p2_pc[u] \in before => n = 0 /\ \A v \in P2_Workers : p2_pc[v] # open
           /\ p2_pc[u] = open => n = p2_i[u]
      /\ (\A u \in P2_Workers : p2_pc[u] \notin before /\ p2_pc[u] # open) => n = P2_NUM_THREADS
  BY DEF P2_Gate
<1>3. \A u \in P2_Workers : /\ p2_pc'[u] \in before <=> p2_pc[u] \in before
                            /\ p2_pc'[u] = open <=> p2_pc[u] = open
                            /\ p2_pc[u] = open => u # t
  BY DEF P2_Move
<1>4. SUFFICES
      /\ \A u \in P2_Workers :
           /\ p2_pc'[u] \in before => n' = 0 /\ \A v \in P2_Workers : p2_pc'[v] # open
           /\ p2_pc'[u] = open => n' = p2_i'[u]
      /\ (\A u \in P2_Workers : p2_pc'[u] \notin before /\ p2_pc'[u] # open) => n' = P2_NUM_THREADS
  BY DEF P2_Gate
<1> HIDE DEF n
<1> QED BY <1>1, <1>2, <1>3

\* The worker that finds itself the last opens the gate, another one does not.
LEMMA P2_GateTested ==
    ASSUME NEW turnstile, NEW before, NEW open, NEW waited,
           P2_Gate(turnstile, before, open, waited),
           NEW t \in P2_Workers, NEW from, NEW to, P2_Move(t, from, to),
           from \in before, to \notin before,
           P2_Signals(turnstile, waited)' = P2_Signals(turnstile, waited),
           p2_i' = p2_i, p2_i[t] = 0,
           to = open <=> \A u \in P2_Workers \ {t} : p2_pc[u] \notin before
    PROVE  P2_Gate(turnstile, before, open, waited)'
<1> DEFINE n == P2_Signals(turnstile, waited)
<1>1. n' = n
  OBVIOUS
<1>2. n = 0 /\ \A u \in P2_Workers : p2_pc[u] # open
  BY DEF P2_Gate, P2_Move
<1>3. SUFFICES
      /\ \A u \in P2_Workers :
           /\ p2_pc'[u] \in before => n' = 0 /\ \A v \in P2_Workers : p2_pc'[v] # open
           /\ p2_pc'[u] = open => n' = p2_i'[u]
      /\ (\A u \in P2_Workers : p2_pc'[u] \notin before /\ p2_pc'[u] # open) => n' = P2_NUM_THREADS
  BY DEF P2_Gate
<1> HIDE DEF n
<1> QED BY <1>1, <1>2 DEF P2_Move

\* One more signal of the worker that opens the gate.
LEMMA P2_GateOpened ==
    ASSUME NEW turnstile, NEW before, NEW open, NEW waited,
           P2_Gate(turnstile, before, open, waited),
           NEW t \in P2_Workers, NEW to, P2_Move(t, open, to), to \notin before, open \notin before,
           P2_Signals(turnstile, waited)' = P2_Signals(turnstile, waited) + 1,
           p2_i[t] + 1 < P2_NUM_THREADS => to = open /\ p2_i'[t] = p2_i[t] + 1,
           ~(p2_i[t] + 1 < P2_NUM_THREADS) => to # open,
           p2_i[t] \in 0..(P2_NUM_THREADS - 1),
           \A u \in P2_Workers \ {t} : p2_pc[u] # open
    PROVE  P2_Gate(turnstile, before, open, waited)'
<1> DEFINE n == P2_Signals(turnstile, waited)
<1>1. n' = n + 1
  OBVIOUS
<1>2. n = p2_i[t] /\ \A u \in P2_Workers : p2_pc[u] \notin before
  BY DEF P2_Gate, P2_Move
<1>3. SUFFICES
      /\ \A u \in P2_Workers :
           /\ p2_pc'[u] \in before => n' = 0 /\ \A v \in P2_Workers : p2_pc'[v] # open
           /\ p2_pc'[u] = open => n' = p2_i'[u]
      /\ (\A u \in P2_Workers : p2_pc'[u] \notin before /\ p2_pc'[u] # open) => n' = P2_NUM_THREADS
  BY DEF P2_Gate
<1> HIDE DEF n
<1>4. P2_NUM_THREADS \in Nat \ {0}
  BY P2_Sets
<1>5. \A u \in P2_Workers : /\ p2_pc'[u] \notin before
                            /\ p2_pc'[u] = open => u = t /\ to = open
  BY <1>2 DEF P2_Move
<1>6. CASE p2_i[t] + 1 < P2_NUM_THREADS
  BY <1>1, <1>2, <1>5, <1>6 DEF P2_Move
<1>7. CASE ~(p2_i[t] + 1 < P2_NUM_THREADS)
  BY <1>1, <1>2, <1>4, <1>5, <1>7
<1> QED BY <1>6, <1>7

\* Who is through a turnstile finds nobody before it.
LEMMA P2_Through ==
    ASSUME P2_Inv, NEW t \in P2_Workers
    PROVE  /\ p2_pc[t] \in P2_Waited1 /\ ~(IsBlocked(p2_sems, t) /\ p2_pc[t] = "verify") =>
                \A u \in P2_Workers : p2_pc[u] \notin P2_Before1
           /\ p2_pc[t] \in P2_Waited2 /\ ~(IsBlocked(p2_sems, t) /\ p2_pc[t] = "tell") =>
                \A u \in P2_Workers : p2_pc[u] \notin P2_Before2
<1>1. /\ SemsOK(p2_sems, P2_Sems, P2_Threads, P2_At, p2_pc) /\ DOMAIN p2_sems = P2_Sems
      /\ {"turnstile1", "turnstile2"} \subseteq P2_Sems
  BY DEF P2_Inv, SemsOK, P2_Sems
<1>2. ASSUME NEW s \in P2_Sems, NEW waited, p2_pc[t] \in waited,
             t \notin Range(p2_sems[s].blocked),
             \A u \in P2_Threads : <<u, p2_pc[u], s>> \in P2_At =>
                 u \in P2_Workers /\ p2_pc[u] \in waited
      PROVE  P2_Signals(s, waited) # 0
  <2> DEFINE A == {u \in P2_Workers : p2_pc[u] \in waited}
  <2> DEFINE B == {u \in A : u \notin Range(p2_sems[s].blocked)}
  <2>1. A \in SUBSET P2_Threads /\ IsFiniteSet(P2_Threads)
        /\ \A u \in P2_Threads : <<u, p2_pc[u], s>> \in P2_At => u \in A
    BY <1>2, P2_Sets
  <2>2. t \in B
    BY <1>2
  <2>3. P2_Signals(s, waited) = p2_sems[s].value + Cardinality(A)
    BY DEF P2_Signals, P2_Count, CountIn
  <2> HIDE DEF A
  <2>4. /\ Cardinality(A) \in Nat /\ IsFiniteSet(B)
        /\ Cardinality(B) = Cardinality(A) - IF p2_sems[s].value < 0 THEN -p2_sems[s].value ELSE 0
    BY <1>1, <2>1, PassedCount
  <2> HIDE DEF B
  <2>5. Cardinality(B) \in Nat /\ Cardinality(B) # 0
    BY <2>2, <2>4, FS_EmptySet, FS_CardinalityType
  <2>6. p2_sems[s].value \in Int
    BY <1>1 DEF SemsOK, SemOK
  <2> QED BY <2>3, <2>4, <2>5, <2>6
<1>3. ASSUME p2_pc[t] \in P2_Waited1, ~(IsBlocked(p2_sems, t) /\ p2_pc[t] = "verify")
      PROVE  \A u \in P2_Workers : p2_pc[u] \notin P2_Before1
  <2>1. t \notin Range(p2_sems["turnstile1"].blocked)
    <3>1. p2_pc[t] # "verify" => <<t, p2_pc[t], "turnstile1">> \notin P2_At
      BY DEF P2_At
    <3> QED BY <1>1, <1>3, <3>1 DEF SemsOK, IsBlocked
  <2>2. \A u \in P2_Threads : <<u, p2_pc[u], "turnstile1">> \in P2_At =>
                 u \in P2_Workers /\ p2_pc[u] \in P2_Waited1
    BY DEF P2_At, P2_Waited1
  <2>3. P2_Signals("turnstile1", P2_Waited1) # 0
    BY <1>1, <1>2, <1>3, <2>1, <2>2
  <2> QED BY <2>3 DEF P2_Inv, P2_Gates, P2_Gate
<1>4. ASSUME p2_pc[t] \in P2_Waited2, ~(IsBlocked(p2_sems, t) /\ p2_pc[t] = "tell")
      PROVE  \A u \in P2_Workers : p2_pc[u] \notin P2_Before2
  <2>1. t \notin Range(p2_sems["turnstile2"].blocked)
    <3>1. p2_pc[t] # "tell" => <<t, p2_pc[t], "turnstile2">> \notin P2_At
      BY DEF P2_At
    <3> QED BY <1>1, <1>4, <3>1 DEF SemsOK, IsBlocked
  <2>2. \A u \in P2_Threads : <<u, p2_pc[u], "turnstile2">> \in P2_At =>
                 u \in P2_Workers /\ p2_pc[u] \in P2_Waited2
    BY DEF P2_At, P2_Waited2
  <2>3. P2_Signals("turnstile2", P2_Waited2) # 0
    BY <1>1, <1>2, <1>4, <2>1, <2>2
  <2> QED BY <2>3 DEF P2_Inv, P2_Gates, P2_Gate
<1> QED BY <1>3, <1>4

-----------------------------------------------------------------------------
\* The steps.

LEMMA P2_Goes ==
    ASSUME P2_Inv, NEW t \in P2_Workers, NEW from, NEW to \in P2_Positions, p2_goes(t, from, to)
    PROVE  /\ P2_Move(t, from, to) /\ p2_pc'[P2_Main] = p2_pc[P2_Main]
           /\ ~IsBlocked(p2_sems, t) /\ t \in P2_Threads
           /\ p2_pc' \in [P2_Threads -> P2_Positions]
           /\ p2_pc'[t] = to /\ \A u \in P2_Threads \ {t} : p2_pc'[u] = p2_pc[u]
           /\ \A u \in P2_Threads : IsBlocked(p2_sems, u) => p2_pc'[u] = p2_pc[u]
           /\ from # "unborn" => p2_pc[P2_Main] # "open"
           /\ p2_i \in [P2_Threads -> 0..(P2_NUM_THREADS - 1)]
<1>1. /\ p2_pc[t] = from /\ ~IsBlocked(p2_sems, t)
      /\ p2_pc' = [p2_pc EXCEPT ![t] = to]
      /\ p2_pc \in [P2_Threads -> P2_Positions]
      /\ p2_i \in [P2_Threads -> 0..(P2_NUM_THREADS - 1)]
      /\ t \in P2_Threads /\ t # P2_Main /\ P2_Main \in P2_Threads /\ P2_Workers \subseteq P2_Threads
  BY P2_Sets DEF p2_goes, P2_Inv, P2_TypeOK
<1>2. p2_pc'[t] = to /\ \A u \in P2_Threads \ {t} : p2_pc'[u] = p2_pc[u]
  BY <1>1
<1>3. from # "unborn" => p2_pc[P2_Main] # "open"
  BY <1>1 DEF P2_Inv, P2_Places
<1>4. P2_Move(t, from, to)
  BY <1>1, <1>2 DEF P2_Move
<1> QED BY <1>1, <1>2, <1>3, <1>4

\* Both gates stay as they are.
LEMMA P2_GatesKept ==
    ASSUME P2_Inv, NEW t \in P2_Workers, NEW from, NEW to, P2_Move(t, from, to),
           from \in P2_Before1 <=> to \in P2_Before1,
           from \in P2_Before2 <=> to \in P2_Before2,
           from \notin {"open1", "open2"}, to \notin {"open1", "open2"},
           p2_sems'["turnstile1"].value = p2_sems["turnstile1"].value
                + (IF from \in P2_Waited1 THEN 1 ELSE 0) - (IF to \in P2_Waited1 THEN 1 ELSE 0),
           p2_sems'["turnstile2"].value = p2_sems["turnstile2"].value
                + (IF from \in P2_Waited2 THEN 1 ELSE 0) - (IF to \in P2_Waited2 THEN 1 ELSE 0),
           \A u \in P2_Workers \ {t} : p2_i'[u] = p2_i[u]
    PROVE  P2_Gates'
<1>1. /\ P2_Count(P2_Waited1) \in Nat /\ P2_Count(P2_Waited2) \in Nat
      /\ P2_Count(P2_Waited1)' = P2_Count(P2_Waited1) - (IF from \in P2_Waited1 THEN 1 ELSE 0)
                                                      + (IF to \in P2_Waited1 THEN 1 ELSE 0)
      /\ P2_Count(P2_Waited2)' = P2_Count(P2_Waited2) - (IF from \in P2_Waited2 THEN 1 ELSE 0)
                                                      + (IF to \in P2_Waited2 THEN 1 ELSE 0)
  BY P2_CountNat, P2_CountMoves
<1>2. p2_sems["turnstile1"].value \in Int /\ p2_sems["turnstile2"].value \in Int
  BY DEF P2_Inv, SemsOK, SemOK, P2_Sems
<1>3. P2_Signals("turnstile1", P2_Waited1)' = P2_Signals("turnstile1", P2_Waited1)
  BY <1>1, <1>2 DEF P2_Signals
<1>4. P2_Signals("turnstile2", P2_Waited2)' = P2_Signals("turnstile2", P2_Waited2)
  BY <1>1, <1>2 DEF P2_Signals
<1>5. /\ P2_Gate("turnstile1", P2_Before1, "open1", P2_Waited1)
      /\ P2_Gate("turnstile2", P2_Before2, "open2", P2_Waited2)
  BY DEF P2_Inv, P2_Gates
<1>6. from # "open1" /\ from # "open2" /\ to # "open1" /\ to # "open2"
  OBVIOUS
<1>7. P2_Gate("turnstile1", P2_Before1, "open1", P2_Waited1)'
  BY <1>3, <1>5, <1>6, P2_GateKept
<1>8. P2_Gate("turnstile2", P2_Before2, "open2", P2_Waited2)'
  BY <1>4, <1>5, <1>6, P2_GateKept
<1> QED BY <1>7, <1>8 DEF P2_Gates

LEMMA P2_SlotStep ==
    ASSUME P2_Inv, errorFlag = 0, NEW t \in P2_Workers,
           p2_goes(t, "slot", "lock1"),
           p2_slots' = [p2_slots EXCEPT ![t] = t],
           UNCHANGED <<p2_i, p2_reg, p2_sems, p2_arrived, errorFlag>>
    PROVE  P2_Inv' /\ errorFlag' = 0
<1>1. "lock1" \in P2_Positions
  BY DEF P2_Positions
<1>2. /\ P2_Move(t, "slot", "lock1") /\ p2_pc'[P2_Main] = p2_pc[P2_Main]
      /\ p2_pc' \in [P2_Threads -> P2_Positions]
      /\ \A u \in P2_Threads : IsBlocked(p2_sems, u) => p2_pc'[u] = p2_pc[u]
      /\ p2_i \in [P2_Threads -> 0..(P2_NUM_THREADS - 1)]
  BY <1>1, P2_Goes
<1>3. SemsOK(p2_sems', P2_Sems, P2_Threads, P2_At, p2_pc')
  <2>1. SemsOK(p2_sems, P2_Sems, P2_Threads, P2_At, p2_pc) /\ p2_sems' = p2_sems
    BY DEF P2_Inv
  <2> QED BY <1>2, <2>1, SemsSame
<1>4. \A L : P2_Count(L)' = P2_Count(L) - (IF "slot" \in L THEN 1 ELSE 0)
                                       + (IF "lock1" \in L THEN 1 ELSE 0)
  BY <1>2, P2_CountMoves
<1>5. P2_TypeOK'
  BY <1>2 DEF P2_Inv, P2_TypeOK, P2_Workers
<1>6. P2_Places'
  <2>1. p2_slots'[t] = t /\ \A u \in P2_Workers \ {t} : p2_slots'[u] = p2_slots[u]
    BY DEF P2_Inv, P2_TypeOK
  <2> QED BY <1>2, <2>1 DEF P2_Inv, P2_Places, P2_Move, P2_Before1, P2_Before2
<1>7. P2_Sums'
  <2>1. /\ P2_Count(P2_Inside)' = P2_Count(P2_Inside)
        /\ P2_Count(P2_Arrived)' = P2_Count(P2_Arrived)
        /\ P2_Count({"done"})' = P2_Count({"done"})
    BY <1>4, P2_CountNat DEF P2_Inside, P2_Arrived
  <2> QED BY <1>2, <2>1 DEF P2_Inv, P2_Sums
<1>8. P2_Gates'
  <2>1. /\ "slot" \in P2_Before1 /\ "lock1" \in P2_Before1
        /\ "slot" \in P2_Before2 /\ "lock1" \in P2_Before2
        /\ "slot" \notin P2_Waited1 /\ "lock1" \notin P2_Waited1
        /\ "slot" \notin P2_Waited2 /\ "lock1" \notin P2_Waited2
        /\ "slot" \notin {"open1", "open2"} /\ "lock1" \notin {"open1", "open2"}
    BY DEF P2_Before1, P2_Before2, P2_Waited1, P2_Waited2
  <2>2. /\ p2_sems["turnstile1"].value \in Int /\ p2_sems["turnstile2"].value \in Int
        /\ p2_sems' = p2_sems /\ p2_i' = p2_i
    BY DEF P2_Inv, SemsOK, SemOK, P2_Sems
  <2> QED BY <1>2, <2>1, <2>2, P2_GatesKept
<1> QED BY <1>3, <1>5, <1>6, <1>7, <1>8 DEF P2_Inv

LEMMA P2_LockStep ==
    ASSUME P2_Inv, errorFlag = 0, NEW t \in P2_Workers, NEW from, NEW to,
           p2_wait(t, from, "mutex", to),
           \/ from = "lock1" /\ to = "load1"
           \/ from = "lock2" /\ to = "load2",
           UNCHANGED <<p2_i, p2_reg, p2_memory>>
    PROVE  P2_Inv' /\ errorFlag' = 0
<1>1. /\ p2_goes(t, from, to) /\ p2_sems' = sem_wait(p2_sems, "mutex", t)
      /\ p2_i' = p2_i /\ UNCHANGED <<p2_reg, p2_arrived, p2_slots, errorFlag>>
      /\ to \in P2_Positions /\ from # "unborn"
  BY DEF p2_wait, p2_memory, P2_Positions
<1>2. /\ P2_Move(t, from, to) /\ p2_pc'[P2_Main] = p2_pc[P2_Main]
      /\ ~IsBlocked(p2_sems, t) /\ t \in P2_Threads
      /\ p2_pc' \in [P2_Threads -> P2_Positions]
      /\ p2_pc'[t] = to /\ \A u \in P2_Threads \ {t} : p2_pc'[u] = p2_pc[u]
      /\ p2_pc[P2_Main] # "open"
  BY <1>1, P2_Goes
<1>3. /\ SemsOK(p2_sems', P2_Sems, P2_Threads, P2_At, p2_pc')
      /\ p2_sems'["mutex"].value = p2_sems["mutex"].value - 1
      /\ \A r \in P2_Sems \ {"mutex"} : p2_sems'[r] = p2_sems[r]
  <2>1. /\ SemsOK(p2_sems, P2_Sems, P2_Threads, P2_At, p2_pc)
        /\ <<t, p2_pc'[t], "mutex">> \in P2_At
        /\ "mutex" \in P2_Sems
    BY <1>2 DEF P2_Inv, P2_At, P2_Sems
  <2> QED BY <1>1, <1>2, <2>1, SemsWait
<1>4. \A L : P2_Count(L)' = P2_Count(L) - (IF from \in L THEN 1 ELSE 0)
                                       + (IF to \in L THEN 1 ELSE 0)
  BY <1>2, P2_CountMoves
<1>5. P2_TypeOK'
  BY <1>1, <1>2, <1>3 DEF P2_Inv, P2_TypeOK, SemsOK
<1>6. P2_Places'
  BY <1>1, <1>2 DEF P2_Inv, P2_Places, P2_Move, P2_Before1, P2_Before2, P2_Waited1
<1>7. P2_Sums'
  <2>1. /\ P2_Count(P2_Inside)' = P2_Count(P2_Inside) + 1
        /\ P2_Count(P2_Arrived)' = P2_Count(P2_Arrived)
        /\ P2_Count({"done"})' = P2_Count({"done"})
        /\ P2_Count(P2_Inside) \in Nat
    BY <1>4, P2_CountNat DEF P2_Inside, P2_Arrived
  <2>2. p2_sems["mutex"].value \in Int
    BY DEF P2_Inv, SemsOK, SemOK, P2_Sems
  <2> QED BY <1>1, <1>2, <1>3, <2>1, <2>2 DEF P2_Inv, P2_Sums, P2_Sems
<1>8. P2_Gates'
  <2>1. /\ from \in P2_Before1 <=> to \in P2_Before1
        /\ from \in P2_Before2 /\ to \in P2_Before2
        /\ from \in P2_Waited1 <=> to \in P2_Waited1
        /\ from \notin P2_Waited2 /\ to \notin P2_Waited2
        /\ from \notin {"open1", "open2"} /\ to \notin {"open1", "open2"}
    BY DEF P2_Before1, P2_Before2, P2_Waited1, P2_Waited2
  <2>2. /\ p2_sems["turnstile1"].value \in Int /\ p2_sems["turnstile2"].value \in Int
        /\ p2_sems'["turnstile1"] = p2_sems["turnstile1"]
        /\ p2_sems'["turnstile2"] = p2_sems["turnstile2"]
    BY <1>3 DEF P2_Inv, SemsOK, SemOK, P2_Sems
  <2> QED BY <1>1, <1>2, <2>1, <2>2, P2_GatesKept
<1> QED BY <1>1, <1>3, <1>5, <1>6, <1>7, <1>8 DEF P2_Inv

LEMMA P2_LoadStep ==
    ASSUME P2_Inv, errorFlag = 0, NEW t \in P2_Workers, NEW from, NEW to,
           p2_load(t, from, to),
           \/ from = "load1" /\ to = "store1"
           \/ from = "load2" /\ to = "store2"
    PROVE  P2_Inv' /\ errorFlag' = 0
<1>1. /\ p2_goes(t, from, to)
      /\ p2_reg' = [p2_reg EXCEPT ![t] = p2_arrived]
      /\ p2_sems' = p2_sems /\ p2_i' = p2_i /\ UNCHANGED <<p2_arrived, p2_slots, errorFlag>>
      /\ to \in P2_Positions /\ from # "unborn"
  BY DEF p2_load, p2_memory, P2_Positions
<1>2. /\ P2_Move(t, from, to) /\ p2_pc'[P2_Main] = p2_pc[P2_Main]
      /\ p2_pc' \in [P2_Threads -> P2_Positions]
      /\ \A u \in P2_Threads : IsBlocked(p2_sems, u) => p2_pc'[u] = p2_pc[u]
  BY <1>1, P2_Goes
<1>3. SemsOK(p2_sems', P2_Sems, P2_Threads, P2_At, p2_pc')
  <2>1. SemsOK(p2_sems, P2_Sems, P2_Threads, P2_At, p2_pc) /\ p2_sems' = p2_sems
    BY <1>1 DEF P2_Inv
  <2> QED BY <1>2, <2>1, SemsSame
<1>4. \A L : P2_Count(L)' = P2_Count(L) - (IF from \in L THEN 1 ELSE 0)
                                       + (IF to \in L THEN 1 ELSE 0)
  BY <1>2, P2_CountMoves
<1>5. P2_TypeOK'
  BY <1>1, <1>2 DEF P2_Inv, P2_TypeOK
<1>6. P2_Places'
  <2>1. p2_reg'[t] = p2_arrived /\ \A u \in P2_Workers \ {t} : p2_reg'[u] = p2_reg[u]
    BY <1>1, P2_Sets DEF P2_Inv, P2_TypeOK
  <2> QED BY <1>1, <1>2, <2>1
             DEF P2_Inv, P2_Places, P2_Move, P2_Before1, P2_Before2, P2_Waited1
<1>7. P2_Sums'
  <2>1. /\ P2_Count(P2_Inside)' = P2_Count(P2_Inside)
        /\ P2_Count(P2_Arrived)' = P2_Count(P2_Arrived)
        /\ P2_Count({"done"})' = P2_Count({"done"})
    BY <1>4, P2_CountNat DEF P2_Inside, P2_Arrived
  <2> QED BY <1>1, <1>2, <2>1 DEF P2_Inv, P2_Sums
<1>8. P2_Gates'
  <2>1. /\ from \in P2_Before1 <=> to \in P2_Before1
        /\ from \in P2_Before2 /\ to \in P2_Before2
        /\ from \in P2_Waited1 <=> to \in P2_Waited1
        /\ from \notin P2_Waited2 /\ to \notin P2_Waited2
        /\ from \notin {"open1", "open2"} /\ to \notin {"open1", "open2"}
    BY DEF P2_Before1, P2_Before2, P2_Waited1, P2_Waited2
  <2>2. /\ p2_sems["turnstile1"].value \in Int /\ p2_sems["turnstile2"].value \in Int
    BY DEF P2_Inv, SemsOK, SemOK, P2_Sems
  <2> QED BY <1>1, <1>2, <2>1, <2>2, P2_GatesKept
<1> QED BY <1>1, <1>3, <1>5, <1>6, <1>7, <1>8 DEF P2_Inv

LEMMA P2_StoreStep ==
    ASSUME P2_Inv, errorFlag = 0, NEW t \in P2_Workers, NEW from, NEW d, NEW to,
           p2_store(t, from, d, to),
           \/ from = "store1" /\ d = 1 /\ to = "test1"
           \/ from = "store2" /\ d = -1 /\ to = "test2"
    PROVE  P2_Inv' /\ errorFlag' = 0
<1>1. /\ p2_goes(t, from, to)
      /\ p2_arrived' = p2_reg[t] + d
      /\ p2_reg' = [p2_reg EXCEPT ![t] = 0]
      /\ p2_sems' = p2_sems /\ p2_i' = p2_i /\ UNCHANGED <<p2_slots, errorFlag>>
      /\ to \in P2_Positions /\ from # "unborn"
  BY DEF p2_store, P2_Positions
<1>2. /\ P2_Move(t, from, to) /\ p2_pc'[P2_Main] = p2_pc[P2_Main]
      /\ p2_pc' \in [P2_Threads -> P2_Positions]
      /\ ~IsBlocked(p2_sems, t)
      /\ \A u \in P2_Threads : IsBlocked(p2_sems, u) => p2_pc'[u] = p2_pc[u]
  BY <1>1, P2_Goes
<1>3. SemsOK(p2_sems', P2_Sems, P2_Threads, P2_At, p2_pc')
  <2>1. SemsOK(p2_sems, P2_Sems, P2_Threads, P2_At, p2_pc) /\ p2_sems' = p2_sems
    BY <1>1 DEF P2_Inv
  <2> QED BY <1>2, <2>1, SemsSame
<1>4. \A L : P2_Count(L)' = P2_Count(L) - (IF from \in L THEN 1 ELSE 0)
                                       + (IF to \in L THEN 1 ELSE 0)
  BY <1>2, P2_CountMoves
<1>5. p2_pc[t] = from /\ p2_reg[t] = p2_arrived /\ p2_arrived = P2_Count(P2_Arrived)
  BY <1>2 DEF P2_Inv, P2_Places, P2_Sums, P2_Move
<1>6. /\ P2_Count(P2_Arrived)' = P2_Count(P2_Arrived) + d
      /\ p2_arrived' = P2_Count(P2_Arrived)'
      /\ p2_arrived' \in Nat
  <2>1. P2_Count(P2_Arrived)' = P2_Count(P2_Arrived) + d
    BY <1>4, P2_CountNat DEF P2_Arrived
  <2>2. P2_Count(P2_Arrived)' \in Nat
    BY P2_Sets, CountBounds DEF P2_Count
  <2> QED BY <1>1, <1>5, <2>1, <2>2
<1>7. P2_TypeOK'
  BY <1>1, <1>2, <1>6 DEF P2_Inv, P2_TypeOK
<1>8. P2_Places'
  <2>1. \A u \in P2_Workers \ {t} : p2_reg'[u] = p2_reg[u] /\ p2_pc[u] \notin {"store1", "store2"}
    <3>1. \A u \in P2_Workers \ {t} : p2_reg'[u] = p2_reg[u]
      BY <1>1, P2_Sets DEF P2_Inv, P2_TypeOK
    <3>2. ASSUME NEW u \in P2_Workers \ {t}, p2_pc[u] \in {"store1", "store2"} PROVE FALSE
      <4>1. p2_pc[t] \in P2_Inside /\ p2_pc[u] \in P2_Inside
        BY <1>5, <3>2 DEF P2_Inside
      <4> QED BY <1>2, <3>2, <4>1, P2_Exclusion
    <3> QED BY <3>1, <3>2
  <2> QED BY <1>1, <1>2, <2>1
             DEF P2_Inv, P2_Places, P2_Move, P2_Before1, P2_Before2, P2_Waited1
<1>9. P2_Sums'
  <2>1. /\ P2_Count(P2_Inside)' = P2_Count(P2_Inside)
        /\ P2_Count({"done"})' = P2_Count({"done"})
    BY <1>4, P2_CountNat DEF P2_Inside
  <2> QED BY <1>1, <1>2, <1>6, <2>1 DEF P2_Inv, P2_Sums
<1>10. P2_Gates'
  <2>1. /\ from \in P2_Before1 <=> to \in P2_Before1
        /\ from \in P2_Before2 /\ to \in P2_Before2
        /\ from \in P2_Waited1 <=> to \in P2_Waited1
        /\ from \notin P2_Waited2 /\ to \notin P2_Waited2
        /\ from \notin {"open1", "open2"} /\ to \notin {"open1", "open2"}
    BY DEF P2_Before1, P2_Before2, P2_Waited1, P2_Waited2
  <2>2. /\ p2_sems["turnstile1"].value \in Int /\ p2_sems["turnstile2"].value \in Int
    BY DEF P2_Inv, SemsOK, SemOK, P2_Sems
  <2> QED BY <1>1, <1>2, <2>1, <2>2, P2_GatesKept
<1> QED BY <1>1, <1>3, <1>7, <1>8, <1>9, <1>10 DEF P2_Inv

\* Who tests whether it is the last.
LEMMA P2_Test1 ==
    ASSUME P2_Inv, NEW t \in P2_Workers, p2_pc[t] = "test1", ~IsBlocked(p2_sems, t)
    PROVE  AllArrived(P2_NUM_THREADS) <=> \A u \in P2_Workers \ {t} : p2_pc[u] \notin P2_Before1
<1>1. AllArrived(P2_NUM_THREADS) <=> \A u \in P2_Workers : p2_pc[u] \in P2_Arrived
  <2>1. p2_arrived = CountIn(p2_pc, P2_Workers, P2_Arrived)
    BY DEF P2_Inv, P2_Sums, P2_Count
  <2>2. CountIn(p2_pc, P2_Workers, P2_Arrived) = Cardinality(P2_Workers)
           <=> \A u \in P2_Workers : p2_pc[u] \in P2_Arrived
    BY P2_Sets, CountBounds
  <2> QED BY <2>1, <2>2, P2_Sets DEF AllArrived
<1>2. ASSUME NEW u \in P2_Workers \ {t}, p2_pc[u] \in P2_Arrived PROVE p2_pc[u] \notin P2_Before1
  <2>1. p2_pc[u] # "test1"
    BY P2_Exclusion DEF P2_Inside
  <2> QED BY <1>2, <2>1 DEF P2_Arrived, P2_Before1
<1>3. ASSUME NEW u \in P2_Workers, p2_pc[u] \notin P2_Before1 PROVE p2_pc[u] \in P2_Arrived
  <2>1. p2_pc[t] \in P2_Before1
    BY DEF P2_Before1
  <2>2. p2_pc[u] \in P2_Waited1 => p2_pc[u] = "verify"
    BY <2>1, P2_Through
  <2>3. p2_pc[u] # "open1"
    BY <2>1 DEF P2_Inv, P2_Gates, P2_Gate
  <2>4. p2_pc[u] \in P2_Before2 \union P2_Waited1
    BY DEF P2_Inv, P2_Places
  <2> QED BY <1>3, <2>2, <2>3, <2>4 DEF P2_Before1, P2_Before2, P2_Waited1, P2_Arrived
<1>4. p2_pc[t] \in P2_Arrived
  BY DEF P2_Arrived
<1> QED BY <1>1, <1>2, <1>3, <1>4

LEMMA P2_Test2 ==
    ASSUME P2_Inv, NEW t \in P2_Workers, p2_pc[t] = "test2", ~IsBlocked(p2_sems, t)
    PROVE  AllArrived(0) <=> \A u \in P2_Workers \ {t} : p2_pc[u] \notin P2_Before2
<1>1. AllArrived(0) <=> \A u \in P2_Workers : p2_pc[u] \notin P2_Arrived
  <2>1. p2_arrived = CountIn(p2_pc, P2_Workers, P2_Arrived)
    BY DEF P2_Inv, P2_Sums, P2_Count
  <2>2. CountIn(p2_pc, P2_Workers, P2_Arrived) = 0
           <=> \A u \in P2_Workers : p2_pc[u] \notin P2_Arrived
    BY P2_Sets, CountBounds
  <2> QED BY <2>1, <2>2 DEF AllArrived
<1>2. ASSUME NEW u \in P2_Workers \ {t}, p2_pc[u] \notin P2_Arrived PROVE p2_pc[u] \notin P2_Before2
  <2>1. p2_pc[u] # "test2"
    BY P2_Exclusion DEF P2_Inside
  <2>2. p2_pc[u] \notin P2_Before1
    BY P2_Through DEF P2_Waited1
  <2> QED BY <1>2, <2>1, <2>2 DEF P2_Arrived, P2_Before1, P2_Before2
<1>3. ASSUME NEW u \in P2_Workers, p2_pc[u] \notin P2_Before2 PROVE p2_pc[u] \notin P2_Arrived
  BY <1>3 DEF P2_Arrived, P2_Before1, P2_Before2
<1>4. p2_pc[t] \notin P2_Arrived
  BY DEF P2_Arrived
<1> QED BY <1>1, <1>2, <1>3, <1>4

LEMMA P2_TestStep ==
    ASSUME P2_Inv, errorFlag = 0, NEW t \in P2_Workers,
           \/ p2_test(t, "test1", P2_NUM_THREADS, "open1", "unlock1")
           \/ p2_test(t, "test2", 0, "open2", "unlock2")
    PROVE  P2_Inv' /\ errorFlag' = 0
<1>1. PICK from, to \in P2_Positions :
        /\ p2_goes(t, from, to)
        /\ p2_sems' = p2_sems /\ p2_i' = p2_i
        /\ UNCHANGED <<p2_reg, p2_arrived, p2_slots, errorFlag>>
        /\ \/ /\ from = "test1" /\ to \in {"open1", "unlock1"}
              /\ to = "open1" <=> AllArrived(P2_NUM_THREADS)
           \/ /\ from = "test2" /\ to \in {"open2", "unlock2"}
              /\ to = "open2" <=> AllArrived(0)
  BY DEF p2_test, p2_memory, P2_Positions
<1>2. /\ P2_Move(t, from, to) /\ p2_pc'[P2_Main] = p2_pc[P2_Main]
      /\ p2_pc' \in [P2_Threads -> P2_Positions]
      /\ ~IsBlocked(p2_sems, t)
      /\ \A u \in P2_Threads : IsBlocked(p2_sems, u) => p2_pc'[u] = p2_pc[u]
  BY <1>1, P2_Goes
<1>3. SemsOK(p2_sems', P2_Sems, P2_Threads, P2_At, p2_pc')
  <2>1. SemsOK(p2_sems, P2_Sems, P2_Threads, P2_At, p2_pc) /\ p2_sems' = p2_sems
    BY <1>1 DEF P2_Inv
  <2> QED BY <1>2, <2>1, SemsSame
<1>4. \A L : P2_Count(L)' = P2_Count(L) - (IF from \in L THEN 1 ELSE 0)
                                       + (IF to \in L THEN 1 ELSE 0)
  BY <1>2, P2_CountMoves
<1>5. P2_TypeOK'
  BY <1>1, <1>2 DEF P2_Inv, P2_TypeOK
<1>6. P2_Places'
  BY <1>1, <1>2 DEF P2_Inv, P2_Places, P2_Move, P2_Before1, P2_Before2, P2_Waited1
<1>7. P2_Sums'
  <2>1. /\ P2_Count(P2_Inside)' = P2_Count(P2_Inside)
        /\ P2_Count(P2_Arrived)' = P2_Count(P2_Arrived)
        /\ P2_Count({"done"})' = P2_Count({"done"})
    BY <1>1, <1>4, P2_CountNat DEF P2_Inside, P2_Arrived
  <2> QED BY <1>1, <1>2, <2>1 DEF P2_Inv, P2_Sums
<1>8. P2_Gates'
  <2>1. /\ P2_Gate("turnstile1", P2_Before1, "open1", P2_Waited1)
        /\ P2_Gate("turnstile2", P2_Before2, "open2", P2_Waited2)
        /\ p2_i[t] = 0 /\ p2_pc[t] = from
    BY <1>1, <1>2 DEF P2_Inv, P2_Gates, P2_Places, P2_Move
  <2>2. /\ P2_Signals("turnstile1", P2_Waited1)' = P2_Signals("turnstile1", P2_Waited1)
        /\ P2_Signals("turnstile2", P2_Waited2)' = P2_Signals("turnstile2", P2_Waited2)
    <3>1. /\ P2_Count(P2_Waited1)' = P2_Count(P2_Waited1)
          /\ P2_Count(P2_Waited2)' = P2_Count(P2_Waited2)
      BY <1>1, <1>4, P2_CountNat DEF P2_Waited1, P2_Waited2
    <3> QED BY <1>1, <3>1 DEF P2_Signals
  <2>3. CASE from = "test1"
    <3>1. /\ from \in P2_Before1 /\ to \notin P2_Before1
          /\ from \in P2_Before2 /\ to \in P2_Before2
          /\ from # "open2" /\ to # "open2"
      BY <1>1, <2>3 DEF P2_Before1, P2_Before2
    <3>2. to = "open1" <=> \A u \in P2_Workers \ {t} : p2_pc[u] \notin P2_Before1
      BY <1>1, <1>2, <2>1, <2>3, P2_Test1
    <3>3. P2_Gate("turnstile1", P2_Before1, "open1", P2_Waited1)'
      BY <1>1, <1>2, <2>1, <2>2, <3>1, <3>2, P2_GateTested
    <3>4. P2_Gate("turnstile2", P2_Before2, "open2", P2_Waited2)'
      BY <1>1, <1>2, <2>1, <2>2, <3>1, P2_GateKept
    <3> QED BY <3>3, <3>4 DEF P2_Gates
  <2>4. CASE from = "test2"
    <3>1. /\ from \notin P2_Before1 /\ to \notin P2_Before1
          /\ from \in P2_Before2 /\ to \notin P2_Before2
          /\ from # "open1" /\ to # "open1"
      BY <1>1, <2>4 DEF P2_Before1, P2_Before2
    <3>2. to = "open2" <=> \A u \in P2_Workers \ {t} : p2_pc[u] \notin P2_Before2
      BY <1>1, <1>2, <2>1, <2>4, P2_Test2
    <3>3. P2_Gate("turnstile1", P2_Before1, "open1", P2_Waited1)'
      BY <1>1, <1>2, <2>1, <2>2, <3>1, P2_GateKept
    <3>4. P2_Gate("turnstile2", P2_Before2, "open2", P2_Waited2)'
      BY <1>1, <1>2, <2>1, <2>2, <3>1, <3>2, P2_GateTested
    <3> QED BY <3>3, <3>4 DEF P2_Gates
  <2> QED BY <1>1, <2>3, <2>4
<1> QED BY <1>1, <1>3, <1>5, <1>6, <1>7, <1>8 DEF P2_Inv

LEMMA P2_OpenForAllStep ==
    ASSUME P2_Inv, errorFlag = 0, NEW t \in P2_Workers,
           NEW from, NEW turnstile, NEW after,
           p2_openForAll(t, from, turnstile, after),
           \/ from = "open1" /\ turnstile = "turnstile1" /\ after = "unlock1"
           \/ from = "open2" /\ turnstile = "turnstile2" /\ after = "unlock2"
    PROVE  P2_Inv' /\ errorFlag' = 0
<1> DEFINE to == p2_round(t, from, after)
<1>1. /\ p2_goes(t, from, to) /\ p2_sems' = sem_signal(p2_sems, turnstile)
      /\ p2_i' = [p2_i EXCEPT ![t] = IF @ + 1 < P2_NUM_THREADS THEN @ + 1 ELSE 0]
      /\ UNCHANGED <<p2_reg, p2_arrived, p2_slots, errorFlag>>
      /\ from # "unborn"
  BY DEF p2_openForAll, p2_signal, p2_next, p2_memory
<1>2. /\ to \in P2_Positions
      /\ p2_i[t] + 1 < P2_NUM_THREADS => to = from
      /\ ~(p2_i[t] + 1 < P2_NUM_THREADS) => to = after
      /\ from # after
  BY DEF P2_Positions, p2_round
<1> HIDE DEF to
<1>3. /\ P2_Move(t, from, to) /\ p2_pc'[P2_Main] = p2_pc[P2_Main]
      /\ ~IsBlocked(p2_sems, t) /\ t \in P2_Threads
      /\ p2_pc' \in [P2_Threads -> P2_Positions]
      /\ \A u \in P2_Threads : IsBlocked(p2_sems, u) => p2_pc'[u] = p2_pc[u]
      /\ p2_pc[P2_Main] # "open"
      /\ p2_i \in [P2_Threads -> 0..(P2_NUM_THREADS - 1)]
  BY <1>1, <1>2, P2_Goes
<1>4. /\ SemsOK(p2_sems', P2_Sems, P2_Threads, P2_At, p2_pc')
      /\ p2_sems'[turnstile].value = p2_sems[turnstile].value + 1
      /\ \A r \in P2_Sems \ {turnstile} : p2_sems'[r] = p2_sems[r]
  <2>1. SemsOK(p2_sems, P2_Sems, P2_Threads, P2_At, p2_pc) /\ turnstile \in P2_Sems
    BY DEF P2_Inv, P2_Sems
  <2>2. p2_sems' = sem_signal(p2_sems, turnstile)
    BY <1>1
  <2> QED BY <1>3, <2>1, <2>2, SemsSignal
<1>5. \A L : P2_Count(L)' = P2_Count(L) - (IF from \in L THEN 1 ELSE 0)
                                       + (IF to \in L THEN 1 ELSE 0)
  BY <1>3, P2_CountMoves
<1>6. /\ p2_i[t] + 1 < P2_NUM_THREADS => p2_i'[t] = p2_i[t] + 1
      /\ ~(p2_i[t] + 1 < P2_NUM_THREADS) => p2_i'[t] = 0
      /\ \A u \in P2_Threads \ {t} : p2_i'[u] = p2_i[u]
      /\ p2_i' \in [P2_Threads -> 0..(P2_NUM_THREADS - 1)]
      /\ p2_i[t] \in 0..(P2_NUM_THREADS - 1) /\ p2_i'[P2_Main] = p2_i[P2_Main]
  <2>1. P2_NUM_THREADS \in Nat \ {0}
    BY P2_Sets
  <2> QED BY <1>1, <1>3, <2>1, P2_Sets
<1>7. P2_TypeOK'
  BY <1>1, <1>3, <1>4, <1>6 DEF P2_Inv, P2_TypeOK, SemsOK
<1>8. P2_Places'
  BY <1>1, <1>2, <1>3, <1>6, P2_Sets
     DEF P2_Inv, P2_Places, P2_Move, P2_Before1, P2_Before2, P2_Waited1
<1>9. P2_Sums'
  <2>1. /\ P2_Count(P2_Inside)' = P2_Count(P2_Inside)
        /\ P2_Count(P2_Arrived)' = P2_Count(P2_Arrived)
        /\ P2_Count({"done"})' = P2_Count({"done"})
    BY <1>2, <1>5, P2_CountNat DEF P2_Inside, P2_Arrived
  <2> QED BY <1>1, <1>3, <1>4, <1>6, <2>1 DEF P2_Inv, P2_Sums, P2_Sems
<1>10. \A u \in P2_Workers \ {t} : p2_pc[u] \notin {"open1", "open2"}
  <2>1. p2_pc[t] \in P2_Inside
    BY <1>3 DEF P2_Move, P2_Inside
  <2>2. ASSUME NEW u \in P2_Workers \ {t}, p2_pc[u] \in {"open1", "open2"} PROVE FALSE
    <3>1. p2_pc[u] \in P2_Inside
      BY <2>2 DEF P2_Inside
    <3> QED BY <1>3, <2>1, <2>2, <3>1, P2_Exclusion
  <2> QED BY <2>2
<1>11. P2_Gates'
  <2>1. /\ P2_Gate("turnstile1", P2_Before1, "open1", P2_Waited1)
        /\ P2_Gate("turnstile2", P2_Before2, "open2", P2_Waited2)
        /\ p2_sems["turnstile1"].value \in Int /\ p2_sems["turnstile2"].value \in Int
        /\ \A u \in P2_Workers \ {t} : p2_i'[u] = p2_i[u]
    BY <1>6, P2_Sets DEF P2_Inv, P2_Gates, SemsOK, SemOK, P2_Sems
  <2>2. /\ P2_Count(P2_Waited1)' = P2_Count(P2_Waited1) /\ P2_Count(P2_Waited1) \in Nat
        /\ P2_Count(P2_Waited2)' = P2_Count(P2_Waited2) /\ P2_Count(P2_Waited2) \in Nat
    BY <1>2, <1>5, P2_CountNat DEF P2_Waited1, P2_Waited2
  <2>3. CASE from = "open1"
    <3>1. /\ from \notin P2_Before1 /\ to \notin P2_Before1
          /\ from \in P2_Before2 /\ to \in P2_Before2
          /\ from # "open2" /\ to # "open2"
      BY <1>2, <2>3 DEF P2_Before1, P2_Before2
    <3>2. /\ P2_Signals("turnstile1", P2_Waited1)' = P2_Signals("turnstile1", P2_Waited1) + 1
          /\ P2_Signals("turnstile2", P2_Waited2)' = P2_Signals("turnstile2", P2_Waited2)
      BY <1>4, <2>1, <2>2, <2>3 DEF P2_Signals, P2_Sems
    <3>3. P2_Gate("turnstile1", P2_Before1, "open1", P2_Waited1)'
      <4>1. P2_Move(t, "open1", to) /\ "open1" \notin P2_Before1 /\ after # "open1"
        BY <1>2, <1>3, <2>3, <3>1
      <4> QED BY <1>2, <1>6, <1>10, <2>1, <2>3, <3>1, <3>2, <4>1, P2_GateOpened
    <3>4. P2_Gate("turnstile2", P2_Before2, "open2", P2_Waited2)'
      BY <1>3, <2>1, <3>1, <3>2, P2_GateKept
    <3> QED BY <3>3, <3>4 DEF P2_Gates
  <2>4. CASE from = "open2"
    <3>1. /\ from \notin P2_Before1 /\ to \notin P2_Before1
          /\ from \notin P2_Before2 /\ to \notin P2_Before2
          /\ from # "open1" /\ to # "open1"
      BY <1>2, <2>4 DEF P2_Before1, P2_Before2
    <3>2. /\ P2_Signals("turnstile1", P2_Waited1)' = P2_Signals("turnstile1", P2_Waited1)
          /\ P2_Signals("turnstile2", P2_Waited2)' = P2_Signals("turnstile2", P2_Waited2) + 1
      BY <1>4, <2>1, <2>2, <2>4 DEF P2_Signals, P2_Sems
    <3>3. P2_Gate("turnstile2", P2_Before2, "open2", P2_Waited2)'
      <4>1. P2_Move(t, "open2", to) /\ "open2" \notin P2_Before2 /\ after # "open2"
        BY <1>2, <1>3, <2>4, <3>1
      <4> QED BY <1>2, <1>6, <1>10, <2>1, <2>4, <3>1, <3>2, <4>1, P2_GateOpened
    <3>4. P2_Gate("turnstile1", P2_Before1, "open1", P2_Waited1)'
      BY <1>3, <2>1, <3>1, <3>2, P2_GateKept
    <3> QED BY <3>3, <3>4 DEF P2_Gates
  <2> QED BY <2>3, <2>4
<1> QED BY <1>1, <1>4, <1>7, <1>8, <1>9, <1>11 DEF P2_Inv

LEMMA P2_UnlockStep ==
    ASSUME P2_Inv, errorFlag = 0, NEW t \in P2_Workers, NEW from, NEW to,
           p2_signal(t, from, "mutex", to),
           \/ from = "unlock1" /\ to = "turnstile1"
           \/ from = "unlock2" /\ to = "turnstile2",
           UNCHANGED <<p2_i, p2_reg, p2_memory>>
    PROVE  P2_Inv' /\ errorFlag' = 0
<1>1. /\ p2_goes(t, from, to) /\ p2_sems' = sem_signal(p2_sems, "mutex")
      /\ p2_i' = p2_i /\ UNCHANGED <<p2_reg, p2_arrived, p2_slots, errorFlag>>
      /\ to \in P2_Positions /\ from # "unborn"
  BY DEF p2_signal, p2_memory, P2_Positions
<1>2. /\ P2_Move(t, from, to) /\ p2_pc'[P2_Main] = p2_pc[P2_Main]
      /\ p2_pc' \in [P2_Threads -> P2_Positions]
      /\ \A u \in P2_Threads : IsBlocked(p2_sems, u) => p2_pc'[u] = p2_pc[u]
      /\ p2_pc[P2_Main] # "open"
  BY <1>1, P2_Goes
<1>3. /\ SemsOK(p2_sems', P2_Sems, P2_Threads, P2_At, p2_pc')
      /\ p2_sems'["mutex"].value = p2_sems["mutex"].value + 1
      /\ \A r \in P2_Sems \ {"mutex"} : p2_sems'[r] = p2_sems[r]
  <2>1. SemsOK(p2_sems, P2_Sems, P2_Threads, P2_At, p2_pc) /\ "mutex" \in P2_Sems
    BY DEF P2_Inv, P2_Sems
  <2>2. p2_sems' = sem_signal(p2_sems, "mutex")
    BY <1>1
  <2> QED BY <1>2, <2>1, <2>2, SemsSignal
<1>4. \A L : P2_Count(L)' = P2_Count(L) - (IF from \in L THEN 1 ELSE 0)
                                       + (IF to \in L THEN 1 ELSE 0)
  BY <1>2, P2_CountMoves
<1>5. P2_TypeOK'
  BY <1>1, <1>2, <1>3 DEF P2_Inv, P2_TypeOK, SemsOK
<1>6. P2_Places'
  BY <1>1, <1>2 DEF P2_Inv, P2_Places, P2_Move, P2_Before1, P2_Before2, P2_Waited1
<1>7. P2_Sums'
  <2>1. /\ P2_Count(P2_Inside)' = P2_Count(P2_Inside) - 1
        /\ P2_Count(P2_Arrived)' = P2_Count(P2_Arrived)
        /\ P2_Count({"done"})' = P2_Count({"done"})
        /\ P2_Count(P2_Inside) \in Nat
    BY <1>4, P2_CountNat DEF P2_Inside, P2_Arrived
  <2>2. p2_sems["mutex"].value \in Int
    BY DEF P2_Inv, SemsOK, SemOK, P2_Sems
  <2> QED BY <1>1, <1>2, <1>3, <2>1, <2>2 DEF P2_Inv, P2_Sums, P2_Sems
<1>8. P2_Gates'
  <2>1. /\ from \in P2_Before1 <=> to \in P2_Before1
        /\ from \in P2_Before2 <=> to \in P2_Before2
        /\ from \in P2_Waited1 <=> to \in P2_Waited1
        /\ from \in P2_Waited2 <=> to \in P2_Waited2
        /\ from \notin {"open1", "open2"} /\ to \notin {"open1", "open2"}
    BY DEF P2_Before1, P2_Before2, P2_Waited1, P2_Waited2
  <2>2. /\ p2_sems["turnstile1"].value \in Int /\ p2_sems["turnstile2"].value \in Int
        /\ p2_sems'["turnstile1"] = p2_sems["turnstile1"]
        /\ p2_sems'["turnstile2"] = p2_sems["turnstile2"]
    BY <1>3 DEF P2_Inv, SemsOK, SemOK, P2_Sems
  <2> QED BY <1>1, <1>2, <2>1, <2>2, P2_GatesKept
<1> QED BY <1>1, <1>3, <1>5, <1>6, <1>7, <1>8 DEF P2_Inv

LEMMA P2_TurnstileStep ==
    ASSUME P2_Inv, errorFlag = 0, NEW t \in P2_Workers, NEW from, NEW turnstile, NEW to,
           p2_wait(t, from, turnstile, to),
           \/ from = "turnstile1" /\ turnstile = "turnstile1" /\ to = "verify"
           \/ from = "turnstile2" /\ turnstile = "turnstile2" /\ to = "tell",
           UNCHANGED <<p2_i, p2_reg, p2_memory>>
    PROVE  P2_Inv' /\ errorFlag' = 0
<1>1. /\ p2_goes(t, from, to) /\ p2_sems' = sem_wait(p2_sems, turnstile, t)
      /\ p2_i' = p2_i /\ UNCHANGED <<p2_reg, p2_arrived, p2_slots, errorFlag>>
      /\ to \in P2_Positions /\ from # "unborn"
  BY DEF p2_wait, p2_memory, P2_Positions
<1>2. /\ P2_Move(t, from, to) /\ p2_pc'[P2_Main] = p2_pc[P2_Main]
      /\ ~IsBlocked(p2_sems, t) /\ t \in P2_Threads
      /\ p2_pc' \in [P2_Threads -> P2_Positions]
      /\ p2_pc'[t] = to /\ \A u \in P2_Threads \ {t} : p2_pc'[u] = p2_pc[u]
  BY <1>1, P2_Goes
<1>3. /\ SemsOK(p2_sems', P2_Sems, P2_Threads, P2_At, p2_pc')
      /\ p2_sems'[turnstile].value = p2_sems[turnstile].value - 1
      /\ \A r \in P2_Sems \ {turnstile} : p2_sems'[r] = p2_sems[r]
  <2>1. /\ SemsOK(p2_sems, P2_Sems, P2_Threads, P2_At, p2_pc)
        /\ <<t, p2_pc'[t], turnstile>> \in P2_At
        /\ turnstile \in P2_Sems
    BY <1>2 DEF P2_Inv, P2_At, P2_Sems
  <2>2. p2_sems' = sem_wait(p2_sems, turnstile, t)
    BY <1>1
  <2> QED BY <1>2, <2>1, <2>2, SemsWait
<1>4. \A L : P2_Count(L)' = P2_Count(L) - (IF from \in L THEN 1 ELSE 0)
                                       + (IF to \in L THEN 1 ELSE 0)
  BY <1>2, P2_CountMoves
<1>5. P2_TypeOK'
  BY <1>1, <1>2, <1>3 DEF P2_Inv, P2_TypeOK, SemsOK
<1>6. P2_Places'
  BY <1>1, <1>2 DEF P2_Inv, P2_Places, P2_Move, P2_Before1, P2_Before2, P2_Waited1, P2_Waited2
<1>7. P2_Sums'
  <2>1. /\ P2_Count(P2_Inside)' = P2_Count(P2_Inside)
        /\ P2_Count(P2_Arrived)' = P2_Count(P2_Arrived)
        /\ P2_Count({"done"})' = P2_Count({"done"})
    BY <1>4, P2_CountNat DEF P2_Inside, P2_Arrived
  <2> QED BY <1>1, <1>2, <1>3, <2>1 DEF P2_Inv, P2_Sums, P2_Sems
<1>8. P2_Gates'
  <2>1. /\ from \in P2_Before1 <=> to \in P2_Before1
        /\ from \in P2_Before2 <=> to \in P2_Before2
        /\ from \notin {"open1", "open2"} /\ to \notin {"open1", "open2"}
        /\ from = "turnstile1" =>
             from \notin P2_Waited1 /\ to \in P2_Waited1 /\ from \notin P2_Waited2 /\ to \notin P2_Waited2
        /\ from = "turnstile2" =>
             from \in P2_Waited1 /\ to \in P2_Waited1 /\ from \notin P2_Waited2 /\ to \in P2_Waited2
    BY DEF P2_Before1, P2_Before2, P2_Waited1, P2_Waited2
  <2>2. /\ p2_sems["turnstile1"].value \in Int /\ p2_sems["turnstile2"].value \in Int
        /\ p2_sems'["turnstile1"].value = p2_sems["turnstile1"].value
              - IF from = "turnstile1" THEN 1 ELSE 0
        /\ p2_sems'["turnstile2"].value = p2_sems["turnstile2"].value
              - IF from = "turnstile2" THEN 1 ELSE 0
    <3>1. p2_sems["turnstile1"].value \in Int /\ p2_sems["turnstile2"].value \in Int
      BY DEF P2_Inv, SemsOK, SemOK, P2_Sems
    <3>2. CASE from = "turnstile1"
      BY <1>3, <3>1, <3>2 DEF P2_Sems
    <3>3. CASE from = "turnstile2"
      BY <1>3, <3>1, <3>3 DEF P2_Sems
    <3> QED BY <3>2, <3>3
  <2>3. /\ p2_sems'["turnstile1"].value = p2_sems["turnstile1"].value
             + (IF from \in P2_Waited1 THEN 1 ELSE 0) - (IF to \in P2_Waited1 THEN 1 ELSE 0)
        /\ p2_sems'["turnstile2"].value = p2_sems["turnstile2"].value
             + (IF from \in P2_Waited2 THEN 1 ELSE 0) - (IF to \in P2_Waited2 THEN 1 ELSE 0)
    BY <2>1, <2>2
  <2> QED BY <1>1, <1>2, <2>1, <2>3, P2_GatesKept
<1> QED BY <1>1, <1>3, <1>5, <1>6, <1>7, <1>8 DEF P2_Inv

LEMMA P2_VerifyStep ==
    ASSUME P2_Inv, errorFlag = 0, NEW t \in P2_Workers,
           p2_goes(t, "verify", p2_round(t, "verify", "lock2")),
           p2_next(t),
           check(p2_slots[p2_i[t] + 1] = p2_i[t] + 1),
           UNCHANGED <<p2_reg, p2_sems, p2_arrived, p2_slots>>
    PROVE  P2_Inv' /\ errorFlag' = 0
<1> DEFINE to == p2_round(t, "verify", "lock2")
<1>1. /\ p2_goes(t, "verify", to)
      /\ p2_i' = [p2_i EXCEPT ![t] = IF @ + 1 < P2_NUM_THREADS THEN @ + 1 ELSE 0]
  BY DEF p2_next
<1>2. /\ to \in P2_Positions
      /\ p2_i[t] + 1 < P2_NUM_THREADS => to = "verify"
      /\ ~(p2_i[t] + 1 < P2_NUM_THREADS) => to = "lock2"
  BY DEF P2_Positions, p2_round
<1> HIDE DEF to
<1>3. /\ P2_Move(t, "verify", to) /\ p2_pc'[P2_Main] = p2_pc[P2_Main]
      /\ ~IsBlocked(p2_sems, t) /\ t \in P2_Threads
      /\ p2_pc' \in [P2_Threads -> P2_Positions]
      /\ \A u \in P2_Threads : IsBlocked(p2_sems, u) => p2_pc'[u] = p2_pc[u]
      /\ p2_i \in [P2_Threads -> 0..(P2_NUM_THREADS - 1)]
  BY <1>1, <1>2, P2_Goes
<1>4. SemsOK(p2_sems', P2_Sems, P2_Threads, P2_At, p2_pc')
  <2>1. SemsOK(p2_sems, P2_Sems, P2_Threads, P2_At, p2_pc) /\ p2_sems' = p2_sems
    BY DEF P2_Inv
  <2> QED BY <1>3, <2>1, SemsSame
<1>5. \A L : P2_Count(L)' = P2_Count(L) - (IF "verify" \in L THEN 1 ELSE 0)
                                       + (IF to \in L THEN 1 ELSE 0)
  BY <1>3, P2_CountMoves
<1>6. /\ p2_i[t] + 1 < P2_NUM_THREADS => p2_i'[t] = p2_i[t] + 1
      /\ ~(p2_i[t] + 1 < P2_NUM_THREADS) => p2_i'[t] = 0
      /\ \A u \in P2_Threads \ {t} : p2_i'[u] = p2_i[u]
      /\ p2_i' \in [P2_Threads -> 0..(P2_NUM_THREADS - 1)]
      /\ p2_i[t] \in 0..(P2_NUM_THREADS - 1) /\ p2_i'[P2_Main] = p2_i[P2_Main]
      /\ p2_i[t] + 1 \in P2_Workers
  <2>1. P2_NUM_THREADS \in Nat \ {0}
    BY P2_Sets
  <2> QED BY <1>1, <1>3, <2>1, P2_Sets DEF P2_Workers
<1>7. errorFlag' = 0
  <2>1. \A u \in P2_Workers : p2_pc[u] \notin P2_Before1
    BY <1>3, P2_Through DEF P2_Move, P2_Waited1
  <2>2. p2_slots[p2_i[t] + 1] = p2_i[t] + 1
    BY <1>6, <2>1 DEF P2_Inv, P2_Places, P2_Before1
  <2> QED BY <2>2 DEF check
<1>8. P2_TypeOK'
  BY <1>3, <1>6 DEF P2_Inv, P2_TypeOK
<1>9. P2_Places'
  BY <1>2, <1>3, <1>6, P2_Sets
     DEF P2_Inv, P2_Places, P2_Move, P2_Before1, P2_Before2, P2_Waited1
<1>10. P2_Sums'
  <2>1. /\ P2_Count(P2_Inside)' = P2_Count(P2_Inside)
        /\ P2_Count(P2_Arrived)' = P2_Count(P2_Arrived)
        /\ P2_Count({"done"})' = P2_Count({"done"})
    BY <1>2, <1>5, P2_CountNat DEF P2_Inside, P2_Arrived
  <2> QED BY <1>3, <1>6, <2>1 DEF P2_Inv, P2_Sums
<1>11. P2_Gates'
  <2>1. /\ "verify" \notin P2_Before1 /\ to \notin P2_Before1
        /\ "verify" \in P2_Before2 /\ to \in P2_Before2
        /\ "verify" \in P2_Waited1 /\ to \in P2_Waited1
        /\ "verify" \notin P2_Waited2 /\ to \notin P2_Waited2
        /\ "verify" \notin {"open1", "open2"} /\ to \notin {"open1", "open2"}
    BY <1>2 DEF P2_Before1, P2_Before2, P2_Waited1, P2_Waited2
  <2>2. /\ p2_sems["turnstile1"].value \in Int /\ p2_sems["turnstile2"].value \in Int
        /\ p2_sems' = p2_sems /\ \A u \in P2_Workers \ {t} : p2_i'[u] = p2_i[u]
    BY <1>6, P2_Sets DEF P2_Inv, SemsOK, SemOK, P2_Sems
  <2> QED BY <1>3, <2>1, <2>2, P2_GatesKept
<1> QED BY <1>4, <1>7, <1>8, <1>9, <1>10, <1>11 DEF P2_Inv

LEMMA P2_TellStep ==
    ASSUME P2_Inv, errorFlag = 0, NEW t \in P2_Workers,
           p2_signal(t, "tell", "finished", "done"),
           UNCHANGED <<p2_i, p2_reg, p2_memory>>
    PROVE  P2_Inv' /\ errorFlag' = 0
<1>1. /\ p2_goes(t, "tell", "done") /\ p2_sems' = sem_signal(p2_sems, "finished")
      /\ p2_i' = p2_i /\ UNCHANGED <<p2_reg, p2_arrived, p2_slots, errorFlag>>
      /\ "done" \in P2_Positions
  BY DEF p2_signal, p2_memory, P2_Positions
<1>2. /\ P2_Move(t, "tell", "done") /\ p2_pc'[P2_Main] = p2_pc[P2_Main]
      /\ p2_pc' \in [P2_Threads -> P2_Positions]
      /\ \A u \in P2_Threads : IsBlocked(p2_sems, u) => p2_pc'[u] = p2_pc[u]
  BY <1>1, P2_Goes
<1>3. /\ SemsOK(p2_sems', P2_Sems, P2_Threads, P2_At, p2_pc')
      /\ p2_sems'["finished"].value = p2_sems["finished"].value + 1
      /\ \A r \in P2_Sems \ {"finished"} : p2_sems'[r] = p2_sems[r]
  <2>1. SemsOK(p2_sems, P2_Sems, P2_Threads, P2_At, p2_pc) /\ "finished" \in P2_Sems
    BY DEF P2_Inv, P2_Sems
  <2>2. p2_sems' = sem_signal(p2_sems, "finished")
    BY <1>1
  <2> QED BY <1>2, <2>1, <2>2, SemsSignal
<1>4. \A L : P2_Count(L)' = P2_Count(L) - (IF "tell" \in L THEN 1 ELSE 0)
                                       + (IF "done" \in L THEN 1 ELSE 0)
  BY <1>2, P2_CountMoves
<1>5. P2_TypeOK'
  BY <1>1, <1>2, <1>3 DEF P2_Inv, P2_TypeOK, SemsOK
<1>6. P2_Places'
  BY <1>1, <1>2 DEF P2_Inv, P2_Places, P2_Move, P2_Before1, P2_Before2, P2_Waited1, P2_Waited2
<1>7. P2_Sums'
  <2>1. /\ P2_Count(P2_Inside)' = P2_Count(P2_Inside)
        /\ P2_Count(P2_Arrived)' = P2_Count(P2_Arrived)
        /\ P2_Count({"done"})' = P2_Count({"done"}) + 1
        /\ P2_Count({"done"}) \in Nat
    BY <1>4, P2_CountNat DEF P2_Inside, P2_Arrived
  <2>2. p2_i[P2_Main] \in Int /\ P2_NUM_THREADS \in Int
    BY P2_Sets DEF P2_Inv, P2_TypeOK
  <2> QED BY <1>1, <1>2, <1>3, <2>1, <2>2 DEF P2_Inv, P2_Sums, P2_Sems
<1>8. P2_Gates'
  <2>1. /\ "tell" \notin P2_Before1 /\ "done" \notin P2_Before1
        /\ "tell" \notin P2_Before2 /\ "done" \notin P2_Before2
        /\ "tell" \in P2_Waited1 /\ "done" \in P2_Waited1
        /\ "tell" \in P2_Waited2 /\ "done" \in P2_Waited2
        /\ "tell" \notin {"open1", "open2"} /\ "done" \notin {"open1", "open2"}
    BY DEF P2_Before1, P2_Before2, P2_Waited1, P2_Waited2
  <2>2. /\ p2_sems["turnstile1"].value \in Int /\ p2_sems["turnstile2"].value \in Int
        /\ p2_sems'["turnstile1"] = p2_sems["turnstile1"]
        /\ p2_sems'["turnstile2"] = p2_sems["turnstile2"]
    BY <1>3 DEF P2_Inv, SemsOK, SemOK, P2_Sems
  <2> QED BY <1>1, <1>2, <2>1, <2>2, P2_GatesKept
<1> QED BY <1>1, <1>3, <1>5, <1>6, <1>7, <1>8 DEF P2_Inv

-----------------------------------------------------------------------------
\* Main.

\* A worker to take as the one that does not move.
LEMMA P2_Nobody ==
    ASSUME \A u \in P2_Workers : p2_pc'[u] = p2_pc[u]
    PROVE  1 \in P2_Workers /\ P2_Move(1, p2_pc[1], p2_pc[1]) /\ \A L : P2_Count(L)' = P2_Count(L)
<1>1. 1 \in P2_Workers
  BY P2_Sets DEF P2_Workers
<1>2. P2_Move(1, p2_pc[1], p2_pc[1])
  BY <1>1 DEF P2_Move
<1>3. ASSUME NEW L PROVE P2_Count(L)' = P2_Count(L)
  <2>1. {t \in P2_Workers : p2_pc'[t] \in L} = {t \in P2_Workers : p2_pc[t] \in L}
    OBVIOUS
  <2> QED BY <2>1 DEF P2_Count, CountIn
<1> QED BY <1>1, <1>2, <1>3

\* No worker moves and no turnstile does.
LEMMA P2_GatesSame ==
    ASSUME P2_Inv, \A u \in P2_Workers : p2_pc'[u] = p2_pc[u] /\ p2_i'[u] = p2_i[u],
           p2_sems'["turnstile1"].value = p2_sems["turnstile1"].value,
           p2_sems'["turnstile2"].value = p2_sems["turnstile2"].value
    PROVE  P2_Gates'
<1>1. \A L : P2_Count(L)' = P2_Count(L)
  BY P2_Nobody
<1>2. ASSUME NEW turnstile, NEW before, NEW open, NEW waited,
             P2_Gate(turnstile, before, open, waited),
             p2_sems'[turnstile].value = p2_sems[turnstile].value
      PROVE  P2_Gate(turnstile, before, open, waited)'
  <2>1. P2_Count(waited)' = P2_Count(waited)
    BY <1>1
  <2>2. P2_Signals(turnstile, waited)' = P2_Signals(turnstile, waited)
    BY <1>2, <2>1 DEF P2_Signals
  <2> QED BY <1>2, <2>2 DEF P2_Gate
<1>3. P2_Gate("turnstile1", P2_Before1, "open1", P2_Waited1)'
  BY <1>2 DEF P2_Inv, P2_Gates
<1>4. P2_Gate("turnstile2", P2_Before2, "open2", P2_Waited2)'
  BY <1>2 DEF P2_Inv, P2_Gates
<1> QED BY <1>3, <1>4 DEF P2_Gates

LEMMA P2_OpenStep ==
    ASSUME P2_Inv, errorFlag = 0, p2_open
    PROVE  P2_Inv' /\ errorFlag' = 0
<1>1. /\ p2_pc[P2_Main] = "open"
      /\ p2_pc' = [p2_pc EXCEPT ![P2_Main] = "create"]
      /\ p2_sems' = [mutex |-> sem_open(1), turnstile1 |-> sem_open(0),
                     turnstile2 |-> sem_open(0), finished |-> sem_open(0)]
      /\ p2_i' = p2_i /\ UNCHANGED <<p2_reg, p2_arrived, p2_slots, errorFlag>>
      /\ p2_pc \in [P2_Threads -> P2_Positions]
  BY DEF p2_open, p2_goes, p2_memory, P2_Inv, P2_TypeOK
<1>2. /\ p2_pc'[P2_Main] = "create" /\ \A u \in P2_Workers : p2_pc'[u] = p2_pc[u]
      /\ p2_pc' \in [P2_Threads -> P2_Positions]
  BY <1>1, P2_Sets DEF P2_Positions
<1>3. /\ \A u \in P2_Workers : p2_pc[u] = "unborn" /\ u > p2_i[P2_Main]
      /\ p2_i[P2_Main] = 0
  BY <1>1 DEF P2_Inv, P2_Places, P2_Workers
<1>4. /\ DOMAIN p2_sems' = P2_Sems
      /\ p2_sems' = [s \in P2_Sems |-> p2_sems'[s]]
      /\ p2_sems'["mutex"] = sem_open(1)
      /\ p2_sems'["turnstile1"] = sem_open(0)
      /\ p2_sems'["turnstile2"] = sem_open(0)
      /\ p2_sems'["finished"] = sem_open(0)
  BY <1>1 DEF P2_Sems
<1>5. SemsOK(p2_sems', P2_Sems, P2_Threads, P2_At, p2_pc')
  <2>1. \A s \in P2_Sems : \E n \in Nat : p2_sems'[s] = sem_open(n)
    BY <1>4 DEF P2_Sems
  <2> QED BY <1>4, <2>1, SemsOpened
<1>6. \A L : "unborn" \notin L => P2_Count(L) = 0
  BY <1>3, P2_Sets, CountBounds DEF P2_Count
<1>7. 1 \in P2_Workers /\ P2_Move(1, p2_pc[1], p2_pc[1]) /\ \A L : P2_Count(L)' = P2_Count(L)
  BY <1>2, P2_Nobody
<1>8. P2_TypeOK'
  BY <1>1, <1>2, <1>5 DEF P2_Inv, P2_TypeOK, SemsOK
<1>9. P2_Places'
  BY <1>1, <1>2, <1>3 DEF P2_Inv, P2_Places
<1>10. P2_Sums'
  <2>1. /\ P2_Count(P2_Inside)' = 0
        /\ P2_Count(P2_Arrived)' = P2_Count(P2_Arrived)
        /\ P2_Count({"done"})' = 0
    BY <1>6, <1>7 DEF P2_Inside
  <2> QED BY <1>1, <1>2, <1>3, <1>4, <2>1 DEF P2_Inv, P2_Sums, sem_open
<1>11. P2_Gates'
  <2>1. /\ p2_pc[1] \in P2_Before1 /\ p2_pc[1] \in P2_Before2
        /\ p2_pc[1] \notin {"open1", "open2"}
    BY <1>3, <1>7 DEF P2_Before1, P2_Before2
  <2>2. P2_Count(P2_Waited1) = 0 /\ P2_Count(P2_Waited2) = 0
    BY <1>6 DEF P2_Waited1, P2_Waited2
  <2>3. p2_sems["turnstile1"].value \in Int /\ p2_sems["turnstile2"].value \in Int
    BY DEF P2_Inv, SemsOK, SemOK, P2_Sems
  <2>4. p2_sems["turnstile1"].value = 0 /\ p2_sems["turnstile2"].value = 0
    BY <1>7, <2>1, <2>2, <2>3 DEF P2_Inv, P2_Gates, P2_Gate, P2_Signals
  <2>5. p2_sems'["turnstile1"].value = 0 /\ p2_sems'["turnstile2"].value = 0
    BY <1>4 DEF sem_open
  <2> QED BY <1>1, <1>7, <2>1, <2>4, <2>5, P2_GatesKept
<1> QED BY <1>1, <1>5, <1>8, <1>9, <1>10, <1>11 DEF P2_Inv

LEMMA P2_CreateStep ==
    ASSUME P2_Inv, errorFlag = 0, p2_create
    PROVE  P2_Inv' /\ errorFlag' = 0
<1> DEFINE n == p2_i[P2_Main] + 1
<1> DEFINE to == p2_round(P2_Main, "create", "await")
<1>1. /\ p2_pc[P2_Main] = "create"
      /\ p2_pc' = [p2_pc EXCEPT ![P2_Main] = to, ![n] = "slot"]
      /\ p2_i' = [p2_i EXCEPT ![P2_Main] = IF @ + 1 < P2_NUM_THREADS THEN @ + 1 ELSE 0]
      /\ p2_sems' = p2_sems /\ UNCHANGED <<p2_reg, p2_arrived, p2_slots, errorFlag>>
      /\ p2_pc \in [P2_Threads -> P2_Positions]
      /\ p2_i \in [P2_Threads -> 0..(P2_NUM_THREADS - 1)]
  BY DEF p2_create, p2_next, p2_memory, P2_Inv, P2_TypeOK
<1>2. P2_NUM_THREADS \in Nat \ {0} /\ p2_i[P2_Main] \in 0..(P2_NUM_THREADS - 1)
  BY <1>1, P2_Sets
<1>3. n \in P2_Workers /\ n \in P2_Threads /\ n # P2_Main
  BY <1>2 DEF P2_Workers, P2_Threads, P2_Main
<1>4. /\ n < P2_NUM_THREADS => to = "create" /\ p2_i'[P2_Main] = n
      /\ ~(n < P2_NUM_THREADS) => to = "await" /\ n = P2_NUM_THREADS /\ p2_i'[P2_Main] = 0
      /\ \A u \in P2_Workers : p2_i'[u] = p2_i[u]
      /\ p2_i' \in [P2_Threads -> 0..(P2_NUM_THREADS - 1)]
      /\ to \in P2_Positions /\ "slot" \in P2_Positions
  BY <1>1, <1>2, P2_Sets DEF P2_Positions, p2_round
<1>5. p2_pc[n] = "unborn" /\ \A u \in P2_Workers : p2_pc[u] = "unborn" <=> u >= n
  <2>1. \A u \in P2_Workers : u > p2_i[P2_Main] <=> u >= n
    BY <1>2 DEF P2_Workers
  <2>2. n >= n
    BY <1>2
  <2> QED BY <1>1, <1>3, <2>1, <2>2 DEF P2_Inv, P2_Places
<1> HIDE DEF n, to
<1>6. /\ p2_pc'[P2_Main] = to /\ p2_pc'[n] = "slot"
      /\ \A u \in P2_Workers \ {n} : p2_pc'[u] = p2_pc[u]
      /\ p2_pc' \in [P2_Threads -> P2_Positions]
  BY <1>1, <1>3, <1>4, P2_Sets
<1>7. P2_Move(n, "unborn", "slot")
  BY <1>3, <1>5, <1>6 DEF P2_Move
<1>8. SemsOK(p2_sems', P2_Sems, P2_Threads, P2_At, p2_pc')
  <2>1. ~IsBlocked(p2_sems, P2_Main) /\ ~IsBlocked(p2_sems, n)
    BY <1>1, <1>3, <1>5, P2_Free, P2_Sets
  <2>2. \A u \in P2_Threads : IsBlocked(p2_sems, u) => p2_pc'[u] = p2_pc[u]
    BY <1>6, <2>1, P2_Sets
  <2>3. SemsOK(p2_sems, P2_Sems, P2_Threads, P2_At, p2_pc) /\ p2_sems' = p2_sems
    BY <1>1 DEF P2_Inv
  <2> QED BY <2>2, <2>3, SemsSame
<1>9. \A L : P2_Count(L)' = P2_Count(L) - (IF "unborn" \in L THEN 1 ELSE 0)
                                       + (IF "slot" \in L THEN 1 ELSE 0)
  BY <1>3, <1>7, P2_CountMoves
<1>10. P2_TypeOK'
  BY <1>1, <1>4, <1>6 DEF P2_Inv, P2_TypeOK
<1>11. P2_Places'
  <2>1. \A u \in P2_Workers : /\ p2_pc'[u] = "unborn" <=> to = "create" /\ u > n
                              /\ p2_pc[u] = "unborn" \/ u = n \/ p2_pc'[u] = p2_pc[u]
                              /\ ~(u >= n) => u # n /\ p2_pc[u] # "unborn"
                              /\ p2_pc'[u] # "done" \/ p2_pc[u] = "done"
    <3>1. ASSUME NEW u \in P2_Workers PROVE u >= n <=> u = n \/ u > n
      BY <1>2, <1>3 DEF P2_Workers
    <3>2. ASSUME NEW u \in P2_Workers PROVE u > n => n < P2_NUM_THREADS
      BY <1>2, <1>3 DEF P2_Workers
    <3>3. ~(n > n) /\ n >= n
      BY <1>3 DEF P2_Workers
    <3> QED BY <1>3, <1>4, <1>5, <1>6, <3>1, <3>2, <3>3
  <2>2. to \in {"create", "await"} /\ to # "open" /\ to # "returned"
    BY <1>4
  <2>3. to = "create" => p2_i'[P2_Main] = n
    BY <1>4
  <2>4. ASSUME NEW u \in P2_Workers
        PROVE  /\ p2_pc'[u] \in P2_Before2 \union P2_Waited1
               /\ p2_pc'[u] \notin {"open1", "verify", "open2"} => p2_i'[u] = 0
               /\ p2_pc'[u] \in {"store1", "store2"} => p2_reg'[u] = p2_arrived'
               /\ p2_pc'[u] \notin {"unborn", "slot"} => p2_slots'[u] = u
    BY ZenonT(40), <1>1, <1>3, <1>4, <1>5, <1>6 DEF P2_Inv, P2_Places, P2_Before1, P2_Before2
  <2> QED BY <1>6, <2>1, <2>2, <2>3, <2>4 DEF P2_Places
<1>12. P2_Sums'
  <2>1. /\ P2_Count(P2_Inside)' = P2_Count(P2_Inside)
        /\ P2_Count(P2_Arrived)' = P2_Count(P2_Arrived)
        /\ P2_Count({"done"})' = P2_Count({"done"})
    BY <1>9, P2_CountNat DEF P2_Inside, P2_Arrived
  <2>2. to = "create" \/ (to = "await" /\ p2_i'[P2_Main] = 0)
    BY <1>4
  <2> QED BY <1>1, <1>6, <2>1, <2>2 DEF P2_Inv, P2_Sums
<1>13. P2_Gates'
  <2>1. /\ "unborn" \in P2_Before1 /\ "slot" \in P2_Before1
        /\ "unborn" \in P2_Before2 /\ "slot" \in P2_Before2
        /\ "unborn" \notin P2_Waited1 /\ "slot" \notin P2_Waited1
        /\ "unborn" \notin P2_Waited2 /\ "slot" \notin P2_Waited2
        /\ "unborn" \notin {"open1", "open2"} /\ "slot" \notin {"open1", "open2"}
    BY DEF P2_Before1, P2_Before2, P2_Waited1, P2_Waited2
  <2>2. /\ p2_sems["turnstile1"].value \in Int /\ p2_sems["turnstile2"].value \in Int
        /\ p2_sems' = p2_sems /\ \A u \in P2_Workers \ {n} : p2_i'[u] = p2_i[u]
    BY <1>1, <1>4 DEF P2_Inv, SemsOK, SemOK, P2_Sems
  <2> QED BY <1>3, <1>7, <2>1, <2>2, P2_GatesKept
<1> QED BY <1>1, <1>8, <1>10, <1>11, <1>12, <1>13 DEF P2_Inv

LEMMA P2_AwaitStep ==
    ASSUME P2_Inv, errorFlag = 0, p2_await
    PROVE  P2_Inv' /\ errorFlag' = 0
<1> DEFINE to == p2_round(P2_Main, "await", "close")
<1>1. /\ p2_pc[P2_Main] = "await" /\ ~IsBlocked(p2_sems, P2_Main)
      /\ p2_pc' = [p2_pc EXCEPT ![P2_Main] = to]
      /\ p2_sems' = sem_wait(p2_sems, "finished", P2_Main)
      /\ p2_i' = [p2_i EXCEPT ![P2_Main] = IF @ + 1 < P2_NUM_THREADS THEN @ + 1 ELSE 0]
      /\ UNCHANGED <<p2_reg, p2_arrived, p2_slots, errorFlag>>
      /\ p2_pc \in [P2_Threads -> P2_Positions]
      /\ p2_i \in [P2_Threads -> 0..(P2_NUM_THREADS - 1)]
  BY DEF p2_await, p2_wait, p2_goes, p2_next, p2_memory, P2_Inv, P2_TypeOK
<1>2. P2_NUM_THREADS \in Nat \ {0} /\ p2_i[P2_Main] \in 0..(P2_NUM_THREADS - 1)
  BY <1>1, P2_Sets
<1>3. /\ p2_i[P2_Main] + 1 < P2_NUM_THREADS =>
           to = "await" /\ p2_i'[P2_Main] = p2_i[P2_Main] + 1
      /\ ~(p2_i[P2_Main] + 1 < P2_NUM_THREADS) =>
           to = "close" /\ p2_i[P2_Main] + 1 = P2_NUM_THREADS /\ p2_i'[P2_Main] = 0
      /\ \A u \in P2_Workers : p2_i'[u] = p2_i[u]
      /\ p2_i' \in [P2_Threads -> 0..(P2_NUM_THREADS - 1)]
      /\ to \in P2_Positions /\ to \in {"await", "close"}
  BY <1>1, <1>2, P2_Sets DEF P2_Positions, p2_round
<1> HIDE DEF to
<1>4. /\ p2_pc'[P2_Main] = to /\ \A u \in P2_Workers : p2_pc'[u] = p2_pc[u]
      /\ \A u \in P2_Threads \ {P2_Main} : p2_pc'[u] = p2_pc[u]
      /\ p2_pc' \in [P2_Threads -> P2_Positions]
  BY <1>1, <1>3, P2_Sets
<1>5. /\ SemsOK(p2_sems', P2_Sems, P2_Threads, P2_At, p2_pc')
      /\ p2_sems'["finished"].value = p2_sems["finished"].value - 1
      /\ \A r \in P2_Sems \ {"finished"} : p2_sems'[r] = p2_sems[r]
  <2>1. /\ SemsOK(p2_sems, P2_Sems, P2_Threads, P2_At, p2_pc)
        /\ <<P2_Main, p2_pc'[P2_Main], "finished">> \in P2_At
        /\ "finished" \in P2_Sems /\ P2_Main \in P2_Threads
    BY <1>3, <1>4, P2_Sets DEF P2_Inv, P2_At, P2_Sems
  <2>2. ~IsBlocked(p2_sems, P2_Main) /\ p2_sems' = sem_wait(p2_sems, "finished", P2_Main)
    BY <1>1
  <2> QED BY <1>4, <2>1, <2>2, SemsWait
<1>6. 1 \in P2_Workers /\ P2_Move(1, p2_pc[1], p2_pc[1]) /\ \A L : P2_Count(L)' = P2_Count(L)
  BY <1>4, P2_Nobody
<1>7. P2_TypeOK'
  BY <1>1, <1>3, <1>4, <1>5 DEF P2_Inv, P2_TypeOK, SemsOK
<1>8. P2_Places'
  BY <1>1, <1>3, <1>4 DEF P2_Inv, P2_Places
<1>9. P2_Sums'
  <2>1. P2_Count({"done"}) \in Nat /\ p2_sems["finished"].value = P2_Count({"done"}) - p2_i[P2_Main]
    BY <1>1, P2_CountNat DEF P2_Inv, P2_Sums
  <2>2. p2_sems'["finished"].value =
           P2_Count({"done"})' - IF to = "await" THEN p2_i'[P2_Main] ELSE P2_NUM_THREADS
    BY <1>2, <1>3, <1>5, <1>6, <2>1
  <2> QED BY <1>1, <1>3, <1>4, <1>5, <1>6, <2>2 DEF P2_Inv, P2_Sums, P2_Sems
<1>10. P2_Gates'
  <2>1. /\ p2_sems'["turnstile1"] = p2_sems["turnstile1"]
        /\ p2_sems'["turnstile2"] = p2_sems["turnstile2"]
    BY <1>5 DEF P2_Sems
  <2> QED BY <1>3, <1>4, <2>1, P2_GatesSame
<1> QED BY <1>1, <1>5, <1>7, <1>8, <1>9, <1>10 DEF P2_Inv

\* When main has waited for all of them, all workers are done.
LEMMA P2_AllDone ==
    ASSUME P2_Inv, \/ p2_pc[P2_Main] = "close" /\ ~IsBlocked(p2_sems, P2_Main)
                   \/ p2_pc[P2_Main] = "returned"
    PROVE  \A u \in P2_Workers : p2_pc[u] = "done"
<1>1. CASE p2_pc[P2_Main] = "returned"
  BY <1>1 DEF P2_Inv, P2_Places
<1>2. CASE p2_pc[P2_Main] = "close" /\ ~IsBlocked(p2_sems, P2_Main)
  <2>1. SemsOK(p2_sems, P2_Sems, P2_Threads, P2_At, p2_pc) /\ "finished" \in P2_Sems
    BY DEF P2_Inv, P2_Sems
  <2>2. \A t \in P2_Threads : t \notin Range(p2_sems["finished"].blocked)
    <3>1. \A t \in P2_Workers : <<t, p2_pc[t], "finished">> \notin P2_At
      BY P2_Sets DEF P2_At
    <3>2. \A t \in P2_Workers : t \notin Range(p2_sems["finished"].blocked)
      BY <2>1, <3>1 DEF SemsOK
    <3>3. P2_Main \notin Range(p2_sems["finished"].blocked)
      BY <1>2, <2>1 DEF SemsOK, IsBlocked
    <3> QED BY <3>2, <3>3, P2_Sets
  <2>3. p2_sems["finished"].value \in Int /\ p2_sems["finished"].value >= 0
    BY <2>1, <2>2, NobodyHeld
  <2>4. p2_sems["finished"].value = P2_Count({"done"}) - P2_NUM_THREADS
    BY <1>2 DEF P2_Inv, P2_Sums
  <2>5. P2_Count({"done"}) = P2_NUM_THREADS
    BY <2>3, <2>4, P2_CountNat, P2_Sets
  <2>6. \A u \in P2_Workers : p2_pc[u] \in {"done"}
    BY <2>5, P2_Sets, CountBounds DEF P2_Count
  <2> QED BY <2>6
<1> QED BY <1>1, <1>2

LEMMA P2_CloseStep ==
    ASSUME P2_Inv, errorFlag = 0, p2_close
    PROVE  P2_Inv' /\ errorFlag' = 0
<1>1. /\ p2_pc[P2_Main] = "close" /\ ~IsBlocked(p2_sems, P2_Main)
      /\ p2_pc' = [p2_pc EXCEPT ![P2_Main] = "returned"]
      /\ p2_sems' = sem_close(p2_sems)
      /\ p2_i' = p2_i /\ UNCHANGED <<p2_reg, p2_arrived, p2_slots, errorFlag>>
      /\ p2_pc \in [P2_Threads -> P2_Positions]
      /\ SemsOK(p2_sems, P2_Sems, P2_Threads, P2_At, p2_pc)
  BY DEF p2_close, p2_goes, p2_memory, P2_Inv, P2_TypeOK
<1>2. /\ p2_pc'[P2_Main] = "returned" /\ \A u \in P2_Workers : p2_pc'[u] = p2_pc[u]
      /\ p2_pc' \in [P2_Threads -> P2_Positions]
  BY <1>1, P2_Sets DEF P2_Positions
<1>3. \A u \in P2_Workers : p2_pc[u] = "done"
  BY <1>1, P2_AllDone
<1>4. \A u \in P2_Threads : ~IsBlocked(p2_sems, u)
  <2>1. \A u \in P2_Workers : ~IsBlocked(p2_sems, u)
    BY <1>3, P2_Free, P2_Sets
  <2> QED BY <1>1, <2>1, P2_Sets
<1>5. p2_sems' = p2_sems
  BY <1>1, <1>4, SemsClosed
<1>6. SemsOK(p2_sems', P2_Sems, P2_Threads, P2_At, p2_pc')
  BY <1>1, <1>4, <1>5, SemsSame
<1>7. \A L : P2_Count(L)' = P2_Count(L)
  BY <1>2, P2_Nobody
<1>8. P2_TypeOK'
  BY <1>1, <1>2, <1>5 DEF P2_Inv, P2_TypeOK
<1>9. P2_Places'
  BY <1>1, <1>2, <1>3 DEF P2_Inv, P2_Places
<1>10. P2_Sums'
  BY <1>1, <1>2, <1>5, <1>7 DEF P2_Inv, P2_Sums
<1>11. P2_Gates'
  BY <1>1, <1>2, <1>5, P2_GatesSame
<1> QED BY <1>1, <1>6, <1>8, <1>9, <1>10, <1>11 DEF P2_Inv

-----------------------------------------------------------------------------
LEMMA P2_InvInit == P2_Init => P2_Inv
<1> SUFFICES ASSUME P2_Init PROVE P2_Inv
  OBVIOUS
<1>1. /\ p2_pc[P2_Main] = "open" /\ \A u \in P2_Workers : p2_pc[u] = "unborn"
      /\ p2_pc \in [P2_Threads -> P2_Positions]
  BY P2_Sets DEF P2_Init, P2_Positions
<1>2. /\ p2_i = [t \in P2_Threads |-> 0] /\ \A t \in P2_Threads : p2_i[t] = 0
      /\ p2_reg \in [P2_Threads -> Nat] /\ p2_arrived = 0 /\ p2_slots \in [P2_Workers -> Nat]
      /\ p2_i \in [P2_Threads -> 0..(P2_NUM_THREADS - 1)]
  BY P2_Sets DEF P2_Init
<1>3. /\ DOMAIN p2_sems = P2_Sems /\ p2_sems = [s \in P2_Sems |-> p2_sems[s]]
      /\ \A s \in P2_Sems : p2_sems[s] = sem_open(0)
      /\ \A s \in P2_Sems : p2_sems[s].value = 0
  BY DEF P2_Init, sem_open
<1>4. SemsOK(p2_sems, P2_Sems, P2_Threads, P2_At, p2_pc)
  BY <1>3, SemsOpened
<1>5. \A L : "unborn" \notin L => P2_Count(L) = 0
  BY <1>1, P2_Sets, CountBounds DEF P2_Count
<1>6. P2_TypeOK
  BY <1>1, <1>2, <1>4 DEF P2_TypeOK, SemsOK
<1>7. P2_Places
  BY <1>1, <1>2, P2_Sets DEF P2_Places, P2_Before1, P2_Before2
<1>8. P2_Sums
  <2>1. /\ P2_Count(P2_Inside) = 0 /\ P2_Count(P2_Arrived) = 0 /\ P2_Count({"done"}) = 0
    BY <1>5 DEF P2_Inside, P2_Arrived
  <2> QED BY <1>1, <1>2, <1>3, <2>1 DEF P2_Sums, P2_Sems
<1>9. P2_Gates
  <2>1. P2_Signals("turnstile1", P2_Waited1) = 0 /\ P2_Signals("turnstile2", P2_Waited2) = 0
    BY <1>3, <1>5 DEF P2_Signals, P2_Waited1, P2_Waited2, P2_Sems
  <2>2. 1 \in P2_Workers /\ "unborn" \in P2_Before1 /\ "unborn" \in P2_Before2
    BY P2_Sets DEF P2_Workers, P2_Before1, P2_Before2
  <2> QED BY <1>1, <2>1, <2>2 DEF P2_Gates, P2_Gate
<1> QED BY <1>4, <1>6, <1>7, <1>8, <1>9 DEF P2_Inv

LEMMA P2_InvNext ==
    ASSUME P2_Inv, errorFlag = 0, P2_Next
    PROVE  P2_Inv' /\ errorFlag' = 0
<1>1. CASE runPhase2
  BY <1>1, P2_OpenStep, P2_CreateStep, P2_AwaitStep, P2_CloseStep DEF runPhase2
<1>2. ASSUME NEW id \in P2_Workers, p2_worker(id)
      PROVE  P2_Inv' /\ errorFlag' = 0
  <2>1. CASE p2_barrierPhase1(id)
    BY <2>1, P2_LockStep, P2_UnlockStep, P2_TurnstileStep, P2_LoadStep, P2_StoreStep,
       P2_TestStep, P2_OpenForAllStep
       DEF p2_barrierPhase1
  <2>2. CASE p2_barrierPhase2(id)
    BY <2>2, P2_LockStep, P2_UnlockStep, P2_TurnstileStep, P2_LoadStep, P2_StoreStep,
       P2_TestStep, P2_OpenForAllStep
       DEF p2_barrierPhase2
  <2> QED BY <1>2, <2>1, <2>2, P2_SlotStep, P2_VerifyStep, P2_TellStep DEF p2_worker
<1> QED BY <1>1, <1>2 DEF P2_Next

LEMMA P2_InvUnchanged == P2_Inv /\ UNCHANGED p2_vars => P2_Inv'
<1> SUFFICES ASSUME P2_Inv, UNCHANGED p2_vars PROVE P2_Inv'
  OBVIOUS
<1>1. p2_pc' = p2_pc /\ p2_i' = p2_i /\ p2_reg' = p2_reg /\ p2_sems' = p2_sems
      /\ p2_arrived' = p2_arrived /\ p2_slots' = p2_slots
  BY DEF p2_vars
<1> QED BY <1>1 DEF P2_Inv, P2_TypeOK, P2_Places, P2_Sums, P2_Gates, P2_Gate, P2_Signals, P2_Count

LEMMA P2_InvSafe == P2_Inv => P2_TypeOK /\ P2_NothingIsUsedAfterClose /\ BarrierSeparates
<1> SUFFICES ASSUME P2_Inv PROVE P2_NothingIsUsedAfterClose /\ BarrierSeparates
  BY DEF P2_Inv
<1>1. P2_NothingIsUsedAfterClose
  BY P2_AllDone DEF P2_Inv, P2_Places, P2_NothingIsUsedAfterClose
<1>2. BarrierSeparates
  <2> SUFFICES ASSUME NEW through \in P2_Workers, NEW other \in P2_Workers,
                      p2_pc[through] \in {"tell", "done"}, ~IsBlocked(p2_sems, through)
               PROVE  p2_pc[other] \notin P2_Before2
    BY DEF BarrierSeparates, P2_Before1, P2_Before2
  <2>1. p2_pc[through] \in P2_Waited2
    BY DEF P2_Waited2
  <2> QED BY <2>1, P2_Through
<1> QED BY <1>1, <1>2

-----------------------------------------------------------------------------
\* Phase 3: the pipeline.

\* Where a thread may be held, and at which semaphore.
P3_At ==
    {<<"generator", "waitTail", "p3a_spaces">>, <<"generator", "store", "p3a_mut">>,
     <<"transformer", "waitHead", "p3a_items">>, <<"transformer", "take", "p3a_mut">>,
     <<"transformer", "waitTail", "p3b_spaces">>, <<"transformer", "store", "p3b_mut">>,
     <<"accumulator", "waitHead", "p3b_items">>, <<"accumulator", "take", "p3b_mut">>,
     <<"main", "close", "p3_done">>}

\* Item k of a pipe.
P3_ItemA == [k \in Nat |-> IF k <= P3_COUNT THEN k ELSE -1]
P3_ItemB == [k \in Nat |-> IF k <= P3_COUNT THEN 3 * k ELSE -1]

\* What a stage has done at its two pipes, in items: the last one it took, the
\* ones it has moved the head behind, given the space of, waited for ...
P3_In(t, L) == IF p3_pc[t] \in L THEN 1 ELSE 0
P3_Taken(t) ==
    IF p3_val[t] = -1 THEN P3_COUNT + 1
    ELSE IF t = "accumulator" THEN p3_val[t] \div 3 ELSE p3_val[t]
P3_Left(t) == P3_Taken(t) - P3_In(t, {"moveHead"})
P3_Freed(t) == P3_Taken(t) - P3_In(t, {"moveHead", "freeHead", "signalSpace"})
P3_Claimed(t) == P3_Taken(t) + P3_In(t, {"waitHead", "take"})

\* ... and the ones that it has signalled, waited for a space for, stored, moved
\* the tail behind.
P3_Putting == {"waitTail", "store", "moveTail", "freeTail", "signalItem"}
P3_Unsent == {"moveHead", "freeHead", "signalSpace", "waitSpace"} \union P3_Putting
P3_Sent(t) == IF t = "generator" THEN p3_i ELSE P3_Taken(t) - P3_In(t, P3_Unsent)
P3_Reserved(t) == P3_Sent(t) + P3_In(t, P3_Putting)
P3_Stored(t) == P3_Sent(t) + P3_In(t, {"moveTail", "freeTail", "signalItem"})
P3_Moved(t) == P3_Sent(t) + P3_In(t, {"freeTail", "signalItem"})

P3_Pipe(pipe, spaces, items, putter, getter, item) ==
    /\ RingHolds(p3_ring[pipe], P3_PIPE_CAP, P3_Left(getter), P3_Moved(putter), P3_Stored(putter),
                 item)
    /\ p3_pc["main"] # "open" =>
          /\ p3_sems[spaces].value = P3_PIPE_CAP - P3_Reserved(putter) + P3_Freed(getter)
          /\ p3_sems[items].value = P3_Sent(putter) - P3_Claimed(getter)
P3_PipeA == P3_Pipe("p3a", "p3a_spaces", "p3a_items", "generator", "transformer", P3_ItemA)
P3_PipeB == P3_Pipe("p3b", "p3b_spaces", "p3b_items", "transformer", "accumulator", P3_ItemB)

P3_Main ==
    /\ p3_pc["main"] \in {"open", "createAccumulator", "createTransformer", "createGenerator",
                          "await", "close", "returned"}
    /\ p3_pc["main"] = "returned" => p3_pc["accumulator"] = "done"
    /\ p3_pc["main"] # "open" =>
          p3_sems["p3_done"].value =
              P3_In("accumulator", {"done"}) - P3_In("main", {"close", "returned"})

P3_Gen ==
    /\ p3_pc["generator"] \in {"unborn", "waitSpace", "done"} \union P3_Putting
    /\ p3_pc["generator"] = "unborn" <=>
           p3_pc["main"] \in {"open", "createAccumulator", "createTransformer", "createGenerator"}
    /\ p3_pc["generator"] = "unborn" => p3_i = 0
    /\ p3_pc["generator"] = "done" <=> p3_i = P3_COUNT + 1

P3_Trans ==
    /\ p3_pc["transformer"] \in {"unborn", "waitItem", "waitHead", "take", "done"} \union P3_Unsent
    /\ p3_pc["transformer"] = "unborn" <=>
           p3_pc["main"] \in {"open", "createAccumulator", "createTransformer"}
    /\ p3_val["transformer"] \in 0..P3_COUNT \union {-1}
    /\ p3_pc["transformer"] = "unborn" => p3_val["transformer"] = 0
    /\ p3_pc["transformer"] \in {"unborn", "waitItem", "waitHead", "take"} =>
           p3_val["transformer"] # -1
    /\ p3_pc["transformer"] = "done" => p3_val["transformer"] = -1
    /\ p3_pc["transformer"] \in P3_Unsent => p3_val["transformer"] # 0

\* The items that the accumulator has added.
P3_Added ==
    IF p3_val["accumulator"] = -1 THEN P3_COUNT
    ELSE P3_Taken("accumulator")
         - P3_In("accumulator", {"moveHead", "freeHead", "signalSpace", "add"})
P3_Acc ==
    /\ p3_pc["accumulator"] \in {"unborn", "waitItem", "waitHead", "take", "moveHead", "freeHead",
                                 "signalSpace", "add", "verify", "tell", "done"}
    /\ p3_pc["accumulator"] = "unborn" <=> p3_pc["main"] \in {"open", "createAccumulator"}
    /\ \/ p3_val["accumulator"] = -1
       \/ \E k \in 0..P3_COUNT : p3_val["accumulator"] = 3 * k
    /\ p3_pc["accumulator"] = "unborn" => p3_val["accumulator"] = 0
    /\ p3_pc["accumulator"] \in {"unborn", "waitItem", "waitHead", "take", "add"} =>
           p3_val["accumulator"] # -1
    /\ p3_pc["accumulator"] \in {"verify", "tell", "done"} => p3_val["accumulator"] = -1
    /\ p3_pc["accumulator"] \in {"moveHead", "freeHead", "signalSpace", "add"} =>
           p3_val["accumulator"] # 0
    /\ 2 * p3_sum = 3 * (P3_Added * (P3_Added + 1))

P3_Inv ==
    /\ P3_TypeOK
    /\ SemsOK(p3_sems, P3_Sems, P3_Threads, P3_At, p3_pc)
    /\ P3_Main /\ P3_Gen /\ P3_Trans /\ P3_Acc
    /\ P3_PipeA /\ P3_PipeB

-----------------------------------------------------------------------------
LEMMA P3_Numbers ==
    ASSUME P3_Inv
    PROVE  /\ P3_COUNT \in Nat \ {0} /\ P3_PIPE_CAP \in Nat \ {0}
           /\ p3_i \in 0..(P3_COUNT + 1)
           /\ P3_Taken("transformer") \in 0..(P3_COUNT + 1)
           /\ p3_val["transformer"] = P3_ItemA[P3_Taken("transformer")]
           /\ P3_Taken("accumulator") \in 0..(P3_COUNT + 1)
           /\ p3_val["accumulator"] = P3_ItemB[P3_Taken("accumulator")]
           /\ p3_val["transformer"] = -1 <=> P3_Taken("transformer") = P3_COUNT + 1
           /\ p3_val["accumulator"] = -1 <=> P3_Taken("accumulator") = P3_COUNT + 1
           /\ p3_pc["transformer"] \in P3_Unsent => P3_Taken("transformer") > 0
           /\ p3_pc["accumulator"] \in {"moveHead", "freeHead", "signalSpace", "add"} =>
                  P3_Taken("accumulator") > 0
<1>1. P3_COUNT \in Nat \ {0} /\ P3_PIPE_CAP \in Nat \ {0} /\ p3_i \in 0..(P3_COUNT + 1)
  BY P3_Assumption DEF P3_Inv, P3_TypeOK
<1>2. /\ P3_Taken("transformer") \in 0..(P3_COUNT + 1)
      /\ p3_val["transformer"] = P3_ItemA[P3_Taken("transformer")]
      /\ p3_val["transformer"] = -1 <=> P3_Taken("transformer") = P3_COUNT + 1
      /\ p3_pc["transformer"] \in P3_Unsent => P3_Taken("transformer") > 0
  BY <1>1 DEF P3_Inv, P3_Trans, P3_Taken, P3_ItemA
<1>3. /\ P3_Taken("accumulator") \in 0..(P3_COUNT + 1)
      /\ p3_val["accumulator"] = P3_ItemB[P3_Taken("accumulator")]
      /\ p3_val["accumulator"] = -1 <=> P3_Taken("accumulator") = P3_COUNT + 1
      /\ p3_pc["accumulator"] \in {"moveHead", "freeHead", "signalSpace", "add"} =>
             P3_Taken("accumulator") > 0
  <2>1. CASE p3_val["accumulator"] = -1
    BY <1>1, <2>1 DEF P3_Taken, P3_ItemB
  <2>2. CASE p3_val["accumulator"] # -1
    <3>1. PICK k \in 0..P3_COUNT : p3_val["accumulator"] = 3 * k
      BY <2>2 DEF P3_Inv, P3_Acc
    <3>2. P3_Taken("accumulator") = k
      BY <3>1, <1>1 DEF P3_Taken
    <3>3. p3_pc["accumulator"] \in {"moveHead", "freeHead", "signalSpace", "add"} => k # 0
      BY <3>1 DEF P3_Inv, P3_Acc
    <3> QED BY <1>1, <2>2, <3>1, <3>2, <3>3 DEF P3_ItemB
  <2> QED BY <2>1, <2>2
<1> QED BY <1>1, <1>2, <1>3

\* The state of a stage, and that it stays as it is.
P3_Idle(t) == p3_pc'[t] = p3_pc[t] /\ p3_val'[t] = p3_val[t] /\ (t = "generator" => p3_i' = p3_i)

LEMMA P3_Idles ==
    ASSUME NEW t, P3_Idle(t)
    PROVE  /\ P3_Taken(t)' = P3_Taken(t) /\ P3_Left(t)' = P3_Left(t)
           /\ P3_Freed(t)' = P3_Freed(t) /\ P3_Claimed(t)' = P3_Claimed(t)
           /\ P3_Sent(t)' = P3_Sent(t) /\ P3_Reserved(t)' = P3_Reserved(t)
           /\ P3_Stored(t)' = P3_Stored(t) /\ P3_Moved(t)' = P3_Moved(t)
BY DEF P3_Idle, P3_Taken, P3_Left, P3_Freed, P3_Claimed, P3_Sent, P3_Reserved, P3_Stored, P3_Moved,
       P3_In

\* Thread t goes from one position to another, and nobody else moves.
P3_Step(t, from, to) ==
    /\ p3_pc[t] = from /\ p3_pc'[t] = to /\ ~IsBlocked(p3_sems, t)
    /\ \A u \in P3_Threads \ {t} : p3_pc'[u] = p3_pc[u]
    /\ p3_pc' \in [P3_Threads -> P3_Positions]
    /\ \A u \in P3_Threads : IsBlocked(p3_sems, u) => p3_pc'[u] = p3_pc[u]

LEMMA P3_Goes ==
    ASSUME P3_Inv, NEW t \in P3_Threads, NEW from, NEW to \in P3_Positions, p3_goes(t, from, to)
    PROVE  P3_Step(t, from, to) /\ (t # "main" /\ from # "unborn" => p3_pc["main"] # "open")
<1>1. /\ p3_pc[t] = from /\ ~IsBlocked(p3_sems, t)
      /\ p3_pc' = [p3_pc EXCEPT ![t] = to]
      /\ p3_pc \in [P3_Threads -> P3_Positions]
  BY DEF p3_goes, P3_Inv, P3_TypeOK
<1>2. p3_pc'[t] = to /\ \A u \in P3_Threads \ {t} : p3_pc'[u] = p3_pc[u]
  BY <1>1
<1>3. t # "main" /\ from # "unborn" => p3_pc["main"] # "open"
  BY <1>1 DEF P3_Inv, P3_Gen, P3_Trans, P3_Acc, P3_Threads, P3_Stages
<1> QED BY <1>1, <1>2, <1>3 DEF P3_Step

\* Who is not in the queue of a pipe's semaphore finds what it waited for.
LEMMA P3_Queue ==
    ASSUME P3_Inv, p3_pc["main"] # "open"
    PROVE  /\ p3_pc["generator"] # "waitTail" =>
                  P3_Reserved("generator") <= P3_PIPE_CAP + P3_Freed("transformer")
           /\ p3_pc["transformer"] # "waitHead" =>
                  P3_Claimed("transformer") <= P3_Sent("generator")
           /\ p3_pc["transformer"] # "waitTail" =>
                  P3_Reserved("transformer") <= P3_PIPE_CAP + P3_Freed("accumulator")
           /\ p3_pc["accumulator"] # "waitHead" =>
                  P3_Claimed("accumulator") <= P3_Sent("transformer")
<1>1. SemsOK(p3_sems, P3_Sems, P3_Threads, P3_At, p3_pc)
  BY DEF P3_Inv
<1>2. ASSUME NEW s \in P3_Sems, \A t \in P3_Threads : <<t, p3_pc[t], s>> \notin P3_At
      PROVE  p3_sems[s].value \in Int /\ p3_sems[s].value >= 0
  <2>1. \A t \in P3_Threads : t \notin Range(p3_sems[s].blocked)
    BY <1>1, <1>2 DEF SemsOK
  <2> QED BY <1>1, <2>1, NobodyHeld
<1>3. /\ P3_COUNT \in Nat \ {0} /\ P3_PIPE_CAP \in Nat \ {0}
      /\ p3_i \in Int /\ P3_Taken("transformer") \in Int /\ P3_Taken("accumulator") \in Int
  BY P3_Numbers
<1>4. /\ P3_Reserved("generator") \in Int /\ P3_Freed("transformer") \in Int
      /\ P3_Claimed("transformer") \in Int /\ P3_Sent("generator") \in Int
      /\ P3_Reserved("transformer") \in Int /\ P3_Freed("accumulator") \in Int
      /\ P3_Claimed("accumulator") \in Int /\ P3_Sent("transformer") \in Int
  BY <1>3 DEF P3_Reserved, P3_Freed, P3_Claimed, P3_Sent, P3_In
<1>5. ASSUME p3_pc["generator"] # "waitTail"
      PROVE  P3_Reserved("generator") <= P3_PIPE_CAP + P3_Freed("transformer")
  <2>1. p3_sems["p3a_spaces"].value \in Int /\ p3_sems["p3a_spaces"].value >= 0
    BY <1>2, <1>5 DEF P3_At, P3_Sems
  <2>2. p3_sems["p3a_spaces"].value =
            P3_PIPE_CAP - P3_Reserved("generator") + P3_Freed("transformer")
    BY DEF P3_Inv, P3_PipeA, P3_Pipe
  <2> QED BY <1>3, <1>4, <2>1, <2>2
<1>6. ASSUME p3_pc["transformer"] # "waitHead"
      PROVE  P3_Claimed("transformer") <= P3_Sent("generator")
  <2>1. p3_sems["p3a_items"].value \in Int /\ p3_sems["p3a_items"].value >= 0
    BY <1>2, <1>6 DEF P3_At, P3_Sems
  <2>2. p3_sems["p3a_items"].value = P3_Sent("generator") - P3_Claimed("transformer")
    BY DEF P3_Inv, P3_PipeA, P3_Pipe
  <2> QED BY <1>3, <1>4, <2>1, <2>2
<1>7. ASSUME p3_pc["transformer"] # "waitTail"
      PROVE  P3_Reserved("transformer") <= P3_PIPE_CAP + P3_Freed("accumulator")
  <2>1. p3_sems["p3b_spaces"].value \in Int /\ p3_sems["p3b_spaces"].value >= 0
    BY <1>2, <1>7 DEF P3_At, P3_Sems
  <2>2. p3_sems["p3b_spaces"].value =
            P3_PIPE_CAP - P3_Reserved("transformer") + P3_Freed("accumulator")
    BY DEF P3_Inv, P3_PipeB, P3_Pipe
  <2> QED BY <1>3, <1>4, <2>1, <2>2
<1>8. ASSUME p3_pc["accumulator"] # "waitHead"
      PROVE  P3_Claimed("accumulator") <= P3_Sent("transformer")
  <2>1. p3_sems["p3b_items"].value \in Int /\ p3_sems["p3b_items"].value >= 0
    BY <1>2, <1>8 DEF P3_At, P3_Sems
  <2>2. p3_sems["p3b_items"].value = P3_Sent("transformer") - P3_Claimed("accumulator")
    BY DEF P3_Inv, P3_PipeB, P3_Pipe
  <2> QED BY <1>3, <1>4, <2>1, <2>2
<1> QED BY <1>5, <1>6, <1>7, <1>8

LEMMA P3_SumKept ==
    ASSUME P3_Inv, P3_Idle("accumulator"), p3_sum' = p3_sum
    PROVE  P3_Added' = P3_Added /\ 2 * p3_sum' = 3 * (P3_Added' * (P3_Added' + 1))
<1>1. P3_Added' = P3_Added
  BY P3_Idles DEF P3_Added, P3_Idle, P3_In
<1> QED BY <1>1 DEF P3_Inv, P3_Acc

\* The numbers are integers.
LEMMA P3_Ints ==
    ASSUME P3_Inv
    PROVE  /\ \A s \in P3_Sems : p3_sems[s].value \in Int
           /\ p3_i \in Int /\ P3_COUNT \in Int /\ P3_PIPE_CAP \in Int
           /\ \A t \in P3_Stages : P3_Taken(t) \in Int \/ t = "generator"
           /\ \A t \in P3_Stages : P3_Sent(t) \in Int /\ P3_Reserved(t) \in Int
           /\ \A t \in P3_Stages \ {"generator"} : P3_Claimed(t) \in Int /\ P3_Freed(t) \in Int
<1>1. \A s \in P3_Sems : p3_sems[s].value \in Int
  BY DEF P3_Inv, SemsOK, SemOK
<1>2. /\ p3_i \in Int /\ P3_COUNT \in Int /\ P3_PIPE_CAP \in Int
      /\ P3_Taken("transformer") \in Int /\ P3_Taken("accumulator") \in Int
  BY P3_Numbers
<1>3. \A t \in P3_Stages : P3_Taken(t) \in Int \/ t = "generator"
  BY <1>2 DEF P3_Stages
<1>4. \A t \in P3_Stages : P3_Sent(t) \in Int
  BY <1>2, <1>3 DEF P3_Sent, P3_In
<1>5. \A t \in P3_Stages : P3_Reserved(t) \in Int
  BY <1>4 DEF P3_Reserved, P3_In
<1>6. \A t \in P3_Stages \ {"generator"} : P3_Claimed(t) \in Int /\ P3_Freed(t) \in Int
  BY <1>3 DEF P3_Claimed, P3_Freed, P3_In
<1> QED BY <1>1, <1>2, <1>3, <1>4, <1>5, <1>6

\* A pipe whose ring nobody touches, and whose semaphores are moved as much as
\* its stages move.
LEMMA P3_PipeKept ==
    ASSUME P3_Inv, NEW pipe, NEW spaces \in P3_Sems, NEW items \in P3_Sems,
           NEW putter \in P3_Stages, NEW getter \in P3_Stages \ {"generator"}, NEW item,
           P3_Pipe(pipe, spaces, items, putter, getter, item),
           p3_pc["main"] # "open", p3_ring'[pipe] = p3_ring[pipe],
           P3_Left(getter)' = P3_Left(getter),
           P3_Moved(putter)' = P3_Moved(putter), P3_Stored(putter)' = P3_Stored(putter),
           NEW a \in Int, P3_Reserved(putter)' = P3_Reserved(putter) + a,
           NEW b \in Int, P3_Freed(getter)' = P3_Freed(getter) + b,
           NEW c \in Int, P3_Sent(putter)' = P3_Sent(putter) + c,
           NEW d \in Int, P3_Claimed(getter)' = P3_Claimed(getter) + d,
           p3_sems'[spaces].value = p3_sems[spaces].value - a + b,
           p3_sems'[items].value = p3_sems[items].value + c - d
    PROVE  P3_Pipe(pipe, spaces, items, putter, getter, item)'
<1>1. /\ p3_sems[spaces].value \in Int /\ p3_sems[items].value \in Int /\ P3_PIPE_CAP \in Int
      /\ P3_Sent(putter) \in Int /\ P3_Reserved(putter) \in Int
      /\ P3_Claimed(getter) \in Int /\ P3_Freed(getter) \in Int
  BY P3_Ints
<1>2. /\ p3_sems'[spaces].value = P3_PIPE_CAP - P3_Reserved(putter)' + P3_Freed(getter)'
      /\ p3_sems'[items].value = P3_Sent(putter)' - P3_Claimed(getter)'
  BY <1>1 DEF P3_Pipe
<1> QED BY <1>2 DEF P3_Pipe

\* A wait() in a stage: for a space, an item or a mutex.
LEMMA P3_WaitStep ==
    ASSUME P3_Inv, errorFlag = 0, NEW t \in P3_Stages, NEW s \in P3_Sems, NEW from, NEW to,
           p3_wait(t, from, s, to),
           \/ t = "generator" /\ from = "waitSpace" /\ s = "p3a_spaces" /\ to = "waitTail"
           \/ t = "generator" /\ from = "waitTail" /\ s = "p3a_mut" /\ to = "store"
           \/ t = "transformer" /\ from = "waitItem" /\ s = "p3a_items" /\ to = "waitHead"
           \/ t = "transformer" /\ from = "waitHead" /\ s = "p3a_mut" /\ to = "take"
           \/ t = "transformer" /\ from = "waitSpace" /\ s = "p3b_spaces" /\ to = "waitTail"
           \/ t = "transformer" /\ from = "waitTail" /\ s = "p3b_mut" /\ to = "store"
           \/ t = "accumulator" /\ from = "waitItem" /\ s = "p3b_items" /\ to = "waitHead"
           \/ t = "accumulator" /\ from = "waitHead" /\ s = "p3b_mut" /\ to = "take",
           UNCHANGED <<p3_locals, p3_ring, errorFlag>>
    PROVE  P3_Inv' /\ errorFlag' = 0
<1>1. /\ p3_goes(t, from, to) /\ p3_sems' = sem_wait(p3_sems, s, t)
      /\ UNCHANGED <<p3_i, p3_val, p3_sum, p3_ring, errorFlag>>
      /\ to \in P3_Positions /\ t \in P3_Threads /\ t # "main" /\ from # "unborn"
  BY DEF p3_wait, p3_locals, P3_Positions, P3_Stages, P3_Threads
<1>2. P3_Step(t, from, to) /\ p3_pc["main"] # "open"
  BY <1>1, P3_Goes
<1>3. /\ SemsOK(p3_sems', P3_Sems, P3_Threads, P3_At, p3_pc')
      /\ p3_sems'[s].value = p3_sems[s].value - 1
      /\ \A r \in P3_Sems \ {s} : p3_sems'[r] = p3_sems[r]
  <2>1. /\ SemsOK(p3_sems, P3_Sems, P3_Threads, P3_At, p3_pc)
        /\ <<t, p3_pc'[t], s>> \in P3_At
        /\ ~IsBlocked(p3_sems, t) /\ \A u \in P3_Threads \ {t} : p3_pc'[u] = p3_pc[u]
    BY <1>2 DEF P3_Inv, P3_At, P3_Step
  <2> QED BY <1>1, <2>1, SemsWait
<1>4. P3_TypeOK'
  BY <1>1, <1>2, <1>3 DEF P3_Inv, P3_TypeOK, P3_Step, SemsOK
<1>5. \A u \in P3_Stages \ {t} : P3_Idle(u)
  BY <1>1, <1>2 DEF P3_Idle, P3_Step, P3_Threads
<1>6. P3_Main' /\ P3_Gen' /\ P3_Trans'
  BY <1>1, <1>2, <1>3
     DEF P3_Inv, P3_Main, P3_Gen, P3_Trans, P3_Step, P3_Threads, P3_Stages, P3_In, P3_Unsent,
         P3_Putting, P3_Sems
<1>7. P3_Acc'
  <2>1. P3_Added' = P3_Added /\ p3_sum' = p3_sum
    BY <1>1, <1>2 DEF P3_Added, P3_Taken, P3_In, P3_Step, P3_Stages, P3_Threads
  <2> QED BY <1>1, <1>2, <2>1 DEF P3_Inv, P3_Acc, P3_Step, P3_Stages, P3_Threads
<1>8. /\ p3_sems["p3a_spaces"].value \in Int /\ p3_sems["p3a_items"].value \in Int
      /\ p3_sems["p3b_spaces"].value \in Int /\ p3_sems["p3b_items"].value \in Int
      /\ p3_i \in Int /\ P3_Taken("transformer") \in Int /\ P3_Taken("accumulator") \in Int
      /\ P3_PIPE_CAP \in Int
  <2>1. P3_Taken("transformer") \in Int /\ P3_Taken("accumulator") \in Int
    BY P3_Numbers
  <2> QED BY <2>1, P3_Ints DEF P3_Sems
<1>9. P3_PipeA'
  <2>1. /\ P3_Left("transformer")' = P3_Left("transformer")
        /\ P3_Moved("generator")' = P3_Moved("generator")
        /\ P3_Stored("generator")' = P3_Stored("generator")
        /\ P3_Reserved("generator")' = P3_Reserved("generator") + (IF s = "p3a_spaces" THEN 1 ELSE 0)
        /\ P3_Freed("transformer")' = P3_Freed("transformer") + 0
        /\ P3_Sent("generator")' = P3_Sent("generator") + 0
        /\ P3_Claimed("transformer")' = P3_Claimed("transformer") + (IF s = "p3a_items" THEN 1 ELSE 0)
    BY <1>1, <1>2, <1>8
       DEF P3_Left, P3_Moved, P3_Stored, P3_Reserved, P3_Freed, P3_Claimed, P3_Sent, P3_Taken,
           P3_In, P3_Step, P3_Stages, P3_Threads, P3_Unsent, P3_Putting
  <2>2. /\ p3_sems'["p3a_spaces"].value = p3_sems["p3a_spaces"].value - (IF s = "p3a_spaces" THEN 1 ELSE 0) + 0
        /\ p3_sems'["p3a_items"].value = p3_sems["p3a_items"].value + 0 - (IF s = "p3a_items" THEN 1 ELSE 0)
    BY <1>3, <1>8 DEF P3_Sems
  <2>3. P3_Pipe("p3a", "p3a_spaces", "p3a_items", "generator", "transformer", P3_ItemA)
        /\ p3_ring' = p3_ring
    BY <1>1 DEF P3_Inv, P3_PipeA
  <2>4. {"p3a_spaces", "p3a_items"} \subseteq P3_Sems /\ "generator" \in P3_Stages
        /\ "transformer" \in P3_Stages \ {"generator"}
    BY DEF P3_Sems, P3_Stages
  <2>5. (IF s = "p3a_spaces" THEN 1 ELSE 0) \in Int /\ 0 \in Int /\ 0 \in Int /\ (IF s = "p3a_items" THEN 1 ELSE 0) \in Int
    OBVIOUS
  <2>6. P3_Pipe("p3a", "p3a_spaces", "p3a_items", "generator", "transformer", P3_ItemA)'
    BY <1>2, <2>1, <2>2, <2>3, <2>4, <2>5, P3_PipeKept
  <2> QED BY <2>6 DEF P3_PipeA
<1>10. P3_PipeB'
  <2>1. /\ P3_Left("accumulator")' = P3_Left("accumulator")
        /\ P3_Moved("transformer")' = P3_Moved("transformer")
        /\ P3_Stored("transformer")' = P3_Stored("transformer")
        /\ P3_Reserved("transformer")' = P3_Reserved("transformer") + (IF s = "p3b_spaces" THEN 1 ELSE 0)
        /\ P3_Freed("accumulator")' = P3_Freed("accumulator") + 0
        /\ P3_Sent("transformer")' = P3_Sent("transformer") + 0
        /\ P3_Claimed("accumulator")' = P3_Claimed("accumulator") + (IF s = "p3b_items" THEN 1 ELSE 0)
    BY <1>1, <1>2, <1>8
       DEF P3_Left, P3_Moved, P3_Stored, P3_Reserved, P3_Freed, P3_Claimed, P3_Sent, P3_Taken,
           P3_In, P3_Step, P3_Stages, P3_Threads, P3_Unsent, P3_Putting
  <2>2. /\ p3_sems'["p3b_spaces"].value = p3_sems["p3b_spaces"].value - (IF s = "p3b_spaces" THEN 1 ELSE 0) + 0
        /\ p3_sems'["p3b_items"].value = p3_sems["p3b_items"].value + 0 - (IF s = "p3b_items" THEN 1 ELSE 0)
    BY <1>3, <1>8 DEF P3_Sems
  <2>3. P3_Pipe("p3b", "p3b_spaces", "p3b_items", "transformer", "accumulator", P3_ItemB)
        /\ p3_ring' = p3_ring
    BY <1>1 DEF P3_Inv, P3_PipeB
  <2>4. {"p3b_spaces", "p3b_items"} \subseteq P3_Sems /\ "transformer" \in P3_Stages
        /\ "accumulator" \in P3_Stages \ {"generator"}
    BY DEF P3_Sems, P3_Stages
  <2>5. (IF s = "p3b_spaces" THEN 1 ELSE 0) \in Int /\ 0 \in Int /\ 0 \in Int /\ (IF s = "p3b_items" THEN 1 ELSE 0) \in Int
    OBVIOUS
  <2>6. P3_Pipe("p3b", "p3b_spaces", "p3b_items", "transformer", "accumulator", P3_ItemB)'
    BY <1>2, <2>1, <2>2, <2>3, <2>4, <2>5, P3_PipeKept
  <2> QED BY <2>6 DEF P3_PipeB
<1> QED BY <1>1, <1>3, <1>4, <1>6, <1>7, <1>9, <1>10 DEF P3_Inv

\* A signal() in a stage.
LEMMA P3_SignalStep ==
    ASSUME P3_Inv, errorFlag = 0, NEW t \in P3_Stages, NEW s \in P3_Sems, NEW from, NEW to,
           p3_signal(t, from, s, to),
           \/ t = "generator" /\ from = "freeTail" /\ s = "p3a_mut" /\ to = "signalItem"
           \/ t = "generator" /\ from = "signalItem" /\ s = "p3a_items"
              /\ to = IF p3_i < P3_COUNT THEN "waitSpace" ELSE "done"
           \/ t = "transformer" /\ from = "freeHead" /\ s = "p3a_mut" /\ to = "signalSpace"
           \/ t = "transformer" /\ from = "signalSpace" /\ s = "p3a_spaces" /\ to = "waitSpace"
           \/ t = "transformer" /\ from = "freeTail" /\ s = "p3b_mut" /\ to = "signalItem"
           \/ t = "transformer" /\ from = "signalItem" /\ s = "p3b_items"
              /\ to = IF p3_val["transformer"] = -1 THEN "done" ELSE "waitItem"
           \/ t = "accumulator" /\ from = "freeHead" /\ s = "p3b_mut" /\ to = "signalSpace"
           \/ t = "accumulator" /\ from = "signalSpace" /\ s = "p3b_spaces"
              /\ to = IF p3_val["accumulator"] = -1 THEN "verify" ELSE "add"
           \/ t = "accumulator" /\ from = "tell" /\ s = "p3_done" /\ to = "done",
           p3_i' = IF s = "p3a_items" THEN p3_i + 1 ELSE p3_i,
           UNCHANGED <<p3_val, p3_sum, p3_ring, errorFlag>>
    PROVE  P3_Inv' /\ errorFlag' = 0
<1>1. /\ p3_goes(t, from, to) /\ p3_sems' = sem_signal(p3_sems, s)
      /\ UNCHANGED <<p3_val, p3_sum, p3_ring, errorFlag>>
      /\ p3_i' = IF s = "p3a_items" THEN p3_i + 1 ELSE p3_i
      /\ to \in P3_Positions /\ t \in P3_Threads /\ t # "main" /\ from # "unborn"
  BY DEF p3_signal, P3_Positions, P3_Stages, P3_Threads
<1>2. P3_Step(t, from, to) /\ p3_pc["main"] # "open"
  BY <1>1, P3_Goes
<1>3. /\ SemsOK(p3_sems', P3_Sems, P3_Threads, P3_At, p3_pc')
      /\ p3_sems'[s].value = p3_sems[s].value + 1
      /\ \A r \in P3_Sems \ {s} : p3_sems'[r] = p3_sems[r]
  <2>1. /\ SemsOK(p3_sems, P3_Sems, P3_Threads, P3_At, p3_pc)
        /\ \A u \in P3_Threads : IsBlocked(p3_sems, u) => p3_pc'[u] = p3_pc[u]
    BY <1>2 DEF P3_Inv, P3_Step
  <2> QED BY <1>1, <2>1, SemsSignal
<1>4. s = "p3a_items" => p3_i <= P3_COUNT
  BY <1>2, P3_Numbers DEF P3_Inv, P3_Gen, P3_Step
<1>5. P3_TypeOK'
  <2>1. p3_i' \in 0..(P3_COUNT + 1)
    BY <1>1, <1>4, P3_Numbers
  <2> QED BY <1>1, <1>2, <1>3, <2>1 DEF P3_Inv, P3_TypeOK, P3_Step, SemsOK
<1>6. P3_Main' /\ P3_Gen' /\ P3_Trans'
  BY <1>1, <1>2, <1>3, <1>4, P3_Numbers
     DEF P3_Inv, P3_Main, P3_Gen, P3_Trans, P3_Step, P3_Threads, P3_Stages, P3_In, P3_Unsent,
         P3_Putting, P3_Sems
<1>7. P3_Acc'
  <2>1. P3_Added' = P3_Added /\ p3_sum' = p3_sum
    BY <1>1, <1>2 DEF P3_Added, P3_Taken, P3_In, P3_Step, P3_Stages, P3_Threads
  <2> QED BY <1>1, <1>2, <2>1 DEF P3_Inv, P3_Acc, P3_Step, P3_Stages, P3_Threads
<1>8. /\ p3_sems["p3a_spaces"].value \in Int /\ p3_sems["p3a_items"].value \in Int
      /\ p3_sems["p3b_spaces"].value \in Int /\ p3_sems["p3b_items"].value \in Int
      /\ p3_i \in Int /\ P3_Taken("transformer") \in Int /\ P3_Taken("accumulator") \in Int
      /\ P3_PIPE_CAP \in Int
  <2>1. P3_Taken("transformer") \in Int /\ P3_Taken("accumulator") \in Int
    BY P3_Numbers
  <2> QED BY <2>1, P3_Ints DEF P3_Sems
<1>9. P3_PipeA'
  <2>1. /\ P3_Left("transformer")' = P3_Left("transformer")
        /\ P3_Moved("generator")' = P3_Moved("generator")
        /\ P3_Stored("generator")' = P3_Stored("generator")
        /\ P3_Reserved("generator")' = P3_Reserved("generator") + 0
        /\ P3_Freed("transformer")' = P3_Freed("transformer") + (IF s = "p3a_spaces" THEN 1 ELSE 0)
        /\ P3_Sent("generator")' = P3_Sent("generator") + (IF s = "p3a_items" THEN 1 ELSE 0)
        /\ P3_Claimed("transformer")' = P3_Claimed("transformer") + 0
    BY <1>1, <1>2, <1>8
       DEF P3_Left, P3_Moved, P3_Stored, P3_Reserved, P3_Freed, P3_Claimed, P3_Sent, P3_Taken,
           P3_In, P3_Step, P3_Stages, P3_Threads, P3_Unsent, P3_Putting
  <2>2. /\ p3_sems'["p3a_spaces"].value = p3_sems["p3a_spaces"].value - 0 + (IF s = "p3a_spaces" THEN 1 ELSE 0)
        /\ p3_sems'["p3a_items"].value = p3_sems["p3a_items"].value + (IF s = "p3a_items" THEN 1 ELSE 0) - 0
    BY <1>3, <1>8 DEF P3_Sems
  <2>3. P3_Pipe("p3a", "p3a_spaces", "p3a_items", "generator", "transformer", P3_ItemA)
        /\ p3_ring' = p3_ring
    BY <1>1 DEF P3_Inv, P3_PipeA
  <2>4. {"p3a_spaces", "p3a_items"} \subseteq P3_Sems /\ "generator" \in P3_Stages
        /\ "transformer" \in P3_Stages \ {"generator"}
    BY DEF P3_Sems, P3_Stages
  <2>5. 0 \in Int /\ (IF s = "p3a_spaces" THEN 1 ELSE 0) \in Int /\ (IF s = "p3a_items" THEN 1 ELSE 0) \in Int /\ 0 \in Int
    OBVIOUS
  <2>6. P3_Pipe("p3a", "p3a_spaces", "p3a_items", "generator", "transformer", P3_ItemA)'
    BY <1>2, <2>1, <2>2, <2>3, <2>4, <2>5, P3_PipeKept
  <2> QED BY <2>6 DEF P3_PipeA
<1>10. P3_PipeB'
  <2>1. /\ P3_Left("accumulator")' = P3_Left("accumulator")
        /\ P3_Moved("transformer")' = P3_Moved("transformer")
        /\ P3_Stored("transformer")' = P3_Stored("transformer")
        /\ P3_Reserved("transformer")' = P3_Reserved("transformer") + 0
        /\ P3_Freed("accumulator")' = P3_Freed("accumulator") + (IF s = "p3b_spaces" THEN 1 ELSE 0)
        /\ P3_Sent("transformer")' = P3_Sent("transformer") + (IF s = "p3b_items" THEN 1 ELSE 0)
        /\ P3_Claimed("accumulator")' = P3_Claimed("accumulator") + 0
    BY <1>1, <1>2, <1>8
       DEF P3_Left, P3_Moved, P3_Stored, P3_Reserved, P3_Freed, P3_Claimed, P3_Sent, P3_Taken,
           P3_In, P3_Step, P3_Stages, P3_Threads, P3_Unsent, P3_Putting
  <2>2. /\ p3_sems'["p3b_spaces"].value = p3_sems["p3b_spaces"].value - 0 + (IF s = "p3b_spaces" THEN 1 ELSE 0)
        /\ p3_sems'["p3b_items"].value = p3_sems["p3b_items"].value + (IF s = "p3b_items" THEN 1 ELSE 0) - 0
    BY <1>3, <1>8 DEF P3_Sems
  <2>3. P3_Pipe("p3b", "p3b_spaces", "p3b_items", "transformer", "accumulator", P3_ItemB)
        /\ p3_ring' = p3_ring
    BY <1>1 DEF P3_Inv, P3_PipeB
  <2>4. {"p3b_spaces", "p3b_items"} \subseteq P3_Sems /\ "transformer" \in P3_Stages
        /\ "accumulator" \in P3_Stages \ {"generator"}
    BY DEF P3_Sems, P3_Stages
  <2>5. 0 \in Int /\ (IF s = "p3b_spaces" THEN 1 ELSE 0) \in Int /\ (IF s = "p3b_items" THEN 1 ELSE 0) \in Int /\ 0 \in Int
    OBVIOUS
  <2>6. P3_Pipe("p3b", "p3b_spaces", "p3b_items", "transformer", "accumulator", P3_ItemB)'
    BY <1>2, <2>1, <2>2, <2>3, <2>4, <2>5, P3_PipeKept
  <2> QED BY <2>6 DEF P3_PipeB
<1> QED BY <1>1, <1>3, <1>5, <1>6, <1>7, <1>9, <1>10 DEF P3_Inv

\* The stages between an access to a ring and its semaphore: what is left to
\* show is that the ring holds the items that the stages then count.
LEMMA P3_RingStep ==
    ASSUME P3_Inv, errorFlag = 0, NEW t \in P3_Stages, NEW pipe \in P3_Pipes, NEW from, NEW to,
           p3_goes(t, from, to),
           \/ t = "generator" /\ pipe = "p3a" /\ from = "store" /\ to = "moveTail"
           \/ t = "generator" /\ pipe = "p3a" /\ from = "moveTail" /\ to = "freeTail"
           \/ t = "transformer" /\ pipe = "p3b" /\ from = "store" /\ to = "moveTail"
           \/ t = "transformer" /\ pipe = "p3b" /\ from = "moveTail" /\ to = "freeTail"
           \/ t = "transformer" /\ pipe = "p3a" /\ from = "moveHead" /\ to = "freeHead"
           \/ t = "accumulator" /\ pipe = "p3b" /\ from = "moveHead" /\ to = "freeHead",
           UNCHANGED <<p3_locals, p3_sems, errorFlag>>,
           p3_ring' = [p \in P3_Pipes |-> p3_ring'[p]],
           \A other \in P3_Pipes \ {pipe} : p3_ring'[other] = p3_ring[other],
           pipe = "p3a" =>
               RingHolds(p3_ring["p3a"], P3_PIPE_CAP, P3_Left("transformer"), P3_Moved("generator"),
                         P3_Stored("generator"), P3_ItemA)',
           pipe = "p3b" =>
               RingHolds(p3_ring["p3b"], P3_PIPE_CAP, P3_Left("accumulator"),
                         P3_Moved("transformer"), P3_Stored("transformer"), P3_ItemB)'
    PROVE  P3_Inv' /\ errorFlag' = 0
<1>1. /\ UNCHANGED <<p3_i, p3_val, p3_sum, p3_sems, errorFlag>>
      /\ to \in P3_Positions /\ t \in P3_Threads /\ t # "main" /\ from # "unborn"
  BY DEF p3_locals, P3_Positions, P3_Stages, P3_Threads
<1>2. P3_Step(t, from, to) /\ p3_pc["main"] # "open"
  BY <1>1, P3_Goes
<1>3. SemsOK(p3_sems', P3_Sems, P3_Threads, P3_At, p3_pc')
  <2>1. /\ SemsOK(p3_sems, P3_Sems, P3_Threads, P3_At, p3_pc) /\ p3_sems' = p3_sems
        /\ \A u \in P3_Threads : IsBlocked(p3_sems, u) => p3_pc'[u] = p3_pc[u]
    BY <1>1, <1>2 DEF P3_Inv, P3_Step
  <2> QED BY <2>1, SemsSame
<1>4. P3_TypeOK'
  <2>1. p3_ring' \in [P3_Pipes -> Rings(P3_PIPE_CAP)]
    <3>1. \A p \in P3_Pipes : p3_ring'[p] \in Rings(P3_PIPE_CAP)
      BY DEF P3_Inv, P3_TypeOK, P3_Pipes, RingHolds
    <3> QED BY <3>1
  <2> QED BY <1>1, <1>2, <2>1 DEF P3_Inv, P3_TypeOK, P3_Step
<1>5. P3_Main' /\ P3_Gen' /\ P3_Trans'
  BY <1>1, <1>2
     DEF P3_Inv, P3_Main, P3_Gen, P3_Trans, P3_Step, P3_Threads, P3_Stages, P3_In, P3_Unsent,
         P3_Putting, P3_Sems
<1>6. P3_Acc'
  <2>1. P3_Added' = P3_Added /\ p3_sum' = p3_sum
    BY <1>1, <1>2 DEF P3_Added, P3_Taken, P3_In, P3_Step, P3_Stages, P3_Threads
  <2> QED BY <1>1, <1>2, <2>1 DEF P3_Inv, P3_Acc, P3_Step, P3_Stages, P3_Threads
<1>7. /\ p3_i \in Int /\ P3_Taken("transformer") \in Int /\ P3_Taken("accumulator") \in Int
  BY P3_Numbers
<1>8. P3_PipeA'
  <2>1. /\ P3_Reserved("generator")' = P3_Reserved("generator")
        /\ P3_Freed("transformer")' = P3_Freed("transformer")
        /\ P3_Sent("generator")' = P3_Sent("generator")
        /\ P3_Claimed("transformer")' = P3_Claimed("transformer")
    BY <1>1, <1>2, <1>7
       DEF P3_Reserved, P3_Freed, P3_Claimed, P3_Sent, P3_Taken,
           P3_In, P3_Step, P3_Stages, P3_Threads, P3_Unsent, P3_Putting
  <2>2. RingHolds(p3_ring["p3a"], P3_PIPE_CAP, P3_Left("transformer"), P3_Moved("generator"),
                  P3_Stored("generator"), P3_ItemA)'
    <3>1. CASE pipe = "p3a"
      BY <3>1
    <3>2. CASE pipe # "p3a"
      <4>1. /\ P3_Left("transformer")' = P3_Left("transformer")
            /\ P3_Moved("generator")' = P3_Moved("generator")
            /\ P3_Stored("generator")' = P3_Stored("generator")
        BY <1>1, <1>2, <1>7, <3>2
           DEF P3_Left, P3_Moved, P3_Stored, P3_Sent, P3_Taken,
               P3_In, P3_Step, P3_Stages, P3_Threads, P3_Unsent, P3_Putting
      <4>2. p3_ring'["p3a"] = p3_ring["p3a"]
        BY <3>2 DEF P3_Pipes
      <4> QED BY <4>1, <4>2 DEF P3_Inv, P3_PipeA, P3_Pipe
    <3> QED BY <3>1, <3>2
  <2> QED BY <1>1, <1>2, <2>1, <2>2 DEF P3_Inv, P3_PipeA, P3_Pipe
<1>9. P3_PipeB'
  <2>1. /\ P3_Reserved("transformer")' = P3_Reserved("transformer")
        /\ P3_Freed("accumulator")' = P3_Freed("accumulator")
        /\ P3_Sent("transformer")' = P3_Sent("transformer")
        /\ P3_Claimed("accumulator")' = P3_Claimed("accumulator")
    BY <1>1, <1>2, <1>7
       DEF P3_Reserved, P3_Freed, P3_Claimed, P3_Sent, P3_Taken,
           P3_In, P3_Step, P3_Stages, P3_Threads, P3_Unsent, P3_Putting
  <2>2. RingHolds(p3_ring["p3b"], P3_PIPE_CAP, P3_Left("accumulator"), P3_Moved("transformer"),
                  P3_Stored("transformer"), P3_ItemB)'
    <3>1. CASE pipe = "p3b"
      BY <3>1
    <3>2. CASE pipe # "p3b"
      <4>1. /\ P3_Left("accumulator")' = P3_Left("accumulator")
            /\ P3_Moved("transformer")' = P3_Moved("transformer")
            /\ P3_Stored("transformer")' = P3_Stored("transformer")
        BY <1>1, <1>2, <1>7, <3>2
           DEF P3_Left, P3_Moved, P3_Stored, P3_Sent, P3_Taken,
               P3_In, P3_Step, P3_Stages, P3_Threads, P3_Unsent, P3_Putting
      <4>2. p3_ring'["p3b"] = p3_ring["p3b"]
        BY <3>2 DEF P3_Pipes
      <4> QED BY <4>1, <4>2 DEF P3_Inv, P3_PipeB, P3_Pipe
    <3> QED BY <3>1, <3>2
  <2> QED BY <1>1, <1>2, <2>1, <2>2 DEF P3_Inv, P3_PipeB, P3_Pipe
<1> QED BY <1>1, <1>3, <1>4, <1>5, <1>6, <1>8, <1>9 DEF P3_Inv

LEMMA P3_StoreStep ==
    ASSUME P3_Inv, errorFlag = 0, NEW t, NEW pipe, NEW item,
           \/ t = "generator" /\ pipe = "p3a"
              /\ item = IF p3_i < P3_COUNT THEN p3_i + 1 ELSE -1
           \/ t = "transformer" /\ pipe = "p3b"
              /\ item = IF p3_val["transformer"] = -1 THEN -1 ELSE 3 * p3_val["transformer"],
           p3_goes(t, "store", "moveTail"),
           p3_ring' = [p3_ring EXCEPT ![pipe] = Stored(@, item)],
           UNCHANGED <<p3_locals, p3_sems, errorFlag>>
    PROVE  P3_Inv' /\ errorFlag' = 0
<1>1. /\ t \in P3_Stages /\ t \in P3_Threads /\ t # "main" /\ pipe \in P3_Pipes
      /\ "moveTail" \in P3_Positions /\ p3_ring' = [p3_ring EXCEPT ![pipe] = Stored(@, item)]
      /\ UNCHANGED <<p3_i, p3_val>>
  BY DEF P3_Stages, P3_Threads, P3_Pipes, P3_Positions, p3_locals
<1>2. P3_Step(t, "store", "moveTail") /\ p3_pc["main"] # "open"
  BY <1>1, P3_Goes
<1>3. /\ p3_ring' = [p \in P3_Pipes |-> p3_ring'[p]]
      /\ \A other \in P3_Pipes \ {pipe} : p3_ring'[other] = p3_ring[other]
      /\ p3_ring'[pipe] = Stored(p3_ring[pipe], item)
  BY <1>1 DEF P3_Inv, P3_TypeOK
<1>4. P3_COUNT \in Nat \ {0} /\ P3_PIPE_CAP \in Nat \ {0}
  BY P3_Numbers
<1>5. CASE t = "generator"
  <2> DEFINE g == P3_Left("transformer")
  <2> DEFINE p == P3_Stored("generator")
  <2>1. /\ P3_Moved("generator") = p /\ p3_i = p /\ p \in 0..P3_COUNT /\ g \in Nat
        /\ P3_Reserved("generator") = p + 1 /\ P3_Freed("transformer") <= g
        /\ P3_Freed("transformer") \in Int
    BY <1>2, <1>5, P3_Numbers
       DEF P3_Inv, P3_Gen, P3_Step, P3_Left, P3_Stored, P3_Moved, P3_Reserved, P3_Freed, P3_Sent,
           P3_In, P3_Putting, P3_Unsent
  <2>2. p + 1 <= g + P3_PIPE_CAP
    <3>1. P3_Reserved("generator") <= P3_PIPE_CAP + P3_Freed("transformer")
      BY <1>2, <1>5, P3_Queue DEF P3_Step
    <3> QED BY <1>4, <2>1, <3>1
  <2>3. /\ P3_Left("transformer")' = g /\ P3_Moved("generator")' = p
        /\ P3_Stored("generator")' = p + 1
    BY <1>1, <1>2, <1>5, <2>1
       DEF P3_Left, P3_Stored, P3_Moved, P3_Sent, P3_Taken, P3_In, P3_Step, P3_Threads, P3_Stages
  <2>4. RingHolds(p3_ring["p3a"], P3_PIPE_CAP, g, p, p, P3_ItemA)
    BY <2>1 DEF P3_Inv, P3_PipeA, P3_Pipe
  <2>5. item = P3_ItemA[p + 1] /\ P3_ItemA[p + 1] \in Int
    BY <1>4, <1>5, <2>1 DEF P3_ItemA
  <2> HIDE DEF g, p
  <2>6. RingHolds(Stored(p3_ring["p3a"], P3_ItemA[p + 1]), P3_PIPE_CAP, g, p, p + 1, P3_ItemA)
    BY <1>4, <2>1, <2>2, <2>4, <2>5, RingStored
  <2>7. RingHolds(p3_ring["p3a"], P3_PIPE_CAP, P3_Left("transformer"), P3_Moved("generator"),
                  P3_Stored("generator"), P3_ItemA)'
    BY <1>3, <1>5, <2>3, <2>5, <2>6
  <2> QED BY <1>1, <1>3, <1>5, <2>7, P3_RingStep
<1>6. CASE t = "transformer"
  <2> DEFINE g == P3_Left("accumulator")
  <2> DEFINE p == P3_Stored("transformer")
  <2>1. /\ P3_Moved("transformer") = p /\ P3_Taken("transformer") = p + 1
        /\ p \in 0..P3_COUNT /\ g \in Nat
        /\ P3_Reserved("transformer") = p + 1 /\ P3_Freed("accumulator") <= g
        /\ P3_Freed("accumulator") \in Int
    BY <1>2, <1>6, P3_Numbers
       DEF P3_Step, P3_Left, P3_Stored, P3_Moved, P3_Reserved, P3_Freed, P3_Sent,
           P3_In, P3_Putting, P3_Unsent
  <2>2. p + 1 <= g + P3_PIPE_CAP
    <3>1. P3_Reserved("transformer") <= P3_PIPE_CAP + P3_Freed("accumulator")
      BY <1>2, <1>6, P3_Queue DEF P3_Step
    <3> QED BY <1>4, <2>1, <3>1
  <2>3. /\ P3_Left("accumulator")' = g /\ P3_Moved("transformer")' = p
        /\ P3_Stored("transformer")' = p + 1
    BY <1>1, <1>2, <1>6, <2>1
       DEF P3_Left, P3_Stored, P3_Moved, P3_Sent, P3_Taken, P3_In, P3_Step, P3_Threads, P3_Stages,
           P3_Putting, P3_Unsent
  <2>4. RingHolds(p3_ring["p3b"], P3_PIPE_CAP, g, p, p, P3_ItemB)
    BY <2>1 DEF P3_Inv, P3_PipeB, P3_Pipe
  <2>5. item = P3_ItemB[p + 1] /\ P3_ItemB[p + 1] \in Int
    <3>1. /\ p3_val["transformer"] = P3_ItemA[p + 1]
          /\ p3_val["transformer"] = -1 <=> p + 1 = P3_COUNT + 1
      BY <2>1, P3_Numbers
    <3> HIDE DEF p
    <3>2. p + 1 \in Nat
      BY <2>1
    <3>3. p + 1 # P3_COUNT + 1 => p + 1 <= P3_COUNT
      BY <1>4, <2>1
    <3> QED BY <1>4, <1>6, <2>1, <3>1, <3>2, <3>3 DEF P3_ItemA, P3_ItemB
  <2> HIDE DEF g, p
  <2>6. RingHolds(Stored(p3_ring["p3b"], P3_ItemB[p + 1]), P3_PIPE_CAP, g, p, p + 1, P3_ItemB)
    BY <1>4, <2>1, <2>2, <2>4, <2>5, RingStored
  <2>7. RingHolds(p3_ring["p3b"], P3_PIPE_CAP, P3_Left("accumulator"), P3_Moved("transformer"),
                  P3_Stored("transformer"), P3_ItemB)'
    BY <1>3, <1>6, <2>3, <2>5, <2>6
  <2> QED BY <1>1, <1>3, <1>6, <2>7, P3_RingStep
<1> QED BY <1>5, <1>6

LEMMA P3_TailStep ==
    ASSUME P3_Inv, errorFlag = 0, NEW t, NEW pipe,
           \/ t = "generator" /\ pipe = "p3a"
           \/ t = "transformer" /\ pipe = "p3b",
           p3_goes(t, "moveTail", "freeTail"),
           p3_ring' = [p3_ring EXCEPT ![pipe] = TailMoved(@, P3_PIPE_CAP)],
           UNCHANGED <<p3_locals, p3_sems, errorFlag>>
    PROVE  P3_Inv' /\ errorFlag' = 0
<1>1. /\ t \in P3_Stages /\ t \in P3_Threads /\ t # "main" /\ pipe \in P3_Pipes
      /\ "freeTail" \in P3_Positions
      /\ p3_ring' = [p3_ring EXCEPT ![pipe] = TailMoved(@, P3_PIPE_CAP)]
      /\ UNCHANGED <<p3_i, p3_val>>
  BY DEF P3_Stages, P3_Threads, P3_Pipes, P3_Positions, p3_locals
<1>2. P3_Step(t, "moveTail", "freeTail")
  BY <1>1, P3_Goes
<1>3. /\ p3_ring' = [p \in P3_Pipes |-> p3_ring'[p]]
      /\ \A other \in P3_Pipes \ {pipe} : p3_ring'[other] = p3_ring[other]
      /\ p3_ring'[pipe] = TailMoved(p3_ring[pipe], P3_PIPE_CAP)
  BY <1>1 DEF P3_Inv, P3_TypeOK
<1>4. P3_COUNT \in Nat \ {0} /\ P3_PIPE_CAP \in Nat \ {0}
  BY P3_Numbers
<1>5. CASE t = "generator"
  <2> DEFINE g == P3_Left("transformer")
  <2> DEFINE m == P3_Moved("generator")
  <2>1. P3_Stored("generator") = m + 1 /\ m \in Nat /\ g \in Nat
    BY <1>2, <1>5, P3_Numbers
       DEF P3_Step, P3_Left, P3_Stored, P3_Moved, P3_Sent, P3_In, P3_Putting, P3_Unsent
  <2>2. /\ P3_Left("transformer")' = g /\ P3_Moved("generator")' = m + 1
        /\ P3_Stored("generator")' = m + 1
    BY <1>1, <1>2, <1>5, <2>1, P3_Numbers
       DEF P3_Left, P3_Stored, P3_Moved, P3_Sent, P3_Taken, P3_In, P3_Step, P3_Threads, P3_Stages
  <2>3. RingHolds(p3_ring["p3a"], P3_PIPE_CAP, g, m, m + 1, P3_ItemA)
    BY <2>1 DEF P3_Inv, P3_PipeA, P3_Pipe
  <2> HIDE DEF g, m
  <2>4. RingHolds(TailMoved(p3_ring["p3a"], P3_PIPE_CAP), P3_PIPE_CAP, g, m + 1, m + 1, P3_ItemA)
    BY <1>4, <2>1, <2>3, RingTailMoved
  <2>5. RingHolds(p3_ring["p3a"], P3_PIPE_CAP, P3_Left("transformer"), P3_Moved("generator"),
                  P3_Stored("generator"), P3_ItemA)'
    BY <1>3, <1>5, <2>2, <2>4
  <2> QED BY <1>1, <1>3, <1>5, <2>5, P3_RingStep
<1>6. CASE t = "transformer"
  <2> DEFINE g == P3_Left("accumulator")
  <2> DEFINE m == P3_Moved("transformer")
  <2>1. P3_Stored("transformer") = m + 1 /\ m \in Nat /\ g \in Nat
    BY <1>2, <1>6, P3_Numbers
       DEF P3_Step, P3_Left, P3_Stored, P3_Moved, P3_Sent, P3_In, P3_Putting, P3_Unsent
  <2>2. /\ P3_Left("accumulator")' = g /\ P3_Moved("transformer")' = m + 1
        /\ P3_Stored("transformer")' = m + 1
    BY <1>1, <1>2, <1>6, <2>1, P3_Numbers
       DEF P3_Left, P3_Stored, P3_Moved, P3_Sent, P3_Taken, P3_In, P3_Step, P3_Threads, P3_Stages,
           P3_Putting, P3_Unsent
  <2>3. RingHolds(p3_ring["p3b"], P3_PIPE_CAP, g, m, m + 1, P3_ItemB)
    BY <2>1 DEF P3_Inv, P3_PipeB, P3_Pipe
  <2> HIDE DEF g, m
  <2>4. RingHolds(TailMoved(p3_ring["p3b"], P3_PIPE_CAP), P3_PIPE_CAP, g, m + 1, m + 1, P3_ItemB)
    BY <1>4, <2>1, <2>3, RingTailMoved
  <2>5. RingHolds(p3_ring["p3b"], P3_PIPE_CAP, P3_Left("accumulator"), P3_Moved("transformer"),
                  P3_Stored("transformer"), P3_ItemB)'
    BY <1>3, <1>6, <2>2, <2>4
  <2> QED BY <1>1, <1>3, <1>6, <2>5, P3_RingStep
<1> QED BY <1>5, <1>6

LEMMA P3_HeadStep ==
    ASSUME P3_Inv, errorFlag = 0, NEW t, NEW pipe,
           \/ t = "transformer" /\ pipe = "p3a"
           \/ t = "accumulator" /\ pipe = "p3b",
           p3_goes(t, "moveHead", "freeHead"),
           p3_ring' = [p3_ring EXCEPT ![pipe] = HeadMoved(@, P3_PIPE_CAP)],
           UNCHANGED <<p3_locals, p3_sems, errorFlag>>
    PROVE  P3_Inv' /\ errorFlag' = 0
<1>1. /\ t \in P3_Stages /\ t \in P3_Threads /\ t # "main" /\ pipe \in P3_Pipes
      /\ "freeHead" \in P3_Positions
      /\ p3_ring' = [p3_ring EXCEPT ![pipe] = HeadMoved(@, P3_PIPE_CAP)]
      /\ UNCHANGED <<p3_i, p3_val>>
  BY DEF P3_Stages, P3_Threads, P3_Pipes, P3_Positions, p3_locals
<1>2. P3_Step(t, "moveHead", "freeHead") /\ p3_pc["main"] # "open"
  BY <1>1, P3_Goes
<1>3. /\ p3_ring' = [p \in P3_Pipes |-> p3_ring'[p]]
      /\ \A other \in P3_Pipes \ {pipe} : p3_ring'[other] = p3_ring[other]
      /\ p3_ring'[pipe] = HeadMoved(p3_ring[pipe], P3_PIPE_CAP)
  BY <1>1 DEF P3_Inv, P3_TypeOK
<1>4. P3_COUNT \in Nat \ {0} /\ P3_PIPE_CAP \in Nat \ {0}
  BY P3_Numbers
<1>5. CASE t = "transformer"
  <2> DEFINE g == P3_Left("transformer")
  <2> DEFINE m == P3_Moved("generator")
  <2> DEFINE p == P3_Stored("generator")
  <2>1. /\ m \in Nat /\ p \in Nat /\ g \in Nat
        /\ P3_Claimed("transformer") = g + 1 /\ P3_Sent("generator") <= m
        /\ P3_Sent("generator") \in Int
    BY <1>2, <1>5, P3_Numbers
       DEF P3_Step, P3_Left, P3_Stored, P3_Moved, P3_Sent, P3_Claimed, P3_In, P3_Putting, P3_Unsent
  <2>2. g < m
    <3>1. P3_Claimed("transformer") <= P3_Sent("generator")
      BY <1>2, <1>5, P3_Queue DEF P3_Step
    <3> QED BY <2>1, <3>1
  <2>3. /\ P3_Left("transformer")' = g + 1 /\ P3_Moved("generator")' = m
        /\ P3_Stored("generator")' = p
    BY <1>1, <1>2, <1>5, <2>1, P3_Numbers
       DEF P3_Left, P3_Stored, P3_Moved, P3_Sent, P3_Taken, P3_In, P3_Step, P3_Threads, P3_Stages
  <2>4. RingHolds(p3_ring["p3a"], P3_PIPE_CAP, g, m, p, P3_ItemA)
    BY DEF P3_Inv, P3_PipeA, P3_Pipe
  <2> HIDE DEF g, m, p
  <2>5. RingHolds(HeadMoved(p3_ring["p3a"], P3_PIPE_CAP), P3_PIPE_CAP, g + 1, m, p, P3_ItemA)
    BY <1>4, <2>1, <2>2, <2>4, RingHeadMoved
  <2>6. RingHolds(p3_ring["p3a"], P3_PIPE_CAP, P3_Left("transformer"), P3_Moved("generator"),
                  P3_Stored("generator"), P3_ItemA)'
    BY <1>3, <1>5, <2>3, <2>5
  <2> QED BY <1>1, <1>3, <1>5, <2>6, P3_RingStep
<1>6. CASE t = "accumulator"
  <2> DEFINE g == P3_Left("accumulator")
  <2> DEFINE m == P3_Moved("transformer")
  <2> DEFINE p == P3_Stored("transformer")
  <2>1. /\ m \in Nat /\ p \in Nat /\ g \in Nat
        /\ P3_Claimed("accumulator") = g + 1 /\ P3_Sent("transformer") <= m
        /\ P3_Sent("transformer") \in Int
    BY <1>2, <1>6, P3_Numbers
       DEF P3_Step, P3_Left, P3_Stored, P3_Moved, P3_Sent, P3_Claimed, P3_In, P3_Putting, P3_Unsent
  <2>2. g < m
    <3>1. P3_Claimed("accumulator") <= P3_Sent("transformer")
      BY <1>2, <1>6, P3_Queue DEF P3_Step
    <3> QED BY <2>1, <3>1
  <2>3. /\ P3_Left("accumulator")' = g + 1 /\ P3_Moved("transformer")' = m
        /\ P3_Stored("transformer")' = p
    BY <1>1, <1>2, <1>6, <2>1, P3_Numbers
       DEF P3_Left, P3_Stored, P3_Moved, P3_Sent, P3_Taken, P3_In, P3_Step, P3_Threads, P3_Stages
  <2>4. RingHolds(p3_ring["p3b"], P3_PIPE_CAP, g, m, p, P3_ItemB)
    BY DEF P3_Inv, P3_PipeB, P3_Pipe
  <2> HIDE DEF g, m, p
  <2>5. RingHolds(HeadMoved(p3_ring["p3b"], P3_PIPE_CAP), P3_PIPE_CAP, g + 1, m, p, P3_ItemB)
    BY <1>4, <2>1, <2>2, <2>4, RingHeadMoved
  <2>6. RingHolds(p3_ring["p3b"], P3_PIPE_CAP, P3_Left("accumulator"), P3_Moved("transformer"),
                  P3_Stored("transformer"), P3_ItemB)'
    BY <1>3, <1>6, <2>3, <2>5
  <2> QED BY <1>1, <1>3, <1>6, <2>6, P3_RingStep
<1> QED BY <1>5, <1>6

\* The next item is what the sequence says, and so the next number.
LEMMA P3_NextTaken ==
    ASSUME P3_Inv, NEW t, NEW pipe,
           \/ t = "transformer" /\ pipe = "p3a"
           \/ t = "accumulator" /\ pipe = "p3b",
           P3_Step(t, "take", "moveHead"),
           p3_val' = [p3_val EXCEPT ![t] = Oldest(p3_ring[pipe])]
    PROVE  /\ P3_Taken(t)' = P3_Taken(t) + 1 /\ p3_val[t] # -1
           /\ p3_val' \in [P3_Threads -> Int]
           /\ t = "transformer" => p3_val'[t] = P3_ItemA[P3_Taken(t) + 1]
           /\ t = "accumulator" => p3_val'[t] = P3_ItemB[P3_Taken(t) + 1]
           /\ \A u \in P3_Threads \ {t} : p3_val'[u] = p3_val[u]
           /\ P3_Taken(t) \in 0..P3_COUNT
<1>1. P3_COUNT \in Nat \ {0} /\ P3_PIPE_CAP \in Nat \ {0} /\ p3_pc["main"] # "open"
  BY P3_Numbers DEF P3_Inv, P3_Trans, P3_Acc, P3_Step
<1>2. /\ t \in P3_Threads /\ p3_val \in [P3_Threads -> Int]
      /\ p3_val'[t] = Oldest(p3_ring[pipe])
      /\ \A u \in P3_Threads \ {t} : p3_val'[u] = p3_val[u]
  BY DEF P3_Threads, P3_Stages, P3_Inv, P3_TypeOK
<1>3. p3_val[t] # -1 /\ P3_Taken(t) \in 0..P3_COUNT
  BY P3_Numbers DEF P3_Inv, P3_Trans, P3_Acc, P3_Step
<1>4. CASE t = "transformer"
  <2> DEFINE g == P3_Left("transformer")
  <2> DEFINE m == P3_Moved("generator")
  <2> DEFINE p == P3_Stored("generator")
  <2>1. /\ P3_Taken("transformer") = g /\ g \in 0..P3_COUNT /\ m \in Nat /\ p \in Nat
        /\ P3_Claimed("transformer") = g + 1 /\ P3_Sent("generator") <= p
        /\ P3_Sent("generator") \in Int
    BY <1>3, <1>4, P3_Numbers
       DEF P3_Step, P3_Left, P3_Stored, P3_Moved, P3_Sent, P3_Claimed, P3_In
  <2>2. g < p
    <3>1. P3_Claimed("transformer") <= P3_Sent("generator")
      BY <1>1, <1>4, P3_Queue DEF P3_Step
    <3> QED BY <2>1, <3>1
  <2>3. RingHolds(p3_ring["p3a"], P3_PIPE_CAP, g, m, p, P3_ItemA)
    BY DEF P3_Inv, P3_PipeA, P3_Pipe
  <2>4. P3_Taken("transformer") = g
    BY <2>1
  <2> HIDE DEF g, m, p
  <2>5. Oldest(p3_ring["p3a"]) = P3_ItemA[g + 1]
    BY <1>1, <2>1, <2>2, <2>3, RingOldest
  <2>6. p3_val'["transformer"] = P3_ItemA[g + 1]
    BY <1>2, <1>4, <2>5
  <2>7. P3_ItemA[g + 1] = IF g + 1 <= P3_COUNT THEN g + 1 ELSE -1
    BY <2>1 DEF P3_ItemA
  <2>8. p3_val'["transformer"] \in Int /\ P3_Taken("transformer")' = g + 1
    BY <1>1, <2>1, <2>6, <2>7 DEF P3_Taken
  <2>9. p3_val' \in [P3_Threads -> Int]
    BY <1>2, <1>4, <2>8
  <2> QED BY <1>2, <1>3, <1>4, <2>4, <2>6, <2>8, <2>9
<1>5. CASE t = "accumulator"
  <2> DEFINE g == P3_Left("accumulator")
  <2> DEFINE m == P3_Moved("transformer")
  <2> DEFINE p == P3_Stored("transformer")
  <2>1. /\ P3_Taken("accumulator") = g /\ g \in 0..P3_COUNT /\ m \in Nat /\ p \in Nat
        /\ P3_Claimed("accumulator") = g + 1 /\ P3_Sent("transformer") <= p
        /\ P3_Sent("transformer") \in Int
    BY <1>3, <1>5, P3_Numbers
       DEF P3_Step, P3_Left, P3_Stored, P3_Moved, P3_Sent, P3_Claimed, P3_In, P3_Unsent, P3_Putting
  <2>2. g < p
    <3>1. P3_Claimed("accumulator") <= P3_Sent("transformer")
      BY <1>1, <1>5, P3_Queue DEF P3_Step
    <3> QED BY <2>1, <3>1
  <2>3. RingHolds(p3_ring["p3b"], P3_PIPE_CAP, g, m, p, P3_ItemB)
    BY DEF P3_Inv, P3_PipeB, P3_Pipe
  <2>4. P3_Taken("accumulator") = g
    BY <2>1
  <2> HIDE DEF g, m, p
  <2>5. Oldest(p3_ring["p3b"]) = P3_ItemB[g + 1]
    BY <1>1, <2>1, <2>2, <2>3, RingOldest
  <2>6. p3_val'["accumulator"] = P3_ItemB[g + 1]
    BY <1>2, <1>5, <2>5
  <2>7. P3_ItemB[g + 1] = IF g + 1 <= P3_COUNT THEN 3 * (g + 1) ELSE -1
    BY <2>1 DEF P3_ItemB
  <2>8. p3_val'["accumulator"] \in Int /\ P3_Taken("accumulator")' = g + 1
    BY <1>1, <2>1, <2>6, <2>7 DEF P3_Taken
  <2>9. p3_val' \in [P3_Threads -> Int]
    BY <1>2, <1>5, <2>8
  <2> QED BY <1>2, <1>3, <1>5, <2>4, <2>6, <2>8, <2>9
<1> QED BY <1>4, <1>5

LEMMA P3_TakeStep ==
    ASSUME P3_Inv, errorFlag = 0, NEW t, NEW pipe,
           \/ t = "transformer" /\ pipe = "p3a"
           \/ t = "accumulator" /\ pipe = "p3b",
           p3_goes(t, "take", "moveHead"),
           p3_val' = [p3_val EXCEPT ![t] = Oldest(p3_ring[pipe])],
           UNCHANGED <<p3_i, p3_sum, p3_sems, p3_ring, errorFlag>>
    PROVE  P3_Inv' /\ errorFlag' = 0
<1>1. t \in P3_Stages \ {"generator"} /\ t \in P3_Threads /\ "moveHead" \in P3_Positions
  BY DEF P3_Stages, P3_Threads, P3_Positions
<1>2. P3_Step(t, "take", "moveHead") /\ p3_pc["main"] # "open"
  BY <1>1, P3_Goes DEF P3_Stages
<1>3. /\ P3_Taken(t)' = P3_Taken(t) + 1 /\ p3_val[t] # -1
      /\ p3_val' \in [P3_Threads -> Int]
      /\ t = "transformer" => p3_val'[t] = P3_ItemA[P3_Taken(t) + 1]
      /\ t = "accumulator" => p3_val'[t] = P3_ItemB[P3_Taken(t) + 1]
      /\ \A u \in P3_Threads \ {t} : p3_val'[u] = p3_val[u]
      /\ P3_Taken(t) \in 0..P3_COUNT
  BY <1>2, P3_NextTaken
<1>4. /\ p3_i' = p3_i /\ p3_sum' = p3_sum /\ p3_sems' = p3_sems /\ p3_ring' = p3_ring
      /\ errorFlag' = 0
  OBVIOUS
<1>5. SemsOK(p3_sems', P3_Sems, P3_Threads, P3_At, p3_pc')
  <2>1. /\ SemsOK(p3_sems, P3_Sems, P3_Threads, P3_At, p3_pc)
        /\ \A u \in P3_Threads : IsBlocked(p3_sems, u) => p3_pc'[u] = p3_pc[u]
    BY <1>2 DEF P3_Inv, P3_Step
  <2> QED BY <1>4, <2>1, SemsSame
<1>6. P3_TypeOK'
  BY <1>2, <1>3, <1>4 DEF P3_Inv, P3_TypeOK, P3_Step
<1>7. \A u \in P3_Stages \ {t} : P3_Idle(u)
  BY <1>1, <1>2, <1>3, <1>4 DEF P3_Idle, P3_Step, P3_Threads
<1>8. /\ P3_Left(t)' = P3_Left(t) /\ P3_Freed(t)' = P3_Freed(t) /\ P3_Claimed(t)' = P3_Claimed(t)
      /\ P3_Sent(t)' = P3_Sent(t) /\ P3_Reserved(t)' = P3_Reserved(t)
      /\ P3_Stored(t)' = P3_Stored(t) /\ P3_Moved(t)' = P3_Moved(t)
  BY <1>1, <1>2, <1>3
     DEF P3_Left, P3_Freed, P3_Claimed, P3_Sent, P3_Reserved, P3_Stored, P3_Moved, P3_In, P3_Step,
         P3_Unsent, P3_Putting
<1>9. \A u \in P3_Stages :
          /\ P3_Left(u)' = P3_Left(u) /\ P3_Freed(u)' = P3_Freed(u)
          /\ P3_Claimed(u)' = P3_Claimed(u)
          /\ P3_Sent(u)' = P3_Sent(u) /\ P3_Reserved(u)' = P3_Reserved(u)
          /\ P3_Stored(u)' = P3_Stored(u) /\ P3_Moved(u)' = P3_Moved(u)
  BY <1>7, <1>8, P3_Idles
<1>10. p3_pc'["main"] = p3_pc["main"] /\ p3_pc'[t] = "moveHead" /\ p3_pc[t] = "take"
       /\ \A u \in P3_Stages \ {t} : p3_pc'[u] = p3_pc[u] /\ p3_val'[u] = p3_val[u]
  BY <1>1, <1>2, <1>3 DEF P3_Step, P3_Threads, P3_Stages
<1>11. P3_COUNT \in Nat \ {0}
  BY P3_Numbers
<1>12. P3_Main' /\ P3_Gen'
  BY <1>1, <1>4, <1>10 DEF P3_Inv, P3_Main, P3_Gen, P3_In, P3_Stages
<1>13. P3_Trans'
  <2>1. t = "transformer" => p3_val'[t] \in 1..P3_COUNT \union {-1}
    BY <1>3, <1>11 DEF P3_ItemA
  <2> QED BY <1>1, <1>10, <2>1, <1>11 DEF P3_Inv, P3_Trans, P3_Stages, P3_Unsent, P3_Putting
<1>14. P3_Acc'
  <2>1. t = "accumulator" => \/ p3_val'[t] = -1
                             \/ \E k \in 1..P3_COUNT : p3_val'[t] = 3 * k
    BY <1>3, <1>11 DEF P3_ItemB
  <2>2. P3_Added' = P3_Added
    <3>1. CASE t = "transformer"
      BY <1>7, <3>1, P3_Idles DEF P3_Added, P3_Idle, P3_In, P3_Stages
    <3>2. CASE t = "accumulator"
      <4>1. p3_val'[t] = -1 => P3_Taken(t) = P3_COUNT
        BY <1>3, <1>11, <3>2 DEF P3_ItemB
      <4> QED BY <1>3, <1>10, <1>11, <3>2, <4>1 DEF P3_Added, P3_In
    <3> QED BY <1>1, <3>1, <3>2 DEF P3_Stages
  <2>3. t = "accumulator" => p3_val'[t] # 0
    BY <2>1
  <2>4. 2 * p3_sum' = 3 * (P3_Added' * (P3_Added' + 1))
    BY <1>4, <2>2 DEF P3_Inv, P3_Acc
  <2>5. \/ p3_val'["accumulator"] = -1
        \/ \E k \in 0..P3_COUNT : p3_val'["accumulator"] = 3 * k
    BY <1>1, <1>10, <2>1 DEF P3_Inv, P3_Acc, P3_Stages
  <2> QED BY <1>1, <1>10, <2>3, <2>4, <2>5 DEF P3_Inv, P3_Acc, P3_Stages
<1>15. P3_PipeA' /\ P3_PipeB'
  BY <1>4, <1>9, <1>10 DEF P3_Inv, P3_PipeA, P3_PipeB, P3_Pipe, P3_Stages
<1> QED BY <1>4, <1>5, <1>6, <1>12, <1>13, <1>14, <1>15 DEF P3_Inv

-----------------------------------------------------------------------------
\* The accumulator's own steps.

LEMMA P3_AddStep ==
    ASSUME P3_Inv, errorFlag = 0, p3_goes("accumulator", "add", "waitItem"),
           p3_sum' = p3_sum + p3_val["accumulator"],
           UNCHANGED <<p3_i, p3_val, p3_sems, p3_ring, errorFlag>>
    PROVE  P3_Inv' /\ errorFlag' = 0
<1> DEFINE t == "accumulator"
<1>1. t \in P3_Stages /\ t \in P3_Threads /\ "waitItem" \in P3_Positions
  BY DEF P3_Stages, P3_Threads, P3_Positions
<1>2. P3_Step(t, "add", "waitItem") /\ p3_pc["main"] # "open"
  BY <1>1, P3_Goes
<1>3. /\ p3_i' = p3_i /\ p3_val' = p3_val /\ p3_sems' = p3_sems /\ p3_ring' = p3_ring
      /\ errorFlag' = 0 /\ p3_sum' = p3_sum + p3_val[t]
  OBVIOUS
<1>4. /\ p3_pc'["main"] = p3_pc["main"] /\ p3_pc[t] = "add" /\ p3_pc'[t] = "waitItem"
      /\ \A u \in P3_Stages \ {t} : p3_pc'[u] = p3_pc[u]
  BY <1>2 DEF P3_Step, P3_Threads, P3_Stages
<1>5. SemsOK(p3_sems', P3_Sems, P3_Threads, P3_At, p3_pc')
  <2>1. /\ SemsOK(p3_sems, P3_Sems, P3_Threads, P3_At, p3_pc)
        /\ \A u \in P3_Threads : IsBlocked(p3_sems, u) => p3_pc'[u] = p3_pc[u]
    BY <1>2 DEF P3_Inv, P3_Step
  <2> QED BY <1>3, <2>1, SemsSame
<1>6. p3_val[t] # -1 /\ P3_Taken(t) \in 1..P3_COUNT /\ p3_val[t] = 3 * P3_Taken(t)
      /\ P3_COUNT \in Nat \ {0}
  BY <1>4, P3_Numbers DEF P3_Inv, P3_Acc, P3_ItemB
<1>7. P3_Added = P3_Taken(t) - 1 /\ P3_Added' = P3_Taken(t)
  BY <1>3, <1>4, <1>6 DEF P3_Added, P3_Taken, P3_In
<1>8. p3_sum' \in Nat /\ 2 * p3_sum' = 3 * (P3_Added' * (P3_Added' + 1))
  <2> DEFINE k == P3_Taken(t)
  <2>1. p3_sum \in Nat /\ 2 * p3_sum = 3 * (P3_Added * (P3_Added + 1))
    BY DEF P3_Inv, P3_Acc, P3_TypeOK
  <2>2. k \in 1..P3_COUNT /\ p3_sum' = p3_sum + 3 * k /\ P3_Added = k - 1 /\ P3_Added' = k
    BY <1>3, <1>6, <1>7
  <2> HIDE DEF k
  <2>3. (k - 1) * ((k - 1) + 1) + 2 * k = k * (k + 1)
    BY <2>2
  <2> QED BY <2>1, <2>2, <2>3
<1>9. P3_TypeOK'
  BY <1>2, <1>3, <1>8 DEF P3_Inv, P3_TypeOK, P3_Step
<1>10. P3_Main' /\ P3_Gen' /\ P3_Trans'
  BY <1>3, <1>4 DEF P3_Inv, P3_Main, P3_Gen, P3_Trans, P3_In, P3_Stages
<1>11. P3_Acc'
  BY <1>3, <1>4, <1>6, <1>8 DEF P3_Inv, P3_Acc, P3_Stages
<1>12. P3_PipeA' /\ P3_PipeB'
  <2>1. P3_Idle("generator") /\ P3_Idle("transformer")
    BY <1>3, <1>4 DEF P3_Idle, P3_Stages
  <2>2. /\ P3_Left(t)' = P3_Left(t) /\ P3_Freed(t)' = P3_Freed(t)
        /\ P3_Claimed(t)' = P3_Claimed(t)
    BY <1>3, <1>4 DEF P3_Left, P3_Freed, P3_Claimed, P3_Taken, P3_In
  <2> QED BY <1>3, <1>4, <2>1, <2>2, P3_Idles DEF P3_Inv, P3_PipeA, P3_PipeB, P3_Pipe
<1> QED BY <1>3, <1>5, <1>9, <1>10, <1>11, <1>12 DEF P3_Inv

LEMMA P3_VerifyStep ==
    ASSUME P3_Inv, errorFlag = 0, p3_goes("accumulator", "verify", "tell"),
           check(p3_sum = p3_expected),
           UNCHANGED <<p3_locals, p3_sems, p3_ring>>
    PROVE  P3_Inv' /\ errorFlag' = 0
<1> DEFINE t == "accumulator"
<1>1. t \in P3_Stages /\ t \in P3_Threads /\ "tell" \in P3_Positions
  BY DEF P3_Stages, P3_Threads, P3_Positions
<1>2. P3_Step(t, "verify", "tell") /\ p3_pc["main"] # "open"
  BY <1>1, P3_Goes
<1>3. /\ p3_i' = p3_i /\ p3_val' = p3_val /\ p3_sems' = p3_sems /\ p3_ring' = p3_ring
      /\ p3_sum' = p3_sum
  BY DEF p3_locals
<1>4. /\ p3_pc'["main"] = p3_pc["main"] /\ p3_pc[t] = "verify" /\ p3_pc'[t] = "tell"
      /\ \A u \in P3_Stages \ {t} : p3_pc'[u] = p3_pc[u]
  BY <1>2 DEF P3_Step, P3_Threads, P3_Stages
<1>5. SemsOK(p3_sems', P3_Sems, P3_Threads, P3_At, p3_pc')
  <2>1. /\ SemsOK(p3_sems, P3_Sems, P3_Threads, P3_At, p3_pc)
        /\ \A u \in P3_Threads : IsBlocked(p3_sems, u) => p3_pc'[u] = p3_pc[u]
    BY <1>2 DEF P3_Inv, P3_Step
  <2> QED BY <1>3, <2>1, SemsSame
<1>6. errorFlag' = 0
  <2>1. p3_val[t] = -1 /\ p3_sum \in Nat /\ P3_COUNT \in Nat
    BY <1>4, P3_Numbers DEF P3_Inv, P3_Acc, P3_TypeOK
  <2>2. 2 * p3_sum = 3 * (P3_COUNT * (P3_COUNT + 1))
    BY <2>1 DEF P3_Inv, P3_Acc, P3_Added
  <2>3. 3 * P3_COUNT * (P3_COUNT + 1) = 2 * p3_sum
    BY <2>1, <2>2
  <2>4. p3_expected = p3_sum
    BY <2>1, <2>3 DEF p3_expected
  <2> QED BY <2>4 DEF check
<1>7. P3_TypeOK'
  BY <1>2, <1>3 DEF P3_Inv, P3_TypeOK, P3_Step
<1>8. P3_Main' /\ P3_Gen' /\ P3_Trans'
  BY <1>3, <1>4 DEF P3_Inv, P3_Main, P3_Gen, P3_Trans, P3_In, P3_Stages
<1>9. P3_Acc'
  <2>1. P3_Added' = P3_Added
    BY <1>3, <1>4 DEF P3_Added, P3_Taken, P3_In
  <2> QED BY <1>3, <1>4, <2>1 DEF P3_Inv, P3_Acc, P3_Stages
<1>10. P3_PipeA' /\ P3_PipeB'
  <2>1. P3_Idle("generator") /\ P3_Idle("transformer")
    BY <1>3, <1>4 DEF P3_Idle, P3_Stages
  <2>2. /\ P3_Left(t)' = P3_Left(t) /\ P3_Freed(t)' = P3_Freed(t)
        /\ P3_Claimed(t)' = P3_Claimed(t)
    BY <1>3, <1>4 DEF P3_Left, P3_Freed, P3_Claimed, P3_Taken, P3_In
  <2> QED BY <1>3, <1>4, <2>1, <2>2, P3_Idles DEF P3_Inv, P3_PipeA, P3_PipeB, P3_Pipe
<1> QED BY <1>5, <1>6, <1>7, <1>8, <1>9, <1>10 DEF P3_Inv

-----------------------------------------------------------------------------
\* Main.

\* A thread whose last call was no wait() is not held back.
LEMMA P3_Free ==
    ASSUME P3_Inv, NEW t \in P3_Threads,
           p3_pc[t] \notin {"waitTail", "store", "waitHead", "take", "close"}
    PROVE  ~IsBlocked(p3_sems, t)
<1>1. \A s \in P3_Sems : <<t, p3_pc[t], s>> \notin P3_At
  BY DEF P3_At
<1> QED BY <1>1 DEF P3_Inv, SemsOK, IsBlocked

\* When main has waited for the accumulator, every stage is done.
LEMMA P3_AllDone ==
    ASSUME P3_Inv, \/ p3_pc["main"] = "close" /\ ~IsBlocked(p3_sems, "main")
                   \/ p3_pc["main"] = "returned"
    PROVE  \A t \in P3_Stages : p3_pc[t] = "done"
<1>1. p3_pc["accumulator"] = "done"
  <2>1. CASE p3_pc["main"] = "returned"
    BY <2>1 DEF P3_Inv, P3_Main
  <2>2. CASE p3_pc["main"] = "close" /\ ~IsBlocked(p3_sems, "main")
    <3>1. SemsOK(p3_sems, P3_Sems, P3_Threads, P3_At, p3_pc) /\ "p3_done" \in P3_Sems
      BY DEF P3_Inv, P3_Sems
    <3>2. \A t \in P3_Threads : t \notin Range(p3_sems["p3_done"].blocked)
      BY <2>2, <3>1 DEF SemsOK, P3_At, IsBlocked
    <3>3. p3_sems["p3_done"].value >= 0
      BY <3>1, <3>2, NobodyHeld
    <3> QED BY <2>2, <3>3 DEF P3_Inv, P3_Main, P3_In
  <2> QED BY <2>1, <2>2
<1>2. p3_pc["main"] # "open" /\ P3_COUNT \in Nat \ {0} /\ p3_i \in 0..(P3_COUNT + 1)
  BY P3_Numbers
<1>3. p3_pc["transformer"] = "done"
  <2>1. P3_Claimed("accumulator") = P3_COUNT + 1
    BY <1>1, <1>2 DEF P3_Inv, P3_Acc, P3_Claimed, P3_Taken, P3_In
  <2>2. P3_Claimed("accumulator") <= P3_Sent("transformer")
    BY <1>1, <1>2, P3_Queue
  <2>3. P3_Taken("transformer") = P3_COUNT + 1 /\ p3_pc["transformer"] \notin P3_Unsent
    BY <1>2, <2>1, <2>2, P3_Numbers DEF P3_Sent, P3_In
  <2> QED BY <1>2, <2>3, P3_Numbers DEF P3_Inv, P3_Trans
<1>4. p3_pc["generator"] = "done"
  <2>1. P3_Claimed("transformer") = P3_COUNT + 1
    BY <1>2, <1>3 DEF P3_Inv, P3_Trans, P3_Claimed, P3_Taken, P3_In
  <2>2. P3_Claimed("transformer") <= P3_Sent("generator")
    BY <1>2, <1>3, P3_Queue
  <2>3. p3_i = P3_COUNT + 1
    BY <1>2, <2>1, <2>2 DEF P3_Sent
  <2> QED BY <2>3 DEF P3_Inv, P3_Gen
<1> QED BY <1>1, <1>3, <1>4 DEF P3_Stages

LEMMA P3_AtStart ==
    ASSUME p3_i = 0, p3_val["transformer"] = 0, p3_val["accumulator"] = 0,
           \A t \in P3_Stages : p3_pc[t] = "unborn"
    PROVE  /\ \A t \in {"transformer", "accumulator"} :
                 P3_Left(t) = 0 /\ P3_Freed(t) = 0 /\ P3_Claimed(t) = 0
           /\ \A t \in {"generator", "transformer"} :
                 P3_Sent(t) = 0 /\ P3_Reserved(t) = 0 /\ P3_Stored(t) = 0 /\ P3_Moved(t) = 0
<1>1. P3_Taken("transformer") = 0 /\ P3_Taken("accumulator") = 0
  BY DEF P3_Taken
<1>2. \A t \in P3_Stages :
          /\ P3_In(t, {"moveHead"}) = 0 /\ P3_In(t, {"moveHead", "freeHead", "signalSpace"}) = 0
          /\ P3_In(t, {"waitHead", "take"}) = 0 /\ P3_In(t, P3_Unsent) = 0
          /\ P3_In(t, P3_Putting) = 0 /\ P3_In(t, {"moveTail", "freeTail", "signalItem"}) = 0
          /\ P3_In(t, {"freeTail", "signalItem"}) = 0
  BY DEF P3_In, P3_Unsent, P3_Putting
<1>3. \A t \in {"transformer", "accumulator"} :
          P3_Left(t) = 0 /\ P3_Freed(t) = 0 /\ P3_Claimed(t) = 0
  BY <1>1, <1>2 DEF P3_Left, P3_Freed, P3_Claimed, P3_Stages
<1>4. P3_Sent("generator") = 0 /\ P3_Sent("transformer") = 0
  BY <1>1, <1>2 DEF P3_Sent, P3_Stages
<1> QED BY <1>2, <1>3, <1>4 DEF P3_Reserved, P3_Stored, P3_Moved, P3_Stages

LEMMA P3_OpenStep ==
    ASSUME P3_Inv, errorFlag = 0, p3_open
    PROVE  P3_Inv' /\ errorFlag' = 0
<1>1. /\ p3_pc["main"] = "open" /\ p3_goes("main", "open", "createAccumulator")
      /\ p3_sems' = [s \in P3_Sems |-> sem_open(CASE s \in {"p3a_spaces", "p3b_spaces"} -> P3_PIPE_CAP
                                                   [] s \in {"p3a_mut", "p3b_mut"} -> 1
                                                   [] OTHER -> 0)]
      /\ UNCHANGED <<p3_i, p3_val, p3_sum, p3_ring, errorFlag>>
      /\ "main" \in P3_Threads /\ "createAccumulator" \in P3_Positions
  BY DEF p3_open, p3_goes, p3_locals, P3_Threads, P3_Positions
<1>2. P3_Step("main", "open", "createAccumulator")
  BY <1>1, P3_Goes
<1>3. P3_COUNT \in Nat \ {0} /\ P3_PIPE_CAP \in Nat \ {0}
  BY P3_Numbers
<1>4. /\ DOMAIN p3_sems' = P3_Sems
      /\ p3_sems' = [s \in P3_Sems |-> p3_sems'[s]]
      /\ p3_sems'["p3a_spaces"] = sem_open(P3_PIPE_CAP)
      /\ p3_sems'["p3b_spaces"] = sem_open(P3_PIPE_CAP)
      /\ p3_sems'["p3a_mut"] = sem_open(1) /\ p3_sems'["p3b_mut"] = sem_open(1)
      /\ p3_sems'["p3a_items"] = sem_open(0) /\ p3_sems'["p3b_items"] = sem_open(0)
      /\ p3_sems'["p3_done"] = sem_open(0)
  BY <1>1 DEF P3_Sems
<1>5. SemsOK(p3_sems', P3_Sems, P3_Threads, P3_At, p3_pc')
  <2>1. \A s \in P3_Sems : \E n \in Nat : p3_sems'[s] = sem_open(n)
    BY <1>3, <1>4 DEF P3_Sems
  <2> QED BY <1>4, <2>1, SemsOpened
<1>6. /\ p3_pc'["main"] = "createAccumulator" /\ p3_pc["main"] = "open"
      /\ \A t \in P3_Stages : p3_pc[t] = "unborn" /\ p3_pc'[t] = "unborn"
  BY <1>2 DEF P3_Inv, P3_Gen, P3_Trans, P3_Acc, P3_Step, P3_Stages, P3_Threads
<1>7. P3_TypeOK'
  BY <1>1, <1>2, <1>5 DEF P3_Inv, P3_TypeOK, P3_Step, SemsOK
<1>8. P3_Main'
  BY <1>4, <1>6 DEF P3_Main, P3_In, sem_open, P3_Stages
<1>9. P3_Gen' /\ P3_Trans' /\ P3_Acc'
  <2>1. P3_Added' = P3_Added
    BY <1>1, <1>6 DEF P3_Added, P3_Taken, P3_In, P3_Stages
  <2> QED BY <1>1, <1>6, <2>1 DEF P3_Inv, P3_Gen, P3_Trans, P3_Acc, P3_Stages
<1>10. \A t \in P3_Stages : P3_Idle(t)
  BY <1>1, <1>6 DEF P3_Idle
<1>11. p3_i = 0 /\ p3_val["transformer"] = 0 /\ p3_val["accumulator"] = 0
  BY <1>6 DEF P3_Inv, P3_Gen, P3_Trans, P3_Acc, P3_Stages
<1>12. P3_PipeA' /\ P3_PipeB'
  <2>1. \A t \in P3_Stages :
            /\ P3_Left(t)' = P3_Left(t) /\ P3_Moved(t)' = P3_Moved(t) /\ P3_Stored(t)' = P3_Stored(t)
            /\ P3_Freed(t)' = P3_Freed(t) /\ P3_Claimed(t)' = P3_Claimed(t)
            /\ P3_Sent(t)' = P3_Sent(t) /\ P3_Reserved(t)' = P3_Reserved(t)
    BY <1>10, P3_Idles
  <2>2. /\ P3_Freed("transformer") = 0 /\ P3_Claimed("transformer") = 0
        /\ P3_Freed("accumulator") = 0 /\ P3_Claimed("accumulator") = 0
        /\ P3_Sent("generator") = 0 /\ P3_Reserved("generator") = 0
        /\ P3_Sent("transformer") = 0 /\ P3_Reserved("transformer") = 0
    BY <1>6, <1>11, P3_AtStart
  <2>3. /\ p3_sems'["p3a_spaces"].value = P3_PIPE_CAP /\ p3_sems'["p3b_spaces"].value = P3_PIPE_CAP
        /\ p3_sems'["p3a_items"].value = 0 /\ p3_sems'["p3b_items"].value = 0
    BY <1>4 DEF sem_open
  <2> QED
    BY <1>1, <1>3, <2>1, <2>2, <2>3 DEF P3_Inv, P3_PipeA, P3_PipeB, P3_Pipe, P3_Stages
<1> QED BY <1>1, <1>5, <1>7, <1>8, <1>9, <1>12 DEF P3_Inv

LEMMA P3_CreateStep ==
    ASSUME P3_Inv, errorFlag = 0, NEW t \in P3_Stages, NEW from, NEW first, NEW to,
           p3_create(t, from, first, to),
           \/ /\ t = "accumulator" /\ from = "createAccumulator" /\ first = "waitItem"
              /\ to = "createTransformer"
           \/ /\ t = "transformer" /\ from = "createTransformer" /\ first = "waitItem"
              /\ to = "createGenerator"
           \/ /\ t = "generator" /\ from = "createGenerator" /\ first = "waitSpace"
              /\ to = "await"
    PROVE  P3_Inv' /\ errorFlag' = 0
<1>1. /\ p3_pc["main"] = from
      /\ p3_pc' = [p3_pc EXCEPT !["main"] = to, ![t] = first]
      /\ UNCHANGED <<p3_i, p3_val, p3_sum, p3_sems, p3_ring, errorFlag>>
      /\ "main" \in P3_Threads /\ t \in P3_Threads /\ t # "main"
      /\ to \in P3_Positions /\ first \in P3_Positions
      /\ p3_pc \in [P3_Threads -> P3_Positions]
  BY DEF p3_create, p3_locals, P3_Threads, P3_Stages, P3_Positions, P3_Inv, P3_TypeOK
<1>2. /\ p3_pc'["main"] = to /\ p3_pc'[t] = first
      /\ \A u \in P3_Threads \ {"main", t} : p3_pc'[u] = p3_pc[u]
      /\ p3_pc' \in [P3_Threads -> P3_Positions]
  BY <1>1
<1>3. p3_pc[t] = "unborn" /\ p3_pc["main"] = from
  BY <1>1 DEF P3_Inv, P3_Gen, P3_Trans, P3_Acc
<1>4. SemsOK(p3_sems', P3_Sems, P3_Threads, P3_At, p3_pc')
  <2>1. ~IsBlocked(p3_sems, "main") /\ ~IsBlocked(p3_sems, t)
    BY <1>1, <1>3, P3_Free
  <2>2. \A u \in P3_Threads : IsBlocked(p3_sems, u) => p3_pc'[u] = p3_pc[u]
    BY <1>2, <2>1
  <2>3. SemsOK(p3_sems, P3_Sems, P3_Threads, P3_At, p3_pc) /\ p3_sems' = p3_sems
    BY <1>1 DEF P3_Inv
  <2> QED BY <2>2, <2>3, SemsSame
<1>5. P3_TypeOK'
  BY <1>1, <1>2 DEF P3_Inv, P3_TypeOK
<1>6. \A u \in P3_Stages \ {t} : p3_pc'[u] = p3_pc[u]
  BY <1>2 DEF P3_Stages, P3_Threads
<1>7. P3_Main' /\ P3_Gen' /\ P3_Trans'
  <2>1. P3_Main'
    BY <1>1, <1>2, <1>3, <1>6 DEF P3_Inv, P3_Main, P3_In, P3_Stages
  <2>2. P3_Gen'
    BY <1>1, <1>2, <1>3, <1>6 DEF P3_Inv, P3_Gen, P3_Stages
  <2>3. P3_Trans'
    BY <1>1, <1>2, <1>3, <1>6 DEF P3_Inv, P3_Trans, P3_Stages, P3_Unsent, P3_Putting
  <2> QED BY <2>1, <2>2, <2>3
<1>8. P3_Acc'
  <2>1. P3_Added' = P3_Added
    BY <1>1, <1>2, <1>3, <1>6 DEF P3_Added, P3_Taken, P3_In, P3_Stages
  <2> QED BY <1>1, <1>2, <1>3, <1>6, <2>1 DEF P3_Inv, P3_Acc, P3_Stages
<1>9. /\ P3_Left("transformer")' = P3_Left("transformer")
      /\ P3_Freed("transformer")' = P3_Freed("transformer")
      /\ P3_Claimed("transformer")' = P3_Claimed("transformer")
      /\ P3_Left("accumulator")' = P3_Left("accumulator")
      /\ P3_Freed("accumulator")' = P3_Freed("accumulator")
      /\ P3_Claimed("accumulator")' = P3_Claimed("accumulator")
      /\ P3_Sent("generator")' = P3_Sent("generator")
      /\ P3_Reserved("generator")' = P3_Reserved("generator")
      /\ P3_Stored("generator")' = P3_Stored("generator")
      /\ P3_Moved("generator")' = P3_Moved("generator")
      /\ P3_Sent("transformer")' = P3_Sent("transformer")
      /\ P3_Reserved("transformer")' = P3_Reserved("transformer")
      /\ P3_Stored("transformer")' = P3_Stored("transformer")
      /\ P3_Moved("transformer")' = P3_Moved("transformer")
  BY <1>1, <1>2, <1>3, <1>6
     DEF P3_Left, P3_Freed, P3_Claimed, P3_Sent, P3_Reserved, P3_Stored, P3_Moved, P3_Taken, P3_In,
         P3_Stages, P3_Unsent, P3_Putting
<1>10. P3_PipeA' /\ P3_PipeB'
  <2>1. p3_pc["main"] # "open"
    BY <1>3
  <2> QED BY <1>1, <1>9, <2>1 DEF P3_Inv, P3_PipeA, P3_PipeB, P3_Pipe
<1> QED BY <1>1, <1>4, <1>5, <1>7, <1>8, <1>10 DEF P3_Inv

LEMMA P3_EndStep ==
    ASSUME P3_Inv, errorFlag = 0, p3_await \/ p3_close
    PROVE  P3_Inv' /\ errorFlag' = 0
<1>1. PICK from, to \in P3_Positions :
        /\ p3_goes("main", from, to)
        /\ UNCHANGED <<p3_i, p3_val, p3_sum, p3_ring, errorFlag>>
        /\ \/ from = "await" /\ to = "close" /\ p3_sems' = sem_wait(p3_sems, "p3_done", "main")
           \/ from = "close" /\ to = "returned" /\ p3_sems' = sem_close(p3_sems)
  BY DEF p3_await, p3_close, p3_wait, p3_locals, P3_Positions
<1>2. P3_Step("main", from, to) /\ "main" \in P3_Threads
  BY <1>1, P3_Goes DEF P3_Threads
<1>3. /\ p3_pc["main"] = from /\ p3_pc'["main"] = to /\ ~IsBlocked(p3_sems, "main")
      /\ \A t \in P3_Stages : p3_pc'[t] = p3_pc[t]
  BY <1>2 DEF P3_Step, P3_Threads, P3_Stages
<1>4. SemsOK(p3_sems, P3_Sems, P3_Threads, P3_At, p3_pc)
  BY DEF P3_Inv
<1>5. /\ SemsOK(p3_sems', P3_Sems, P3_Threads, P3_At, p3_pc')
      /\ \A s \in P3_Sems \ {"p3_done"} : p3_sems'[s] = p3_sems[s]
      /\ p3_sems'["p3_done"].value =
             P3_In("accumulator", {"done"}) - 1
      /\ to = "returned" => p3_pc["accumulator"] = "done"
  <2>1. CASE from = "await"
    <3>1. <<"main", p3_pc'["main"], "p3_done">> \in P3_At /\ "p3_done" \in P3_Sems
      BY <1>1, <1>3, <2>1 DEF P3_At, P3_Sems
    <3>2. \A u \in P3_Threads \ {"main"} : p3_pc'[u] = p3_pc[u]
      BY <1>2 DEF P3_Step
    <3>3. p3_sems' = sem_wait(p3_sems, "p3_done", "main")
      BY <1>1, <2>1
    <3>4. /\ SemsOK(p3_sems', P3_Sems, P3_Threads, P3_At, p3_pc')
          /\ \A s \in P3_Sems \ {"p3_done"} : p3_sems'[s] = p3_sems[s]
          /\ p3_sems'["p3_done"].value = p3_sems["p3_done"].value - 1
      BY <1>2, <1>3, <1>4, <3>1, <3>2, <3>3, SemsWait
    <3>5. p3_sems["p3_done"].value = P3_In("accumulator", {"done"})
      BY <1>3, <2>1 DEF P3_Inv, P3_Main, P3_In
    <3> QED BY <1>1, <2>1, <3>4, <3>5
  <2>2. CASE from = "close"
    <3>1. \A t \in P3_Stages : p3_pc[t] = "done"
      BY <1>3, <2>2, P3_AllDone
    <3>2. \A t \in P3_Threads : ~IsBlocked(p3_sems, t)
      BY <1>3, <3>1, P3_Free DEF P3_Threads
    <3>3. p3_sems' = sem_close(p3_sems)
      BY <1>1, <2>2
    <3>4. p3_sems' = p3_sems
      BY <1>4, <3>2, <3>3, SemsClosed
    <3>5. SemsOK(p3_sems', P3_Sems, P3_Threads, P3_At, p3_pc')
      BY <1>4, <3>2, <3>4, SemsSame
    <3>6. p3_sems["p3_done"].value = P3_In("accumulator", {"done"}) - 1
      BY <1>3, <2>2 DEF P3_Inv, P3_Main, P3_In
    <3> QED BY <3>1, <3>4, <3>5, <3>6 DEF P3_Stages
  <2> QED BY <1>1, <2>1, <2>2
<1>6. P3_TypeOK'
  BY <1>1, <1>2, <1>5 DEF P3_Inv, P3_TypeOK, P3_Step, SemsOK
<1>7. P3_Main'
  BY <1>1, <1>3, <1>5 DEF P3_Main, P3_In, P3_Stages
<1>8. P3_Gen' /\ P3_Trans' /\ P3_Acc'
  <2>1. P3_Added' = P3_Added
    BY <1>1, <1>3 DEF P3_Added, P3_Taken, P3_In, P3_Stages
  <2> QED BY <1>1, <1>3, <2>1 DEF P3_Inv, P3_Gen, P3_Trans, P3_Acc, P3_Stages
<1>9. P3_PipeA' /\ P3_PipeB'
  <2>1. \A t \in P3_Stages : P3_Idle(t)
    BY <1>1, <1>3 DEF P3_Idle
  <2>2. \A t \in P3_Stages :
            /\ P3_Left(t)' = P3_Left(t) /\ P3_Moved(t)' = P3_Moved(t) /\ P3_Stored(t)' = P3_Stored(t)
            /\ P3_Freed(t)' = P3_Freed(t) /\ P3_Claimed(t)' = P3_Claimed(t)
            /\ P3_Sent(t)' = P3_Sent(t) /\ P3_Reserved(t)' = P3_Reserved(t)
    BY <2>1, P3_Idles
  <2>3. p3_ring' = p3_ring /\ p3_pc["main"] # "open"
    BY <1>1, <1>3
  <2>4. \A s \in {"p3a_spaces", "p3a_items", "p3b_spaces", "p3b_items"} : p3_sems'[s] = p3_sems[s]
    BY <1>5 DEF P3_Sems
  <2> QED BY <2>2, <2>3, <2>4 DEF P3_Inv, P3_PipeA, P3_PipeB, P3_Pipe, P3_Stages
<1> QED BY <1>1, <1>5, <1>6, <1>7, <1>8, <1>9 DEF P3_Inv

-----------------------------------------------------------------------------
LEMMA P3_InvInit == P3_Init => P3_Inv
<1> SUFFICES ASSUME P3_Init PROVE P3_Inv
  OBVIOUS
<1>1. P3_COUNT \in Nat \ {0} /\ P3_PIPE_CAP \in Nat \ {0}
  BY P3_Assumption
<1>2. /\ p3_pc["main"] = "open" /\ \A t \in P3_Stages : p3_pc[t] = "unborn" /\ p3_val[t] = 0
      /\ p3_pc \in [P3_Threads -> P3_Positions] /\ p3_val \in [P3_Threads -> Int]
      /\ p3_i = 0 /\ p3_sum = 0
  BY DEF P3_Init, P3_Threads, P3_Stages, P3_Positions
<1>3. SemsOK(p3_sems, P3_Sems, P3_Threads, P3_At, p3_pc)
  <2>1. DOMAIN p3_sems = P3_Sems /\ p3_sems = [s \in P3_Sems |-> p3_sems[s]]
        /\ \A s \in P3_Sems : p3_sems[s] = sem_open(0)
    BY DEF P3_Init
  <2> QED BY <2>1, SemsOpened
<1>4. /\ RingHolds(p3_ring["p3a"], P3_PIPE_CAP, 0, 0, 0, P3_ItemA)
      /\ RingHolds(p3_ring["p3b"], P3_PIPE_CAP, 0, 0, 0, P3_ItemB)
  BY <1>1, RingEmpty DEF P3_Init, P3_Pipes
<1>5. P3_TypeOK
  <2>1. p3_ring \in [P3_Pipes -> Rings(P3_PIPE_CAP)]
    BY <1>4 DEF P3_Init, RingHolds, P3_Pipes
  <2> QED BY <1>1, <1>2, <1>3, <2>1 DEF P3_TypeOK, SemsOK
<1>6. P3_Main /\ P3_Gen /\ P3_Trans /\ P3_Acc
  <2>1. P3_Added = 0
    BY <1>2 DEF P3_Added, P3_Taken, P3_In, P3_Stages
  <2>2. 0 \in 0..P3_COUNT /\ 0 # P3_COUNT + 1 /\ 0 = 3 * 0
    BY <1>1
  <2> QED BY <1>2, <2>1, <2>2 DEF P3_Main, P3_Gen, P3_Trans, P3_Acc, P3_Stages, P3_Unsent, P3_Putting
<1>7. P3_PipeA /\ P3_PipeB
  <2>1. /\ P3_Left("transformer") = 0 /\ P3_Moved("generator") = 0 /\ P3_Stored("generator") = 0
        /\ P3_Left("accumulator") = 0 /\ P3_Moved("transformer") = 0
        /\ P3_Stored("transformer") = 0
    <3>1. "transformer" \in P3_Stages /\ "accumulator" \in P3_Stages
      BY DEF P3_Stages
    <3> QED BY <1>2, <3>1, P3_AtStart
  <2> QED BY <1>2, <1>4, <2>1 DEF P3_PipeA, P3_PipeB, P3_Pipe
<1> QED BY <1>3, <1>5, <1>6, <1>7 DEF P3_Inv

LEMMA P3_PutStep ==
    ASSUME P3_Inv, errorFlag = 0,
           NEW t, NEW pipe, NEW spaces, NEW mut, NEW items, NEW val, NEW i, NEW to,
           p3_pipePut(t, pipe, spaces, mut, items, val, i, to),
           \/ /\ t = "generator" /\ pipe = "p3a" /\ spaces = "p3a_spaces" /\ mut = "p3a_mut"
              /\ items = "p3a_items" /\ i = p3_i + 1
              /\ val = IF p3_i < P3_COUNT THEN p3_i + 1 ELSE -1
              /\ to = IF p3_i < P3_COUNT THEN "waitSpace" ELSE "done"
           \/ /\ t = "transformer" /\ pipe = "p3b" /\ spaces = "p3b_spaces" /\ mut = "p3b_mut"
              /\ items = "p3b_items" /\ i = p3_i
              /\ val = IF p3_val["transformer"] = -1 THEN -1 ELSE 3 * p3_val["transformer"]
              /\ to = IF p3_val["transformer"] = -1 THEN "done" ELSE "waitItem"
    PROVE  P3_Inv' /\ errorFlag' = 0
<1>1. t \in P3_Stages /\ {spaces, mut, items} \subseteq P3_Sems
  BY DEF P3_Stages, P3_Sems
<1>2. CASE /\ \/ p3_wait(t, "waitSpace", spaces, "waitTail")
              \/ p3_wait(t, "waitTail", mut, "store")
           /\ UNCHANGED <<p3_locals, p3_ring, errorFlag>>
  BY <1>1, <1>2, P3_WaitStep
<1>3. CASE p3_signal(t, "freeTail", mut, "signalItem") /\ UNCHANGED <<p3_locals, p3_ring, errorFlag>>
  <2>1. mut # "p3a_items" /\ UNCHANGED <<p3_i, p3_val, p3_sum, p3_ring, errorFlag>>
    BY <1>3 DEF p3_locals
  <2> QED BY <1>1, <1>3, <2>1, P3_SignalStep
<1>4. CASE /\ p3_goes(t, "store", "moveTail")
           /\ p3_ring' = [p3_ring EXCEPT ![pipe] = Stored(@, val)]
           /\ UNCHANGED <<p3_locals, p3_sems, errorFlag>>
  BY <1>4, P3_StoreStep
<1>5. CASE /\ p3_goes(t, "moveTail", "freeTail")
           /\ p3_ring' = [p3_ring EXCEPT ![pipe] = TailMoved(@, P3_PIPE_CAP)]
           /\ UNCHANGED <<p3_locals, p3_sems, errorFlag>>
  BY <1>5, P3_TailStep
<1>6. CASE /\ p3_signal(t, "signalItem", items, to)
           /\ p3_i' = i
           /\ UNCHANGED <<p3_val, p3_sum, p3_ring, errorFlag>>
  BY <1>1, <1>6, P3_SignalStep
<1> QED BY <1>2, <1>3, <1>4, <1>5, <1>6 DEF p3_pipePut

LEMMA P3_GetStep ==
    ASSUME P3_Inv, errorFlag = 0,
           NEW t, NEW pipe, NEW items, NEW mut, NEW spaces, NEW to,
           p3_pipeGet(t, pipe, items, mut, spaces, to),
           \/ /\ t = "transformer" /\ pipe = "p3a" /\ spaces = "p3a_spaces" /\ mut = "p3a_mut"
              /\ items = "p3a_items" /\ to = "waitSpace"
           \/ /\ t = "accumulator" /\ pipe = "p3b" /\ spaces = "p3b_spaces" /\ mut = "p3b_mut"
              /\ items = "p3b_items"
              /\ to = IF p3_val["accumulator"] = -1 THEN "verify" ELSE "add"
    PROVE  P3_Inv' /\ errorFlag' = 0
<1>1. t \in P3_Stages /\ {spaces, mut, items} \subseteq P3_Sems
  BY DEF P3_Stages, P3_Sems
<1>2. CASE /\ \/ p3_wait(t, "waitItem", items, "waitHead")
              \/ p3_wait(t, "waitHead", mut, "take")
           /\ UNCHANGED <<p3_locals, p3_ring, errorFlag>>
  BY <1>1, <1>2, P3_WaitStep
<1>3. CASE /\ \/ p3_signal(t, "freeHead", mut, "signalSpace")
              \/ p3_signal(t, "signalSpace", spaces, to)
           /\ UNCHANGED <<p3_locals, p3_ring, errorFlag>>
  <2>1. mut # "p3a_items" /\ spaces # "p3a_items"
        /\ UNCHANGED <<p3_i, p3_val, p3_sum, p3_ring, errorFlag>>
    BY <1>3 DEF p3_locals
  <2> QED BY <1>1, <1>3, <2>1, P3_SignalStep
<1>4. CASE /\ p3_goes(t, "take", "moveHead")
           /\ p3_val' = [p3_val EXCEPT ![t] = Oldest(p3_ring[pipe])]
           /\ UNCHANGED <<p3_i, p3_sum, p3_sems, p3_ring, errorFlag>>
  BY <1>4, P3_TakeStep
<1>5. CASE /\ p3_goes(t, "moveHead", "freeHead")
           /\ p3_ring' = [p3_ring EXCEPT ![pipe] = HeadMoved(@, P3_PIPE_CAP)]
           /\ UNCHANGED <<p3_locals, p3_sems, errorFlag>>
  BY <1>5, P3_HeadStep
<1> QED BY <1>2, <1>3, <1>4, <1>5 DEF p3_pipeGet

LEMMA P3_InvNext ==
    ASSUME P3_Inv, errorFlag = 0, P3_Next
    PROVE  P3_Inv' /\ errorFlag' = 0
<1>1. CASE runPhase3
  BY <1>1, P3_OpenStep, P3_CreateStep, P3_EndStep DEF runPhase3, P3_Stages
<1>2. CASE p3_generator
  BY <1>2, P3_PutStep DEF p3_generator
<1>3. CASE p3_transformer
  BY <1>3, P3_PutStep, P3_GetStep DEF p3_transformer
<1>4. CASE p3_accumulator
  <2>1. CASE p3_pipeGet("accumulator", "p3b", "p3b_items", "p3b_mut", "p3b_spaces",
                        IF p3_val["accumulator"] = -1 THEN "verify" ELSE "add")
    BY <2>1, P3_GetStep
  <2>2. CASE /\ p3_goes("accumulator", "add", "waitItem")
             /\ p3_sum' = p3_sum + p3_val["accumulator"]
             /\ UNCHANGED <<p3_i, p3_val, p3_sems, p3_ring, errorFlag>>
    BY <2>2, P3_AddStep
  <2>3. CASE /\ p3_goes("accumulator", "verify", "tell")
             /\ check(p3_sum = p3_expected)
             /\ UNCHANGED <<p3_locals, p3_sems, p3_ring>>
    BY <2>3, P3_VerifyStep
  <2>4. CASE /\ p3_signal("accumulator", "tell", "p3_done", "done")
             /\ UNCHANGED <<p3_locals, p3_ring, errorFlag>>
    BY <2>4, P3_SignalStep DEF P3_Stages, P3_Sems, p3_locals
  <2> QED BY <1>4, <2>1, <2>2, <2>3, <2>4 DEF p3_accumulator
<1> QED BY <1>1, <1>2, <1>3, <1>4 DEF P3_Next

LEMMA P3_InvUnchanged == P3_Inv /\ UNCHANGED p3_vars => P3_Inv'
<1> SUFFICES ASSUME P3_Inv, UNCHANGED p3_vars PROVE P3_Inv'
  OBVIOUS
<1>1. /\ p3_pc' = p3_pc /\ p3_i' = p3_i /\ p3_val' = p3_val /\ p3_sum' = p3_sum
      /\ p3_sems' = p3_sems /\ p3_ring' = p3_ring
  BY DEF p3_vars, p3_locals
<1>2. \A t : P3_Idle(t)
  BY <1>1 DEF P3_Idle
<1>3. P3_PipeA' /\ P3_PipeB'
  BY <1>1, <1>2, P3_Idles DEF P3_Inv, P3_PipeA, P3_PipeB, P3_Pipe
<1>4. P3_Added' = P3_Added
  BY <1>1, <1>2, P3_Idles DEF P3_Added, P3_In
<1> QED BY <1>1, <1>3, <1>4 DEF P3_Inv, P3_TypeOK, P3_Main, P3_Gen, P3_Trans, P3_Acc, P3_In

LEMMA P3_InvSafe == P3_Inv => P3_TypeOK /\ P3_NothingIsUsedAfterClose
<1> SUFFICES ASSUME P3_Inv PROVE P3_NothingIsUsedAfterClose
  BY DEF P3_Inv
<1>1. CASE p3_pc["main"] = "returned"
  BY <1>1, P3_AllDone DEF P3_NothingIsUsedAfterClose
<1>2. CASE p3_pc["main"] = "open"
  BY <1>2 DEF P3_Inv, P3_Gen, P3_Trans, P3_Acc, P3_NothingIsUsedAfterClose, P3_Stages
<1> QED BY <1>1, <1>2 DEF P3_NothingIsUsedAfterClose

-----------------------------------------------------------------------------
\* Phase 3: the pipes are FIFO buffers.

\* The items between the last one stored and the last one taken.
P3_Shown(pipe, putter, getter) ==
    Contents(p3_ring[pipe], P3_PIPE_CAP, P3_Stored(putter) - P3_Taken(getter),
             p3_pc[getter] = "moveHead")

\* Before main opens the semaphores none has a value.
P3_Early ==
    p3_pc["main"] = "open" =>
        p3_sems["p3a_items"].value = 0 /\ p3_sems["p3b_items"].value = 0

\* What a step makes of the items in a pipe.
P3_Same(pipe, putter, getter) ==
    /\ P3_Shown(pipe, putter, getter)' = P3_Shown(pipe, putter, getter)
    /\ p3_val'[getter] = p3_val[getter]
P3_Puts(pipe, putter, getter, v) ==
    /\ Len(P3_Shown(pipe, putter, getter)) < P3_PIPE_CAP
    /\ P3_Shown(pipe, putter, getter)' = AddedTo(P3_Shown(pipe, putter, getter), v)
    /\ p3_val'[getter] = p3_val[getter]
P3_Gets(pipe, putter, getter) ==
    /\ P3_Shown(pipe, putter, getter) # <<>>
    /\ p3_val'[getter] = Head(P3_Shown(pipe, putter, getter))
    /\ P3_Shown(pipe, putter, getter)' = Tail(P3_Shown(pipe, putter, getter))

P3_SameA == P3_Same("p3a", "generator", "transformer")
P3_SameB == P3_Same("p3b", "transformer", "accumulator")

LEMMA P3_ContentsAre ==
    P3_Inv /\ P3_Early =>
        /\ p3a_contents = P3_Shown("p3a", "generator", "transformer")
        /\ p3b_contents = P3_Shown("p3b", "transformer", "accumulator")
<1> SUFFICES ASSUME P3_Inv, P3_Early
             PROVE  /\ p3_held("p3a_items", "generator", "transformer") =
                           P3_Stored("generator") - P3_Taken("transformer")
                    /\ p3_held("p3b_items", "transformer", "accumulator") =
                           P3_Stored("transformer") - P3_Taken("accumulator")
  BY DEF p3a_contents, p3b_contents, P3_Shown
<1>1. CASE p3_pc["main"] = "open"
  <2>1. \A t \in P3_Stages : p3_pc[t] = "unborn"
    BY <1>1 DEF P3_Inv, P3_Gen, P3_Trans, P3_Acc, P3_Stages
  <2>2. p3_i = 0 /\ p3_val["transformer"] = 0 /\ p3_val["accumulator"] = 0
    BY <2>1 DEF P3_Inv, P3_Gen, P3_Trans, P3_Acc, P3_Stages
  <2>3. /\ P3_Stored("generator") = 0 /\ P3_Taken("transformer") = 0
        /\ P3_Stored("transformer") = 0 /\ P3_Taken("accumulator") = 0
    BY <2>1, <2>2 DEF P3_Stored, P3_Sent, P3_Taken, P3_In, P3_Stages, P3_Unsent, P3_Putting
  <2> QED BY <1>1, <2>1, <2>3 DEF p3_held, One, P3_Early, P3_Stages
<1>2. CASE p3_pc["main"] # "open"
  <2>1. ASSUME NEW items, NEW putter \in P3_Stages, NEW getter \in P3_Stages \ {"generator"},
               p3_sems[items].value = P3_Sent(putter) - P3_Claimed(getter)
        PROVE  p3_held(items, putter, getter) = P3_Stored(putter) - P3_Taken(getter)
    <3>1. P3_Sent(putter) \in Int /\ P3_Taken(getter) \in Int
      BY P3_Ints
    <3> QED BY <2>1, <3>1 DEF p3_held, One, P3_Stored, P3_Claimed, P3_In
  <2>2. /\ p3_sems["p3a_items"].value = P3_Sent("generator") - P3_Claimed("transformer")
        /\ p3_sems["p3b_items"].value = P3_Sent("transformer") - P3_Claimed("accumulator")
    BY <1>2 DEF P3_Inv, P3_PipeA, P3_PipeB, P3_Pipe
  <2> QED BY <2>1, <2>2 DEF P3_Stages
<1> QED BY <1>1, <1>2

LEMMA P3_ContentsThen ==
    (P3_Inv /\ P3_Early =>
        /\ p3a_contents = P3_Shown("p3a", "generator", "transformer")
        /\ p3b_contents = P3_Shown("p3b", "transformer", "accumulator"))'
BY P3_ContentsAre, PTL

\* Stages that stay where they are show nothing, nor do the ends of the ring.
LEMMA P3_Quietly ==
    ASSUME NEW pipe, NEW putter, NEW getter,
           P3_Stored(putter)' = P3_Stored(putter), P3_Taken(getter)' = P3_Taken(getter),
           p3_val'[getter] = p3_val[getter],
           p3_ring'[pipe].buf = p3_ring[pipe].buf,
           \/ /\ p3_ring'[pipe].head = p3_ring[pipe].head
              /\ p3_pc'[getter] = "moveHead" <=> p3_pc[getter] = "moveHead"
           \/ /\ p3_ring'[pipe].head = Following(p3_ring[pipe].head, P3_PIPE_CAP)
              /\ p3_pc[getter] = "moveHead" /\ p3_pc'[getter] # "moveHead"
    PROVE  P3_Same(pipe, putter, getter)
BY DEF P3_Same, P3_Shown, Contents

\* The two pipes, when nobody stores or takes.
LEMMA P3_QuietStep ==
    ASSUME P3_Inv, NEW t \in P3_Stages, NEW from, NEW to, P3_Step(t, from, to),
           UNCHANGED <<p3_val, p3_ring>>,
           p3_i' = p3_i + (IF t = "generator" /\ from = "signalItem" THEN 1 ELSE 0),
           from \notin {"store", "take", "moveTail", "moveHead"},
           to \notin {"moveTail", "moveHead"},
           from = "unborn" => t # "generator",
           to = "signalItem" => from = "freeTail",
           to = "freeTail" => FALSE,
           from = "freeTail" => to = "signalItem",
           t = "transformer" => (to \in P3_Unsent <=> from \in P3_Unsent \ {"signalItem"})
    PROVE  P3_SameA /\ P3_SameB
<1>1. /\ p3_pc[t] = from /\ p3_pc'[t] = to
      /\ \A u \in P3_Stages \ {t} : p3_pc'[u] = p3_pc[u]
  BY DEF P3_Step, P3_Stages, P3_Threads
<1>2. /\ P3_Taken("transformer")' = P3_Taken("transformer")
      /\ P3_Taken("accumulator")' = P3_Taken("accumulator")
      /\ P3_Taken("transformer") \in Int /\ p3_i \in Int
  BY P3_Numbers DEF P3_Taken
<1>3. P3_Stored("generator")' = P3_Stored("generator")
  BY <1>1, <1>2 DEF P3_Stored, P3_Sent, P3_In, P3_Stages
<1>4. P3_Stored("transformer")' = P3_Stored("transformer")
  BY <1>1, <1>2 DEF P3_Stored, P3_Sent, P3_In, P3_Stages, P3_Unsent, P3_Putting
<1>5. \A u \in P3_Stages : p3_pc'[u] = "moveHead" <=> p3_pc[u] = "moveHead"
  BY <1>1
<1>6. P3_SameA
  BY <1>2, <1>3, <1>5, P3_Quietly DEF P3_SameA, P3_Stages
<1>7. P3_SameB
  BY <1>2, <1>4, <1>5, P3_Quietly DEF P3_SameB, P3_Stages
<1> QED BY <1>6, <1>7

LEMMA P3_PutShows ==
    ASSUME P3_Inv,
           NEW t, NEW pipe, NEW spaces, NEW mut, NEW items, NEW val, NEW i, NEW to, NEW getter,
           p3_pipePut(t, pipe, spaces, mut, items, val, i, to),
           \/ /\ t = "generator" /\ pipe = "p3a" /\ spaces = "p3a_spaces" /\ mut = "p3a_mut"
              /\ items = "p3a_items" /\ i = p3_i + 1
              /\ val = IF p3_i < P3_COUNT THEN p3_i + 1 ELSE -1
              /\ to = IF p3_i < P3_COUNT THEN "waitSpace" ELSE "done"
              /\ getter = "transformer"
           \/ /\ t = "transformer" /\ pipe = "p3b" /\ spaces = "p3b_spaces" /\ mut = "p3b_mut"
              /\ items = "p3b_items" /\ i = p3_i
              /\ val = IF p3_val["transformer"] = -1 THEN -1 ELSE 3 * p3_val["transformer"]
              /\ to = IF p3_val["transformer"] = -1 THEN "done" ELSE "waitItem"
              /\ getter = "accumulator"
    PROVE  /\ P3_Same(pipe, t, getter) \/ P3_Puts(pipe, t, getter, val)
           /\ t = "generator" => P3_SameB
           /\ t = "transformer" => P3_SameA
           /\ p3_pc'["main"] # "open"
<1>1. /\ t \in P3_Stages /\ t \in P3_Threads /\ t # "main" /\ pipe \in P3_Pipes
      /\ getter \in P3_Stages \ {"generator", t} /\ "main" \in P3_Threads
  BY DEF P3_Stages, P3_Threads, P3_Pipes
<1>2. ASSUME NEW from, NEW next \in P3_Positions, p3_goes(t, from, next), from # "unborn"
      PROVE  /\ P3_Step(t, from, next) /\ p3_pc["main"] # "open" /\ p3_pc'["main"] # "open"
             /\ p3_pc[t] = from /\ p3_pc'[t] = next
             /\ \A u \in P3_Stages \ {t} : p3_pc'[u] = p3_pc[u]
  BY <1>1, <1>2, P3_Goes DEF P3_Step, P3_Threads, P3_Stages
<1>3. ASSUME NEW from, NEW next \in P3_Positions, p3_goes(t, from, next),
             UNCHANGED <<p3_val, p3_ring>>,
             \/ from = "waitSpace" /\ next = "waitTail" /\ p3_i' = p3_i
             \/ from = "waitTail" /\ next = "store" /\ p3_i' = p3_i
             \/ from = "freeTail" /\ next = "signalItem" /\ p3_i' = p3_i
             \/ from = "signalItem" /\ next = to /\ p3_i' = i
      PROVE  P3_SameA /\ P3_SameB /\ p3_pc'["main"] # "open"
  <2>1. P3_Step(t, from, next) /\ p3_pc'["main"] # "open"
    BY <1>2, <1>3
  <2>2. /\ p3_i' = p3_i + (IF t = "generator" /\ from = "signalItem" THEN 1 ELSE 0)
        /\ from \notin {"store", "take", "moveTail", "moveHead"}
        /\ next \notin {"moveTail", "moveHead", "freeTail"}
        /\ from = "unborn" => t # "generator"
        /\ next = "signalItem" => from = "freeTail"
        /\ from = "freeTail" => next = "signalItem"
        /\ t = "transformer" => (next \in P3_Unsent <=> from \in P3_Unsent \ {"signalItem"})
    BY <1>3, P3_Numbers DEF P3_Unsent, P3_Putting
  <2> QED BY <1>1, <1>3, <2>1, <2>2, P3_QuietStep
<1>4. {"waitTail", "store", "moveTail", "freeTail", "signalItem", to} \subseteq P3_Positions
  BY DEF P3_Positions
<1>5. P3_SameA /\ P3_SameB =>
          /\ P3_Same(pipe, t, getter)
          /\ t = "generator" => P3_SameB
          /\ t = "transformer" => P3_SameA
  BY DEF P3_SameA, P3_SameB
<1>6. CASE /\ \/ p3_wait(t, "waitSpace", spaces, "waitTail")
              \/ p3_wait(t, "waitTail", mut, "store")
              \/ p3_signal(t, "freeTail", mut, "signalItem")
           /\ UNCHANGED <<p3_locals, p3_ring, errorFlag>>
  BY <1>3, <1>4, <1>5, <1>6 DEF p3_wait, p3_signal, p3_locals
<1>7. CASE /\ p3_signal(t, "signalItem", items, to)
           /\ p3_i' = i
           /\ UNCHANGED <<p3_val, p3_sum, p3_ring, errorFlag>>
  BY <1>3, <1>4, <1>5, <1>7 DEF p3_signal
<1>8. CASE /\ p3_goes(t, "moveTail", "freeTail")
           /\ p3_ring' = [p3_ring EXCEPT ![pipe] = TailMoved(@, P3_PIPE_CAP)]
           /\ UNCHANGED <<p3_locals, p3_sems, errorFlag>>
  <2>1. /\ p3_pc'["main"] # "open" /\ p3_pc[t] = "moveTail" /\ p3_pc'[t] = "freeTail"
        /\ \A u \in P3_Stages \ {t} : p3_pc'[u] = p3_pc[u]
    BY <1>2, <1>4, <1>8
  <2>2. /\ p3_i' = p3_i /\ p3_val' = p3_val
        /\ p3_ring'[pipe] = TailMoved(p3_ring[pipe], P3_PIPE_CAP)
        /\ \A p \in P3_Pipes \ {pipe} : p3_ring'[p] = p3_ring[p]
        /\ p3_ring[pipe] \in Rings(P3_PIPE_CAP)
    BY <1>1, <1>8 DEF p3_locals, P3_Inv, P3_TypeOK
  <2>3. P3_PIPE_CAP \in Nat \ {0}
    BY P3_Numbers
  <2>4. /\ p3_ring'[pipe].buf = p3_ring[pipe].buf
        /\ p3_ring'[pipe].head = p3_ring[pipe].head
    BY <2>2, <2>3, RingParts DEF TailMoved
  <2>5. /\ \A u \in P3_Stages : P3_Stored(u)' = P3_Stored(u) /\ P3_Taken(u)' = P3_Taken(u)
        /\ \A u \in P3_Stages : p3_pc'[u] = "moveHead" <=> p3_pc[u] = "moveHead"
    BY <2>1, <2>2 DEF P3_Stored, P3_Sent, P3_Taken, P3_In, P3_Unsent, P3_Putting
  <2>6. P3_Same(pipe, t, getter)
    BY <1>1, <2>2, <2>4, <2>5, P3_Quietly
  <2>7. t = "generator" => P3_SameB
    BY <2>2, <2>5, P3_Quietly DEF P3_SameB, P3_Stages, P3_Pipes
  <2>8. t = "transformer" => P3_SameA
    BY <2>2, <2>5, P3_Quietly DEF P3_SameA, P3_Stages, P3_Pipes
  <2> QED BY <2>1, <2>6, <2>7, <2>8
<1>9. CASE /\ p3_goes(t, "store", "moveTail")
           /\ p3_ring' = [p3_ring EXCEPT ![pipe] = Stored(@, val)]
           /\ UNCHANGED <<p3_locals, p3_sems, errorFlag>>
  <2>1. /\ p3_pc["main"] # "open" /\ p3_pc'["main"] # "open"
        /\ p3_pc[t] = "store" /\ p3_pc'[t] = "moveTail"
        /\ \A u \in P3_Stages \ {t} : p3_pc'[u] = p3_pc[u]
    BY <1>2, <1>4, <1>9
  <2>2. /\ p3_i' = p3_i /\ p3_val' = p3_val
        /\ p3_ring'[pipe] = Stored(p3_ring[pipe], val)
        /\ \A p \in P3_Pipes \ {pipe} : p3_ring'[p] = p3_ring[p]
    BY <1>1, <1>9 DEF p3_locals, P3_Inv, P3_TypeOK
  <2>3. P3_PIPE_CAP \in Nat \ {0} /\ P3_COUNT \in Nat \ {0} /\ val \in Int
    BY P3_Numbers DEF P3_Inv, P3_TypeOK, P3_Threads, P3_Stages
  <2> DEFINE g == P3_Left(getter)
  <2> DEFINE p == P3_Stored(t)
  <2>4. /\ P3_Moved(t) = p /\ p \in Nat /\ g \in Nat
        /\ P3_Reserved(t) = p + 1 /\ P3_Freed(getter) <= g /\ P3_Freed(getter) \in Int
    BY <2>1, P3_Numbers
       DEF P3_Left, P3_Stored, P3_Moved, P3_Reserved, P3_Freed, P3_Sent, P3_In, P3_Putting, P3_Unsent,
           P3_Inv, P3_Trans, P3_Acc
  <2>5. p + 1 <= g + P3_PIPE_CAP
    <3>1. P3_Reserved(t) <= P3_PIPE_CAP + P3_Freed(getter)
      BY <2>1, P3_Queue
    <3> QED BY <2>3, <2>4, <3>1
  <2>6. PICK item : RingHolds(p3_ring[pipe], P3_PIPE_CAP, g, p, p, item)
    BY <2>4 DEF P3_Inv, P3_PipeA, P3_PipeB, P3_Pipe
  <2>7. PICK taken \in BOOLEAN : taken = (p3_pc[getter] = "moveHead")
    OBVIOUS
  <2>7a. One(taken) = P3_In(getter, {"moveHead"})
    BY <2>7 DEF One, P3_In
  <2> DEFINE n == p - P3_Taken(getter)
  <2> DEFINE n2 == n + 1
  <2>8. P3_Taken(getter) = g + One(taken) /\ P3_Taken(getter) \in Nat /\ One(taken) \in 0..1
    <3>1. P3_Taken(getter) \in Nat
      BY P3_Numbers
    <3>2. g = P3_Taken(getter) - One(taken) /\ One(taken) \in 0..1
      BY <2>7a DEF P3_Left, One
    <3> QED BY <3>1, <3>2
  <2>9. /\ P3_Stored(t)' = p + 1 /\ P3_Taken(getter)' = P3_Taken(getter)
        /\ taken = (p3_pc'[getter] = "moveHead")
    <3>1. P3_Taken(getter)' = P3_Taken(getter) /\ p3_pc'[getter] = p3_pc[getter]
      BY <1>1, <2>1, <2>2 DEF P3_Taken
    <3>2. P3_Sent(t)' = P3_Sent(t) /\ P3_Sent(t) \in Int
      BY <1>1, <2>1, <2>2, P3_Ints DEF P3_Sent, P3_Taken, P3_In, P3_Unsent, P3_Putting
    <3>3. P3_Stored(t)' = P3_Stored(t) + 1
      BY <2>1, <3>2 DEF P3_Stored, P3_In
    <3> QED BY <2>7, <3>1, <3>3
  <2>10. n \in Nat
    <3>1. P3_Taken(getter) <= p
      <4>1. CASE taken
        <5>1. P3_Claimed(getter) <= P3_Sent(t)
          BY <1>1, <2>1, <2>7, <4>1, P3_Queue DEF P3_Stages
        <5>2. P3_Claimed(getter) = P3_Taken(getter) /\ P3_Sent(t) = p
          <6>1. p3_pc[getter] \notin {"waitHead", "take"} /\ P3_Sent(t) \in Int
            BY <1>1, <2>7, <4>1, P3_Ints
          <6> QED BY <2>1, <2>8, <6>1 DEF P3_Claimed, P3_Stored, P3_In
        <5> QED BY <5>1, <5>2
      <4>2. CASE ~taken
        BY <2>4, <2>6, <2>8, <4>2 DEF One, RingHolds
      <4> QED BY <4>1, <4>2
    <3> QED BY <2>4, <2>8, <3>1
  <2>11. n2 \in Nat /\ n2 = n + 1 /\ n + One(taken) = p - g
    <3>1. n2 \in Nat /\ n2 = n + 1
      BY <2>10
    <3> HIDE DEF g, p
    <3> QED BY <2>4, <2>8, <3>1 DEF n
  <2>12. P3_Shown(pipe, t, getter) = Contents(p3_ring[pipe], P3_PIPE_CAP, n, taken)
    BY <2>7, Zenon DEF P3_Shown
  <2>13. P3_Shown(pipe, t, getter)' = Contents(Stored(p3_ring[pipe], val), P3_PIPE_CAP, n2, taken)
    <3>1. P3_Stored(t)' - P3_Taken(getter)' = n2
      BY <2>4, <2>8, <2>9
    <3> QED BY <2>2, <2>9, <3>1, Zenon DEF P3_Shown
  <2> HIDE DEF g, p, n, n2
  <2>14. /\ Len(Contents(p3_ring[pipe], P3_PIPE_CAP, n, taken)) < P3_PIPE_CAP
         /\ Contents(Stored(p3_ring[pipe], val), P3_PIPE_CAP, n2, taken) =
                AddedTo(Contents(p3_ring[pipe], P3_PIPE_CAP, n, taken), val)
    BY <2>3, <2>4, <2>5, <2>6, <2>10, <2>11, ContentsStored
  <2>15. P3_Puts(pipe, t, getter, val)
    BY <2>2, <2>12, <2>13, <2>14 DEF P3_Puts
  <2>16. t = "generator" => P3_SameB
    <3>1. t = "generator" => /\ P3_Stored("transformer")' = P3_Stored("transformer")
                             /\ P3_Taken("accumulator")' = P3_Taken("accumulator")
                             /\ p3_pc'["accumulator"] = p3_pc["accumulator"]
                             /\ p3_ring'["p3b"] = p3_ring["p3b"]
      BY <2>1, <2>2 DEF P3_Stored, P3_Sent, P3_Taken, P3_In, P3_Stages, P3_Pipes
    <3> QED BY <2>2, <3>1, P3_Quietly DEF P3_SameB
  <2>17. t = "transformer" => P3_SameA
    <3>1. t = "transformer" => /\ P3_Stored("generator")' = P3_Stored("generator")
                               /\ P3_Taken("transformer")' = P3_Taken("transformer")
                               /\ p3_pc'["transformer"] # "moveHead"
                               /\ p3_pc["transformer"] # "moveHead"
                               /\ p3_ring'["p3a"] = p3_ring["p3a"]
      BY <2>1, <2>2 DEF P3_Stored, P3_Sent, P3_Taken, P3_In, P3_Stages, P3_Pipes
    <3> QED BY <2>2, <3>1, P3_Quietly DEF P3_SameA
  <2> QED BY <2>1, <2>15, <2>16, <2>17
<1> QED BY <1>6, <1>7, <1>8, <1>9 DEF p3_pipePut

LEMMA P3_GetShows ==
    ASSUME P3_Inv,
           NEW t, NEW pipe, NEW items, NEW mut, NEW spaces, NEW to, NEW putter,
           p3_pipeGet(t, pipe, items, mut, spaces, to),
           \/ /\ t = "transformer" /\ pipe = "p3a" /\ spaces = "p3a_spaces" /\ mut = "p3a_mut"
              /\ items = "p3a_items" /\ to = "waitSpace" /\ putter = "generator"
           \/ /\ t = "accumulator" /\ pipe = "p3b" /\ spaces = "p3b_spaces" /\ mut = "p3b_mut"
              /\ items = "p3b_items" /\ putter = "transformer"
              /\ to = IF p3_val["accumulator"] = -1 THEN "verify" ELSE "add"
    PROVE  /\ P3_Same(pipe, putter, t) \/ P3_Gets(pipe, putter, t)
           /\ t = "transformer" => P3_SameB
           /\ t = "accumulator" => P3_SameA
           /\ p3_pc'["main"] # "open"
<1>1. /\ t \in P3_Stages /\ t \in P3_Threads /\ t # "main" /\ pipe \in P3_Pipes
      /\ putter \in P3_Stages \ {t} /\ "main" \in P3_Threads
  BY DEF P3_Stages, P3_Threads, P3_Pipes
<1>2. ASSUME NEW from, NEW next \in P3_Positions, p3_goes(t, from, next), from # "unborn"
      PROVE  /\ P3_Step(t, from, next) /\ p3_pc["main"] # "open" /\ p3_pc'["main"] # "open"
             /\ p3_pc[t] = from /\ p3_pc'[t] = next
             /\ \A u \in P3_Stages \ {t} : p3_pc'[u] = p3_pc[u]
  BY <1>1, <1>2, P3_Goes DEF P3_Step, P3_Threads, P3_Stages
<1>3. P3_SameA /\ P3_SameB =>
          /\ P3_Same(pipe, putter, t)
          /\ t = "transformer" => P3_SameB
          /\ t = "accumulator" => P3_SameA
  BY DEF P3_SameA, P3_SameB
<1>4. CASE /\ \/ p3_wait(t, "waitItem", items, "waitHead")
              \/ p3_wait(t, "waitHead", mut, "take")
              \/ p3_signal(t, "freeHead", mut, "signalSpace")
              \/ p3_signal(t, "signalSpace", spaces, to)
           /\ UNCHANGED <<p3_locals, p3_ring, errorFlag>>
  <2>1. PICK from, next \in P3_Positions :
          /\ p3_goes(t, from, next)
          /\ \/ from = "waitItem" /\ next = "waitHead"
             \/ from = "waitHead" /\ next = "take"
             \/ from = "freeHead" /\ next = "signalSpace"
             \/ from = "signalSpace" /\ next = to
    BY <1>4 DEF p3_wait, p3_signal, P3_Positions
  <2>2. /\ P3_Step(t, from, next) /\ p3_pc'["main"] # "open"
        /\ p3_i' = p3_i /\ UNCHANGED <<p3_val, p3_ring>>
    BY <1>2, <1>4, <2>1 DEF p3_locals
  <2>3. /\ p3_i' = p3_i + (IF t = "generator" /\ from = "signalItem" THEN 1 ELSE 0)
        /\ from \notin {"store", "take", "moveTail", "moveHead"}
        /\ next \notin {"moveTail", "moveHead", "freeTail", "signalItem"}
        /\ from \notin {"unborn", "freeTail"}
        /\ t = "transformer" => (next \in P3_Unsent <=> from \in P3_Unsent \ {"signalItem"})
    BY <2>1, <2>2, P3_Numbers DEF P3_Unsent, P3_Putting
  <2>4. P3_SameA /\ P3_SameB
    BY <1>1, <2>2, <2>3, P3_QuietStep
  <2> QED BY <1>3, <2>2, <2>4
<1>5. CASE /\ p3_goes(t, "moveHead", "freeHead")
           /\ p3_ring' = [p3_ring EXCEPT ![pipe] = HeadMoved(@, P3_PIPE_CAP)]
           /\ UNCHANGED <<p3_locals, p3_sems, errorFlag>>
  <2>1. /\ p3_pc'["main"] # "open" /\ p3_pc[t] = "moveHead" /\ p3_pc'[t] = "freeHead"
        /\ \A u \in P3_Stages \ {t} : p3_pc'[u] = p3_pc[u]
    BY <1>2, <1>5 DEF P3_Positions
  <2>2. /\ p3_i' = p3_i /\ p3_val' = p3_val
        /\ p3_ring'[pipe] = HeadMoved(p3_ring[pipe], P3_PIPE_CAP)
        /\ \A p \in P3_Pipes \ {pipe} : p3_ring'[p] = p3_ring[p]
        /\ p3_ring[pipe] \in Rings(P3_PIPE_CAP)
    BY <1>1, <1>5 DEF p3_locals, P3_Inv, P3_TypeOK
  <2>3. P3_PIPE_CAP \in Nat \ {0}
    BY P3_Numbers
  <2>4. /\ p3_ring'[pipe].buf = p3_ring[pipe].buf
        /\ p3_ring'[pipe].head = Following(p3_ring[pipe].head, P3_PIPE_CAP)
    BY <2>2, <2>3, RingParts DEF HeadMoved
  <2>5. \A u \in P3_Stages : P3_Stored(u)' = P3_Stored(u) /\ P3_Taken(u)' = P3_Taken(u)
    BY <2>1, <2>2 DEF P3_Stored, P3_Sent, P3_Taken, P3_In, P3_Unsent, P3_Putting
  <2>6. P3_Same(pipe, putter, t)
    BY <1>1, <2>1, <2>2, <2>4, <2>5, P3_Quietly
  <2>7. t = "transformer" => P3_SameB
    BY <2>1, <2>2, <2>5, P3_Quietly DEF P3_SameB, P3_Stages, P3_Pipes
  <2>8. t = "accumulator" => P3_SameA
    BY <2>1, <2>2, <2>5, P3_Quietly DEF P3_SameA, P3_Stages, P3_Pipes
  <2> QED BY <2>1, <2>6, <2>7, <2>8
<1>6. CASE /\ p3_goes(t, "take", "moveHead")
           /\ p3_val' = [p3_val EXCEPT ![t] = Oldest(p3_ring[pipe])]
           /\ UNCHANGED <<p3_i, p3_sum, p3_sems, p3_ring, errorFlag>>
  <2>1. /\ p3_pc["main"] # "open" /\ p3_pc'["main"] # "open"
        /\ p3_pc[t] = "take" /\ p3_pc'[t] = "moveHead" /\ P3_Step(t, "take", "moveHead")
        /\ \A u \in P3_Stages \ {t} : p3_pc'[u] = p3_pc[u]
    BY <1>2, <1>6 DEF P3_Positions
  <2>2. /\ P3_Taken(t)' = P3_Taken(t) + 1
        /\ \A u \in P3_Threads \ {t} : p3_val'[u] = p3_val[u]
        /\ P3_Taken(t) \in 0..P3_COUNT
    BY <1>6, <2>1, P3_NextTaken
  <2>3. /\ p3_i' = p3_i /\ p3_ring' = p3_ring /\ p3_val'[t] = Oldest(p3_ring[pipe])
        /\ p3_ring[pipe] \in Rings(P3_PIPE_CAP)
    BY <1>1, <1>6 DEF P3_Inv, P3_TypeOK
  <2>4. P3_PIPE_CAP \in Nat \ {0} /\ P3_COUNT \in Nat \ {0}
    BY P3_Numbers
  <2>5. /\ P3_Stored(putter)' = P3_Stored(putter)
        /\ P3_Stored(putter) \in Nat
    <3>1. P3_Taken(putter)' = P3_Taken(putter) /\ p3_pc'[putter] = p3_pc[putter]
      BY <1>1, <2>1, <2>2 DEF P3_Taken, P3_Threads
    <3>2. P3_Sent(putter)' = P3_Sent(putter)
      BY <2>3, <3>1 DEF P3_Sent, P3_In
    <3>3. P3_Sent(putter) \in Nat
      BY P3_Numbers DEF P3_Sent, P3_In
    <3> QED BY <3>1, <3>2, <3>3 DEF P3_Stored, P3_In
  <2> DEFINE p == P3_Stored(putter)
  <2> DEFINE g == P3_Taken(t)
  <2>6. /\ P3_Left(t) = g /\ P3_Claimed(t) = g + 1 /\ g \in Nat
        /\ P3_Sent(putter) <= p /\ P3_Sent(putter) \in Int
    <3>1. P3_Sent(putter) \in Int
      BY <1>1, P3_Ints
    <3> QED BY <2>1, <2>2, <2>4, <3>1 DEF P3_Left, P3_Claimed, P3_In, P3_Stored
  <2>7. g + 1 <= p
    <3>1. P3_Claimed(t) <= P3_Sent(putter)
      BY <2>1, P3_Queue
    <3> QED BY <2>5, <2>6, <3>1
  <2>8. p <= g + P3_PIPE_CAP
    BY <2>6 DEF P3_Inv, P3_PipeA, P3_PipeB, P3_Pipe, RingHolds
  <2> DEFINE n == p - g - 1
  <2> HIDE DEF p, g
  <2>9. n \in Nat /\ n + 1 = p - g /\ n + 1 <= P3_PIPE_CAP
    BY <2>4, <2>5, <2>6, <2>7, <2>8 DEF p
  <2>10. P3_Shown(pipe, putter, t) = Contents(p3_ring[pipe], P3_PIPE_CAP, n + 1, FALSE)
    BY <2>1, <2>9 DEF P3_Shown, Contents, p, g
  <2>11. P3_Shown(pipe, putter, t)' = Contents(p3_ring[pipe], P3_PIPE_CAP, n, TRUE)
    <3>1. P3_Stored(putter)' - P3_Taken(t)' = n
      BY <2>2, <2>5, <2>6, <2>9 DEF p, g
    <3> QED BY <2>1, <2>3, <3>1 DEF P3_Shown, Contents
  <2> HIDE DEF n
  <2>12. /\ Contents(p3_ring[pipe], P3_PIPE_CAP, n + 1, FALSE) # <<>>
         /\ Oldest(p3_ring[pipe]) = Head(Contents(p3_ring[pipe], P3_PIPE_CAP, n + 1, FALSE))
         /\ Contents(p3_ring[pipe], P3_PIPE_CAP, n, TRUE) =
                Tail(Contents(p3_ring[pipe], P3_PIPE_CAP, n + 1, FALSE))
    BY <2>3, <2>4, <2>9, ContentsTaken
  <2>13. P3_Gets(pipe, putter, t)
    BY <2>3, <2>10, <2>11, <2>12 DEF P3_Gets
  <2>14. t = "transformer" => P3_SameB
    <3>1. t = "transformer" => /\ P3_Stored("transformer")' = P3_Stored("transformer")
                               /\ P3_Taken("accumulator")' = P3_Taken("accumulator")
                               /\ p3_pc'["accumulator"] = p3_pc["accumulator"]
                               /\ p3_val'["accumulator"] = p3_val["accumulator"]
      BY <2>1, <2>2, <2>4 DEF P3_Stored, P3_Sent, P3_In, P3_Taken, P3_Unsent, P3_Putting, P3_Stages, P3_Threads
    <3> QED BY <2>3, <3>1, P3_Quietly DEF P3_SameB
  <2>15. t = "accumulator" => P3_SameA
    <3>1. t = "accumulator" => /\ P3_Stored("generator")' = P3_Stored("generator")
                               /\ P3_Taken("transformer")' = P3_Taken("transformer")
                               /\ p3_pc'["transformer"] = p3_pc["transformer"]
                               /\ p3_val'["transformer"] = p3_val["transformer"]
      BY <2>1, <2>2, <2>3 DEF P3_Stored, P3_Sent, P3_In, P3_Taken, P3_Stages, P3_Threads
    <3> QED BY <2>3, <3>1, P3_Quietly DEF P3_SameA
  <2> QED BY <2>1, <2>13, <2>14, <2>15
<1> QED BY <1>4, <1>5, <1>6 DEF p3_pipeGet

\* The steps at no pipe.
LEMMA P3_OtherShows ==
    ASSUME P3_Inv, UNCHANGED <<p3_val, p3_ring, p3_i>>,
           \/ p3_goes("accumulator", "add", "waitItem")
           \/ p3_goes("accumulator", "verify", "tell")
           \/ p3_goes("accumulator", "tell", "done")
    PROVE  P3_SameA /\ P3_SameB /\ p3_pc'["main"] # "open"
<1>1. "accumulator" \in P3_Stages /\ "accumulator" \in P3_Threads
  BY DEF P3_Stages, P3_Threads
<1>2. PICK from, to \in P3_Positions :
        /\ p3_goes("accumulator", from, to)
        /\ from \in {"add", "verify", "tell"} /\ to \in {"waitItem", "tell", "done"}
  BY DEF P3_Positions
<1>3. P3_Step("accumulator", from, to) /\ p3_pc["main"] # "open"
  BY <1>1, <1>2, P3_Goes
<1>4. p3_i' = p3_i + 0 /\ p3_i + 0 = p3_i
  BY P3_Numbers
<1>5. P3_SameA /\ P3_SameB
  BY <1>1, <1>2, <1>3, <1>4, P3_QuietStep
<1> QED BY <1>3, <1>5 DEF P3_Step, P3_Threads

LEMMA P3_MainShows ==
    ASSUME P3_Inv, runPhase3
    PROVE  /\ P3_SameA /\ P3_SameB /\ p3_pc'["main"] # "open"
<1>1. p3_pc \in [P3_Threads -> P3_Positions] /\ "main" \in P3_Threads /\ P3_Stages \subseteq P3_Threads
      /\ "main" \notin P3_Stages
  BY DEF P3_Inv, P3_TypeOK, P3_Threads, P3_Stages
<1>2. UNCHANGED <<p3_i, p3_val, p3_ring>>
  BY DEF runPhase3, p3_open, p3_create, p3_await, p3_close, p3_locals
<1>3. /\ p3_pc'["main"] # "open"
      /\ \A u \in P3_Stages :
            \/ p3_pc'[u] = p3_pc[u]
            \/ p3_pc[u] = "unborn" /\ u = "generator" /\ p3_pc'[u] = "waitSpace"
            \/ p3_pc[u] = "unborn" /\ u # "generator" /\ p3_pc'[u] = "waitItem"
  <2>1. CASE p3_open \/ p3_await \/ p3_close
    <3>1. PICK from, to : p3_goes("main", from, to) /\ to # "open"
      BY <2>1 DEF p3_open, p3_await, p3_close, p3_wait
    <3> QED BY <1>1, <3>1 DEF p3_goes
  <2>2. CASE p3_create("accumulator", "createAccumulator", "waitItem", "createTransformer")
    BY <1>1, <2>2 DEF p3_create, P3_Inv, P3_Acc, P3_Stages
  <2>3. CASE p3_create("transformer", "createTransformer", "waitItem", "createGenerator")
    BY <1>1, <2>3 DEF p3_create, P3_Inv, P3_Trans, P3_Stages
  <2>4. CASE p3_create("generator", "createGenerator", "waitSpace", "await")
    BY <1>1, <2>4 DEF p3_create, P3_Inv, P3_Gen, P3_Stages
  <2> QED BY <2>1, <2>2, <2>3, <2>4 DEF runPhase3
<1>4. \A u \in P3_Stages : /\ P3_Stored(u)' = P3_Stored(u) /\ P3_Taken(u)' = P3_Taken(u)
                           /\ p3_pc'[u] = "moveHead" <=> p3_pc[u] = "moveHead"
  BY <1>2, <1>3 DEF P3_Stored, P3_Sent, P3_Taken, P3_In, P3_Unsent, P3_Putting
<1>5. P3_SameA
  BY <1>2, <1>4, P3_Quietly DEF P3_SameA, P3_Stages
<1>6. P3_SameB
  BY <1>2, <1>4, P3_Quietly DEF P3_SameB, P3_Stages
<1> QED BY <1>3, <1>5, <1>6

\* What a step makes of the items in the two pipes.
P3_PutsA(v) ==
    /\ Len(p3a_contents) < P3_PIPE_CAP
    /\ p3a_contents' = Append(p3a_contents, v)
    /\ p3_val'["transformer"] = p3_val["transformer"]
P3_GetsA ==
    /\ p3a_contents # <<>>
    /\ p3_val'["transformer"] = Head(p3a_contents)
    /\ p3a_contents' = Tail(p3a_contents)
P3_ShowsNothingA ==
    p3a_contents' = p3a_contents /\ p3_val'["transformer"] = p3_val["transformer"]
P3_PutsB(v) ==
    /\ Len(p3b_contents) < P3_PIPE_CAP
    /\ p3b_contents' = Append(p3b_contents, v)
    /\ p3_val'["accumulator"] = p3_val["accumulator"]
P3_GetsB ==
    /\ p3b_contents # <<>>
    /\ p3_val'["accumulator"] = Head(p3b_contents)
    /\ p3b_contents' = Tail(p3b_contents)
P3_ShowsNothingB ==
    p3b_contents' = p3b_contents /\ p3_val'["accumulator"] = p3_val["accumulator"]

LEMMA P3_EarlyInit ==
    P3_Init => /\ P3_Early /\ p3a_contents = <<>> /\ p3b_contents = <<>>
               /\ p3_val["transformer"] = 0 /\ p3_val["accumulator"] = 0
<1> SUFFICES ASSUME P3_Init
             PROVE  /\ P3_Early /\ p3a_contents = <<>> /\ p3b_contents = <<>>
                    /\ p3_val["transformer"] = 0 /\ p3_val["accumulator"] = 0
  OBVIOUS
<1>1. /\ \A s \in P3_Sems : p3_sems[s].value = 0
      /\ \A t \in P3_Stages : p3_pc[t] = "unborn" /\ p3_val[t] = 0
  BY DEF P3_Init, sem_open, P3_Stages, P3_Threads
<1>2. /\ p3_held("p3a_items", "generator", "transformer") = 0
      /\ p3_held("p3b_items", "transformer", "accumulator") = 0
  BY <1>1 DEF p3_held, One, P3_Sems, P3_Stages
<1>3. p3a_contents = <<>> /\ p3b_contents = <<>>
  BY <1>2, ContentsNone DEF p3a_contents, p3b_contents
<1> QED BY <1>1, <1>3 DEF P3_Early, P3_Sems, P3_Stages

LEMMA P3_EarlyNext ==
    ASSUME P3_Inv, P3_Early, P3_Next, P3_Inv'
    PROVE  /\ \/ \E v \in 1..P3_COUNT \union {-1} : P3_PutsA(v)
              \/ P3_GetsA
              \/ P3_ShowsNothingA
           /\ \/ \E v \in {3 * i : i \in 1..P3_COUNT} \union {-1} : P3_PutsB(v)
              \/ P3_GetsB
              \/ P3_ShowsNothingB
           /\ P3_Early'
<1> DEFINE sentA == IF p3_i < P3_COUNT THEN p3_i + 1 ELSE -1
<1> DEFINE sentB == IF p3_val["transformer"] = -1 THEN -1 ELSE 3 * p3_val["transformer"]
<1> DEFINE StepA == \/ P3_SameA
                    \/ P3_Puts("p3a", "generator", "transformer", sentA)
                    \/ P3_Gets("p3a", "generator", "transformer")
<1> DEFINE StepB == \/ P3_SameB
                    \/ P3_Puts("p3b", "transformer", "accumulator", sentB)
                       /\ sentB \in {3 * i : i \in 1..P3_COUNT} \union {-1}
                    \/ P3_Gets("p3b", "transformer", "accumulator")
<1>1. StepA /\ StepB /\ p3_pc'["main"] # "open"
  <2>1. CASE runPhase3
    BY <2>1, P3_MainShows
  <2>2. CASE p3_generator
    <3>1. \/ P3_Same("p3a", "generator", "transformer")
          \/ P3_Puts("p3a", "generator", "transformer", sentA)
      BY <2>2, P3_PutShows DEF p3_generator
    <3>2. P3_SameB /\ p3_pc'["main"] # "open"
      BY <2>2, P3_PutShows DEF p3_generator
    <3> QED BY <3>1, <3>2 DEF P3_SameA
  <2>3. CASE p3_transformer
    <3>1. CASE p3_pipeGet("transformer", "p3a", "p3a_items", "p3a_mut", "p3a_spaces", "waitSpace")
      BY <3>1, P3_GetShows DEF P3_SameA
    <3>2. CASE p3_pipePut("transformer", "p3b", "p3b_spaces", "p3b_mut", "p3b_items", sentB, p3_i,
                          IF p3_val["transformer"] = -1 THEN "done" ELSE "waitItem")
      <4>1. /\ \/ P3_Same("p3b", "transformer", "accumulator")
               \/ P3_Puts("p3b", "transformer", "accumulator", sentB)
            /\ P3_SameA /\ p3_pc'["main"] # "open"
        BY <3>2, P3_PutShows
      <4>2. p3_pc["transformer"] \in P3_Unsent
        BY <3>2 DEF p3_pipePut, p3_wait, p3_signal, p3_goes, P3_Unsent, P3_Putting
      <4>3. p3_val["transformer"] \in 1..P3_COUNT \union {-1}
        BY <4>2, P3_Numbers DEF P3_Inv, P3_Trans
      <4> QED BY <4>1, <4>3 DEF P3_SameB
    <3> QED BY <2>3, <3>1, <3>2 DEF p3_transformer
  <2>4. CASE p3_accumulator
    <3>1. CASE p3_pipeGet("accumulator", "p3b", "p3b_items", "p3b_mut", "p3b_spaces",
                          IF p3_val["accumulator"] = -1 THEN "verify" ELSE "add")
      BY <3>1, P3_GetShows DEF P3_SameB
    <3>2. CASE ~p3_pipeGet("accumulator", "p3b", "p3b_items", "p3b_mut", "p3b_spaces",
                           IF p3_val["accumulator"] = -1 THEN "verify" ELSE "add")
      BY <2>4, <3>2, P3_OtherShows DEF p3_accumulator, p3_signal, p3_locals
    <3> QED BY <3>1, <3>2
  <2> QED BY <2>1, <2>2, <2>3, <2>4 DEF P3_Next
<1>2. P3_Early'
  BY <1>1 DEF P3_Early
<1>3. /\ p3a_contents = P3_Shown("p3a", "generator", "transformer")
      /\ p3b_contents = P3_Shown("p3b", "transformer", "accumulator")
      /\ p3a_contents' = P3_Shown("p3a", "generator", "transformer")'
      /\ p3b_contents' = P3_Shown("p3b", "transformer", "accumulator")'
  BY <1>2, P3_ContentsAre, P3_ContentsThen
<1>4. sentA \in 1..P3_COUNT \union {-1}
  BY P3_Numbers
<1> HIDE DEF sentA, sentB
<1>5. \/ \E v \in 1..P3_COUNT \union {-1} : P3_PutsA(v)
      \/ P3_GetsA
      \/ P3_ShowsNothingA
  BY <1>1, <1>3, <1>4
     DEF P3_SameA, P3_Same, P3_Puts, P3_Gets, P3_PutsA, P3_GetsA, P3_ShowsNothingA, AddedTo
<1>6. \/ \E v \in {3 * i : i \in 1..P3_COUNT} \union {-1} : P3_PutsB(v)
      \/ P3_GetsB
      \/ P3_ShowsNothingB
  BY <1>1, <1>3
     DEF P3_SameB, P3_Same, P3_Puts, P3_Gets, P3_PutsB, P3_GetsB, P3_ShowsNothingB, AddedTo
<1> QED BY <1>2, <1>5, <1>6

LEMMA P3_EarlyUnchanged ==
    ASSUME P3_Early, UNCHANGED p3_vars
    PROVE  P3_ShowsNothingA /\ P3_ShowsNothingB /\ P3_Early'
<1>1. UNCHANGED <<p3_pc, p3_val, p3_sems, p3_ring>>
  BY DEF p3_vars, p3_locals
<1> QED BY <1>1
        DEF P3_ShowsNothingA, P3_ShowsNothingB, P3_Early, p3a_contents, p3b_contents, p3_held,
            Contents, One

-----------------------------------------------------------------------------
\* Phase 4: ping-pong.

\* The semaphore that thread t may be held at in position p.
P4_At ==
    {<<"main", "check", "finished">>, <<"playerA", "load", "ping">>,
     <<"playerB", "load", "pong">>}

P4_InTurn(t) == p4_pc[t] \in {"load", "store", "signal"}

P4_Values ==
    LET i == p4_i
    IN  IF p4_pc["main"] = "open"
        THEN p4_sems = [s \in P4_Sems |-> sem_open(0)]
        ELSE /\ p4_sems["ping"].value = 1 + i["playerB"] - i["playerA"] - One(P4_InTurn("playerA"))
             /\ p4_sems["pong"].value = i["playerA"] - i["playerB"] - One(P4_InTurn("playerB"))
             /\ p4_sems["finished"].value =
                  One(p4_pc["playerB"] = "done")
                  - One(p4_pc["main"] \in {"check", "close", "returned"})

P4_Places ==
    /\ p4_pc["main"] \in {"open", "createA", "createB", "await", "check", "close", "returned"}
    /\ p4_pc["playerA"] \in {"unborn", "wait", "load", "store", "signal", "done"}
    /\ p4_pc["playerB"] \in {"unborn", "wait", "load", "store", "signal", "tell", "done"}
    /\ p4_pc["playerA"] = "unborn" <=> p4_pc["main"] \in {"open", "createA"}
    /\ p4_pc["playerB"] = "unborn" <=> p4_pc["main"] \in {"open", "createA", "createB"}
    /\ p4_pc["main"] \in {"close", "returned"} => p4_pc["playerB"] = "done"

P4_Rounds ==
    /\ \A t \in P4_Players :
         /\ p4_pc[t] = "unborn" => p4_i[t] = 0
         /\ p4_pc[t] \in {"wait", "load", "store", "signal"} => p4_i[t] < P4_ROUNDS
         /\ p4_pc[t] \in {"tell", "done"} => p4_i[t] = P4_ROUNDS
         /\ p4_pc[t] = "store" => p4_reg[t] = p4_counter
    /\ p4_counter = p4_i["playerA"] + p4_i["playerB"]
                    + One(p4_pc["playerA"] = "signal") + One(p4_pc["playerB"] = "signal")

P4_Inv ==
    /\ P4_TypeOK
    /\ SemsOK(p4_sems, P4_Sems, P4_Threads, P4_At, p4_pc)
    /\ P4_Places
    /\ P4_Values
    /\ P4_Rounds

LEMMA P4_Exclusion ==
    ASSUME P4_Inv, NEW t \in P4_Players, P4_InTurn(t), ~IsBlocked(p4_sems, t)
    PROVE  /\ t = "playerA" => p4_i["playerA"] <= p4_i["playerB"]
           /\ t = "playerB" => p4_i["playerB"] < p4_i["playerA"]
           /\ \A u \in P4_Players : u # t /\ P4_InTurn(u) => IsBlocked(p4_sems, u)
           /\ p4_counter = p4_i["playerA"] + p4_i["playerB"] + One(p4_pc[t] = "signal")
<1>1. SemsOK(p4_sems, P4_Sems, P4_Threads, P4_At, p4_pc) /\ DOMAIN p4_sems = P4_Sems
  BY DEF P4_Inv, SemsOK
<1>2. \A u \in P4_Threads, s \in P4_Sems :
         u \in Range(p4_sems[s].blocked) => <<u, p4_pc[u], s>> \in P4_At /\ IsBlocked(p4_sems, u)
  BY <1>1 DEF SemsOK, IsBlocked
<1>3. p4_i["playerA"] \in Int /\ p4_i["playerB"] \in Int
  BY DEF P4_Inv, P4_TypeOK, P4_Threads, P4_Players
<1>4. p4_pc["main"] # "open"
  BY DEF P4_Inv, P4_Places, P4_InTurn, P4_Players
<1>5. ASSUME P4_InTurn("playerA"), ~IsBlocked(p4_sems, "playerA")
      PROVE  p4_i["playerA"] <= p4_i["playerB"]
  <2>1. \A u \in P4_Threads : u \notin Range(p4_sems["ping"].blocked)
    BY <1>2, <1>5 DEF P4_At, P4_Sems
  <2>2. p4_sems["ping"].value >= 0
    BY <1>1, <2>1, NobodyHeld DEF P4_Sems
  <2>3. p4_sems["ping"].value = 1 + p4_i["playerB"] - p4_i["playerA"] - 1
    BY <1>4, <1>5 DEF P4_Inv, P4_Values, One
  <2> QED BY <1>3, <2>2, <2>3
<1>6. ASSUME P4_InTurn("playerB"), ~IsBlocked(p4_sems, "playerB")
      PROVE  p4_i["playerB"] < p4_i["playerA"]
  <2>1. \A u \in P4_Threads : u \notin Range(p4_sems["pong"].blocked)
    BY <1>2, <1>6 DEF P4_At, P4_Sems
  <2>2. p4_sems["pong"].value >= 0
    BY <1>1, <2>1, NobodyHeld DEF P4_Sems
  <2>3. p4_sems["pong"].value = p4_i["playerA"] - p4_i["playerB"] - 1
    BY <1>4, <1>6 DEF P4_Inv, P4_Values, One
  <2> QED BY <1>3, <2>2, <2>3
<1>7. \A u \in P4_Players : u # t /\ P4_InTurn(u) => IsBlocked(p4_sems, u)
  BY <1>3, <1>5, <1>6 DEF P4_Players
<1>8. ASSUME NEW u \in P4_Players, p4_pc[u] = "signal" PROVE ~IsBlocked(p4_sems, u)
  <2>1. \A s \in P4_Sems : u \notin Range(p4_sems[s].blocked)
    BY <1>2, <1>8 DEF P4_At, P4_Threads
  <2> QED BY <1>1, <2>1 DEF IsBlocked
<1>9. p4_counter = p4_i["playerA"] + p4_i["playerB"] + One(p4_pc[t] = "signal")
  <2>1. \A u \in P4_Players : u # t => p4_pc[u] # "signal"
    BY <1>7, <1>8 DEF P4_InTurn
  <2> QED BY <1>3, <2>1 DEF P4_Inv, P4_Rounds, P4_Players, One
<1> QED BY <1>5, <1>6, <1>7, <1>9

LEMMA P4_WaitStep ==
    ASSUME P4_Inv, errorFlag = 0,
           NEW t \in P4_Threads, NEW s \in P4_Sems, NEW from, NEW to,
           p4_wait(t, from, s, to),
           \/ t = "playerA" /\ from = "wait" /\ s = "ping" /\ to = "load"
           \/ t = "playerB" /\ from = "wait" /\ s = "pong" /\ to = "load"
           \/ t = "main" /\ from = "await" /\ s = "finished" /\ to = "check"
    PROVE  P4_Inv' /\ errorFlag' = 0
<1>1. <<t, to, s>> \in P4_At /\ to \in P4_Positions
  BY DEF P4_At, P4_Positions
<1>2. /\ p4_pc[t] = from /\ ~IsBlocked(p4_sems, t)
      /\ p4_pc' = [p4_pc EXCEPT ![t] = to]
      /\ p4_sems' = sem_wait(p4_sems, s, t)
      /\ p4_pc \in [P4_Threads -> P4_Positions]
      /\ UNCHANGED <<p4_i, p4_reg, p4_counter, errorFlag>>
  BY DEF p4_wait, p4_goes, P4_Inv, P4_TypeOK
<1>3. p4_pc'[t] = to /\ \A u \in P4_Threads \ {t} : p4_pc'[u] = p4_pc[u]
  BY <1>2
<1>4. /\ SemsOK(p4_sems', P4_Sems, P4_Threads, P4_At, p4_pc')
      /\ p4_sems'[s].value = p4_sems[s].value - 1
      /\ \A r \in P4_Sems \ {s} : p4_sems'[r] = p4_sems[r]
  <2>1. /\ SemsOK(p4_sems, P4_Sems, P4_Threads, P4_At, p4_pc) /\ <<t, p4_pc'[t], s>> \in P4_At
        /\ ~IsBlocked(p4_sems, t)
        /\ p4_sems' = sem_wait(p4_sems, s, t)
    BY <1>1, <1>2, <1>3 DEF P4_Inv
  <2> QED BY <1>3, <2>1, SemsWait
<1>5. P4_TypeOK'
  BY <1>1, <1>2, <1>4 DEF P4_Inv, P4_TypeOK, SemsOK
<1>6. P4_Places'
  BY <1>1, <1>2, <1>3 DEF P4_Inv, P4_Places, P4_Threads, P4_Players
<1>7. P4_Values'
  BY <1>1, <1>2, <1>3, <1>4
     DEF P4_Inv, P4_TypeOK, P4_Places, P4_Values, P4_Threads, P4_Players, One, P4_InTurn,
         P4_Sems
<1>8. P4_Rounds'
  BY <1>1, <1>2, <1>3
     DEF P4_Inv, P4_TypeOK, P4_Places, P4_Rounds, P4_Threads, P4_Players, One
<1> QED BY <1>2, <1>4, <1>5, <1>6, <1>7, <1>8 DEF P4_Inv

\* A thread whose last call was no wait() is not held back.
LEMMA P4_Free ==
    ASSUME P4_Inv, NEW t \in P4_Threads,
           <<t, p4_pc[t]>> \notin {<<"main", "check">>, <<"playerA", "load">>, <<"playerB", "load">>}
    PROVE  ~IsBlocked(p4_sems, t)
<1>1. \A s \in P4_Sems : <<t, p4_pc[t], s>> \notin P4_At
  BY DEF P4_At
<1> QED BY <1>1 DEF P4_Inv, SemsOK, IsBlocked

LEMMA P4_SignalStep ==
    ASSUME P4_Inv, errorFlag = 0,
           NEW t \in P4_Players, NEW s \in P4_Sems, NEW from, NEW to,
           p4_signal(t, from, s, to),
           \/ /\ from = "signal" /\ p4_counted(t)
              /\ \/ t = "playerA" /\ s = "pong"
                 \/ t = "playerB" /\ s = "ping"
              /\ to = IF p4_i[t] + 1 < P4_ROUNDS THEN "wait"
                      ELSE IF t = "playerA" THEN "done" ELSE "tell"
           \/ from = "tell" /\ t = "playerB" /\ s = "finished" /\ to = "done" /\ p4_i' = p4_i
    PROVE  P4_Inv' /\ errorFlag' = 0
<1>1. P4_ROUNDS \in Nat \ {0}
  BY P4_Assumption
<1>2. /\ p4_pc[t] = from /\ ~IsBlocked(p4_sems, t)
      /\ p4_pc' = [p4_pc EXCEPT ![t] = to]
      /\ p4_sems' = sem_signal(p4_sems, s)
      /\ UNCHANGED <<p4_reg, p4_counter, errorFlag>>
  BY DEF p4_signal, p4_goes
<1>3. t \in P4_Threads /\ p4_pc \in [P4_Threads -> P4_Positions] /\ p4_i \in [P4_Threads -> 0..P4_ROUNDS]
  BY DEF P4_Threads, P4_Inv, P4_TypeOK
<1>4. p4_pc'[t] = to /\ \A u \in P4_Threads \ {t} : p4_pc'[u] = p4_pc[u]
  BY <1>2, <1>3
<1>5. /\ SemsOK(p4_sems', P4_Sems, P4_Threads, P4_At, p4_pc')
      /\ p4_sems'[s].value = p4_sems[s].value + 1
      /\ \A r \in P4_Sems \ {s} : p4_sems'[r] = p4_sems[r]
  <2>1. /\ SemsOK(p4_sems, P4_Sems, P4_Threads, P4_At, p4_pc)
        /\ p4_sems' = sem_signal(p4_sems, s)
    BY <1>2 DEF P4_Inv
  <2>2. \A u \in P4_Threads : IsBlocked(p4_sems, u) => p4_pc'[u] = p4_pc[u]
    BY <1>2, <1>4
  <2> QED BY <2>1, <2>2, SemsSignal
<1>6. p4_i[t] < P4_ROUNDS \/ p4_pc[t] = "tell"
  BY <1>2 DEF P4_Inv, P4_Rounds
<1>7. P4_TypeOK'
  <2>1. to \in P4_Positions
    BY DEF P4_Positions
  <2>2. p4_i' \in [P4_Threads -> 0..P4_ROUNDS]
    BY <1>1, <1>2, <1>3, <1>6 DEF p4_counted
  <2> QED BY <1>2, <1>3, <1>5, <2>1, <2>2 DEF P4_Inv, P4_TypeOK, SemsOK
<1>8. P4_Places'
  BY <1>2, <1>3, <1>4 DEF P4_Inv, P4_Places, P4_Threads, P4_Players
<1>9. P4_Values'
  BY <1>2, <1>3, <1>4, <1>5
     DEF P4_Inv, P4_TypeOK, P4_Places, P4_Values, P4_Threads, P4_Players, One, P4_InTurn,
         P4_Sems, p4_counted
<1>10. P4_Rounds'
  BY <1>1, <1>2, <1>3, <1>4
     DEF P4_Inv, P4_TypeOK, P4_Places, P4_Rounds, P4_Threads, P4_Players, One, p4_counted
<1> QED BY <1>2, <1>5, <1>7, <1>8, <1>9, <1>10 DEF P4_Inv

LEMMA P4_IncrementStep ==
    ASSUME P4_Inv, errorFlag = 0, NEW t \in P4_Players, p4_increments(t)
    PROVE  P4_Inv' /\ errorFlag' = 0
<1>1. PICK to \in {"store", "signal"} :
        /\ ~IsBlocked(p4_sems, t)
        /\ p4_pc' = [p4_pc EXCEPT ![t] = to]
        /\ UNCHANGED <<p4_i, p4_sems, errorFlag>>
        /\ \/ /\ p4_pc[t] = "load" /\ to = "store"
              /\ p4_reg' = [p4_reg EXCEPT ![t] = p4_counter] /\ p4_counter' = p4_counter
           \/ /\ p4_pc[t] = "store" /\ to = "signal"
              /\ p4_counter' = p4_reg[t] + 1 /\ p4_reg' = p4_reg
  BY DEF p4_increments, p4_goes
<1>2. t \in P4_Threads /\ p4_pc \in [P4_Threads -> P4_Positions]
  BY DEF P4_Threads, P4_Inv, P4_TypeOK
<1>3. p4_pc'[t] = to /\ \A u \in P4_Threads \ {t} : p4_pc'[u] = p4_pc[u]
  BY <1>1, <1>2
<1>4. SemsOK(p4_sems', P4_Sems, P4_Threads, P4_At, p4_pc')
  <2>1. /\ SemsOK(p4_sems, P4_Sems, P4_Threads, P4_At, p4_pc)
        /\ p4_sems' = p4_sems
    BY <1>1 DEF P4_Inv
  <2>2. \A u \in P4_Threads : IsBlocked(p4_sems, u) => p4_pc'[u] = p4_pc[u]
    BY <1>1, <1>3
  <2> QED BY <2>1, <2>2, SemsSame
<1>5. /\ \A u \in P4_Players : u # t /\ P4_InTurn(u) => IsBlocked(p4_sems, u)
      /\ p4_counter = p4_i["playerA"] + p4_i["playerB"]
  <2>1. P4_InTurn(t) /\ ~IsBlocked(p4_sems, t) /\ p4_pc[t] # "signal"
    BY <1>1 DEF P4_InTurn
  <2>2. p4_i["playerA"] \in Int /\ p4_i["playerB"] \in Int
    BY DEF P4_Inv, P4_TypeOK, P4_Threads, P4_Players
  <2> QED BY <2>1, <2>2, P4_Exclusion DEF One
<1>6. \A u \in P4_Players : u # t => p4_pc[u] \notin {"store", "signal"}
  <2>1. \A u \in P4_Players : p4_pc[u] \in {"store", "signal"} => ~IsBlocked(p4_sems, u)
    BY P4_Free DEF P4_Players, P4_Threads
  <2> QED BY <1>5, <2>1 DEF P4_InTurn
<1>7. p4_i["playerA"] \in 0..P4_ROUNDS /\ p4_i["playerB"] \in 0..P4_ROUNDS /\ p4_i[t] < P4_ROUNDS
      /\ P4_ROUNDS \in Nat
  BY <1>1, P4_Assumption DEF P4_Inv, P4_TypeOK, P4_Threads, P4_Players, P4_Rounds
<1>8. p4_counter' = p4_i["playerA"] + p4_i["playerB"] + One(to = "signal")
  BY <1>1, <1>5, <1>7 DEF P4_Inv, P4_Rounds, One
<1>9. P4_TypeOK'
  <2>1. to \in P4_Positions
    BY DEF P4_Positions
  <2>2. p4_counter' \in 0..(2 * P4_ROUNDS)
    <3>1. p4_i["playerA"] + p4_i["playerB"] + 1 <= 2 * P4_ROUNDS
      BY <1>7 DEF P4_Players
    <3> QED BY <1>7, <1>8, <3>1 DEF One
  <2>3. p4_reg' \in [P4_Threads -> Nat]
    BY <1>1, <1>2 DEF P4_Inv, P4_TypeOK
  <2> QED BY <1>1, <1>2, <2>1, <2>2, <2>3 DEF P4_Inv, P4_TypeOK
<1>10. P4_Places'
  BY <1>1, <1>2, <1>3 DEF P4_Inv, P4_Places, P4_Threads, P4_Players
<1>11. P4_Values'
  BY <1>1, <1>2, <1>3
     DEF P4_Inv, P4_TypeOK, P4_Places, P4_Values, P4_Threads, P4_Players, One, P4_InTurn,
         P4_Sems
<1>12. P4_Rounds'
  <2>1. p4_reg \in [P4_Threads -> Nat]
    BY DEF P4_Inv, P4_TypeOK
  <2> QED
    BY <1>1, <1>2, <1>3, <1>6, <1>7, <1>8, <2>1
       DEF P4_Inv, P4_Places, P4_Rounds, P4_Threads, P4_Players, One
<1> QED BY <1>1, <1>4, <1>9, <1>10, <1>11, <1>12 DEF P4_Inv

\* When player B is done, so is player A.
LEMMA P4_BothDone ==
    ASSUME P4_Inv, p4_pc["playerB"] = "done"
    PROVE  p4_pc["playerA"] = "done" /\ p4_counter = P4_ROUNDS * 2
<1>1. SemsOK(p4_sems, P4_Sems, P4_Threads, P4_At, p4_pc)
  BY DEF P4_Inv
<1>2. \A t \in P4_Threads : t \notin Range(p4_sems["pong"].blocked)
  BY <1>1 DEF SemsOK, P4_At, P4_Sems
<1>3. p4_sems["pong"].value >= 0
  BY <1>1, <1>2, NobodyHeld DEF P4_Sems
<1>4. p4_pc["main"] \notin {"open", "createA", "createB"}
  BY DEF P4_Inv, P4_Places
<1>5. p4_i["playerA"] \in 0..P4_ROUNDS /\ p4_i["playerB"] = P4_ROUNDS /\ P4_ROUNDS \in Nat
  BY P4_Assumption DEF P4_Inv, P4_Rounds, P4_TypeOK, P4_Threads, P4_Players
<1>6. p4_i["playerA"] = P4_ROUNDS
  BY <1>3, <1>4, <1>5 DEF P4_Inv, P4_Values, P4_InTurn, One
<1>7. p4_pc["playerA"] = "done"
  BY <1>4, <1>5, <1>6 DEF P4_Inv, P4_Places, P4_Rounds, P4_Players
<1> QED BY <1>5, <1>6, <1>7 DEF P4_Inv, P4_Rounds, One

LEMMA P4_MainStep ==
    ASSUME P4_Inv, errorFlag = 0,
           \/ p4_open
           \/ p4_create("playerA", "createA", "createB")
           \/ p4_create("playerB", "createB", "await")
    PROVE  P4_Inv' /\ errorFlag' = 0
<1>1. p4_pc \in [P4_Threads -> P4_Positions] /\ SemsOK(p4_sems, P4_Sems, P4_Threads, P4_At, p4_pc)
  BY DEF P4_Inv, P4_TypeOK
<1>2. CASE p4_open
  <2>1. /\ p4_pc["main"] = "open"
        /\ p4_pc' = [p4_pc EXCEPT !["main"] = "createA"]
        /\ p4_sems' = [ping |-> sem_open(1), pong |-> sem_open(0), finished |-> sem_open(0)]
        /\ UNCHANGED <<p4_i, p4_reg, p4_counter, errorFlag>>
    BY <1>2 DEF p4_open, p4_goes
  <2>2. /\ DOMAIN p4_sems' = P4_Sems
        /\ p4_sems' = [s \in P4_Sems |-> p4_sems'[s]]
        /\ p4_sems'["ping"] = sem_open(1)
        /\ p4_sems'["pong"] = sem_open(0)
        /\ p4_sems'["finished"] = sem_open(0)
    BY <2>1 DEF P4_Sems
  <2>3. \A s \in P4_Sems : \E n \in Nat : p4_sems'[s] = sem_open(n)
    BY <2>2 DEF P4_Sems
  <2>4. SemsOK(p4_sems', P4_Sems, P4_Threads, P4_At, p4_pc')
    BY <2>2, <2>3, SemsOpened
  <2>5. P4_TypeOK'
    BY <1>1, <2>1, <2>4 DEF P4_Inv, P4_TypeOK, SemsOK, P4_Positions
  <2>6. P4_Places'
    BY <1>1, <2>1 DEF P4_Inv, P4_Places, P4_Threads, P4_Players
  <2>7. P4_Values'
    BY <1>1, <2>1, <2>2
       DEF P4_Inv, P4_Places, P4_Values, P4_Rounds, P4_Threads, P4_Players, P4_InTurn, One,
           sem_open
  <2>8. P4_Rounds'
    BY <1>1, <2>1 DEF P4_Inv, P4_Rounds, P4_Threads, P4_Players
  <2> QED BY <2>1, <2>4, <2>5, <2>6, <2>7, <2>8 DEF P4_Inv
<1>3. ASSUME NEW t \in P4_Players, NEW from, NEW to, p4_create(t, from, to),
             \/ t = "playerA" /\ from = "createA" /\ to = "createB"
             \/ t = "playerB" /\ from = "createB" /\ to = "await"
      PROVE  P4_Inv' /\ errorFlag' = 0
  <2>1. /\ p4_pc["main"] = from
        /\ p4_pc' = [p4_pc EXCEPT !["main"] = to, ![t] = "wait"]
        /\ UNCHANGED <<p4_i, p4_reg, p4_sems, p4_counter, errorFlag>>
    BY <1>3 DEF p4_create
  <2>2. /\ p4_pc'["main"] = to /\ p4_pc'[t] = "wait"
        /\ \A u \in P4_Threads \ {"main", t} : p4_pc'[u] = p4_pc[u]
    BY <1>1, <2>1 DEF P4_Threads, P4_Players
  <2>3. p4_pc[t] = "unborn"
    BY <1>3, <2>1 DEF P4_Inv, P4_Places
  <2>4. SemsOK(p4_sems', P4_Sems, P4_Threads, P4_At, p4_pc')
    <3>1. ~IsBlocked(p4_sems, "main") /\ ~IsBlocked(p4_sems, t)
      BY <1>3, <2>1, <2>3, P4_Free DEF P4_Threads, P4_Players
    <3>2. \A u \in P4_Threads : IsBlocked(p4_sems, u) => p4_pc'[u] = p4_pc[u]
      BY <2>2, <3>1
    <3>3. p4_sems' = p4_sems
      BY <2>1
    <3> QED BY <1>1, <3>2, <3>3, SemsSame
  <2>5. P4_TypeOK'
    BY <1>1, <1>3, <2>1 DEF P4_Inv, P4_TypeOK, P4_Positions, P4_Threads
  <2>6. P4_Places'
    BY <1>1, <1>3, <2>1, <2>2 DEF P4_Inv, P4_Places, P4_Threads, P4_Players
  <2>7. P4_Values'
    BY <1>1, <1>3, <2>1, <2>2, <2>3
       DEF P4_Inv, P4_Places, P4_Values, P4_Threads, P4_Players, P4_InTurn, One
  <2>8. P4_Rounds'
    <3>1. P4_ROUNDS \in Nat \ {0}
      BY P4_Assumption
    <3> QED
      BY <1>1, <1>3, <2>1, <2>2, <2>3, <3>1 DEF P4_Inv, P4_Rounds, P4_Threads, P4_Players, One
  <2> QED BY <2>1, <2>4, <2>5, <2>6, <2>7, <2>8 DEF P4_Inv
<1> QED BY <1>2, <1>3 DEF P4_Players

LEMMA P4_EndStep ==
    ASSUME P4_Inv, errorFlag = 0, p4_check \/ p4_close
    PROVE  P4_Inv' /\ errorFlag' = 0
<1>1. PICK from, to \in P4_Positions :
        /\ \/ from = "check" /\ to = "close"
           \/ from = "close" /\ to = "returned"
        /\ p4_pc["main"] = from /\ ~IsBlocked(p4_sems, "main")
        /\ p4_pc' = [p4_pc EXCEPT !["main"] = to]
        /\ UNCHANGED <<p4_i, p4_reg, p4_counter>>
        /\ \/ p4_sems' = p4_sems /\ check(p4_counter = P4_ROUNDS * 2)
           \/ from = "close" /\ p4_sems' = sem_close(p4_sems) /\ errorFlag' = errorFlag
  BY DEF p4_check, p4_close, p4_goes, P4_Positions
<1>2. p4_pc \in [P4_Threads -> P4_Positions] /\ SemsOK(p4_sems, P4_Sems, P4_Threads, P4_At, p4_pc)
  BY DEF P4_Inv, P4_TypeOK
<1>3. p4_pc["playerB"] = "done"
  <2>1. CASE from = "close"
    BY <1>1, <2>1 DEF P4_Inv, P4_Places
  <2>2. CASE from = "check"
    <3>1. \A t \in P4_Threads : t \notin Range(p4_sems["finished"].blocked)
      BY <1>1, <1>2 DEF SemsOK, P4_At, P4_Sems, IsBlocked
    <3>2. p4_sems["finished"].value >= 0
      BY <1>2, <3>1, NobodyHeld DEF P4_Sems
    <3> QED BY <1>1, <2>2, <3>2 DEF P4_Inv, P4_Values, One
  <2> QED BY <1>1, <2>1, <2>2
<1>4. p4_pc["playerA"] = "done" /\ p4_counter = P4_ROUNDS * 2
  BY <1>3, P4_BothDone
<1>5. p4_sems' = p4_sems /\ errorFlag' = 0
  <2>1. \A t \in P4_Threads : ~IsBlocked(p4_sems, t)
    BY <1>1, <1>3, <1>4, P4_Free DEF P4_Threads, P4_Players
  <2>2. sem_close(p4_sems) = p4_sems
    BY <1>2, <2>1, SemsClosed
  <2> QED BY <1>1, <1>4, <2>2 DEF check
<1>6. p4_pc'["main"] = to /\ \A u \in P4_Threads \ {"main"} : p4_pc'[u] = p4_pc[u]
  BY <1>1, <1>2 DEF P4_Threads
<1>7. SemsOK(p4_sems', P4_Sems, P4_Threads, P4_At, p4_pc')
  <2>1. \A u \in P4_Threads : IsBlocked(p4_sems, u) => p4_pc'[u] = p4_pc[u]
    BY <1>1, <1>6
  <2> QED BY <1>2, <1>5, <2>1, SemsSame
<1>8. P4_TypeOK'
  BY <1>1, <1>2, <1>5 DEF P4_Inv, P4_TypeOK
<1>9. P4_Places'
  BY <1>1, <1>3, <1>6 DEF P4_Inv, P4_Places, P4_Threads, P4_Players
<1>10. P4_Values'
  BY <1>1, <1>5, <1>6 DEF P4_Inv, P4_Values, P4_Threads, P4_Players, P4_InTurn, One
<1>11. P4_Rounds'
  BY <1>1, <1>6 DEF P4_Inv, P4_Rounds, P4_Threads, P4_Players
<1> QED BY <1>5, <1>7, <1>8, <1>9, <1>10, <1>11 DEF P4_Inv

LEMMA P4_InvInit == P4_Init => P4_Inv
<1> SUFFICES ASSUME P4_Init PROVE P4_Inv
  OBVIOUS
<1>1. P4_ROUNDS \in Nat \ {0}
  BY P4_Assumption
<1>2. SemsOK(p4_sems, P4_Sems, P4_Threads, P4_At, p4_pc)
  <2>1. DOMAIN p4_sems = P4_Sems /\ p4_sems = [s \in P4_Sems |-> p4_sems[s]]
        /\ \A s \in P4_Sems : p4_sems[s] = sem_open(0)
    BY DEF P4_Init
  <2> QED BY <2>1, SemsOpened
<1>3. P4_TypeOK
  BY <1>1, <1>2 DEF P4_Init, P4_TypeOK, SemsOK, P4_Positions
<1>4. P4_Places /\ P4_Values /\ P4_Rounds
  BY <1>1 DEF P4_Init, P4_Places, P4_Values, P4_Rounds, P4_Threads, P4_Players, One
<1> QED BY <1>2, <1>3, <1>4 DEF P4_Inv

LEMMA P4_InvNext ==
    ASSUME P4_Inv, errorFlag = 0, P4_Next
    PROVE  P4_Inv' /\ errorFlag' = 0
<1>1. CASE runPhase4
  BY <1>1, P4_MainStep, P4_EndStep, P4_WaitStep DEF runPhase4, P4_Threads, P4_Sems
<1>2. ASSUME NEW t \in P4_Players, NEW own \in P4_Sems, NEW others \in P4_Sems, NEW after,
             p4_turn(t, own, others, after),
             \/ t = "playerA" /\ own = "ping" /\ others = "pong" /\ after = "done"
             \/ t = "playerB" /\ own = "pong" /\ others = "ping" /\ after = "tell"
      PROVE  P4_Inv' /\ errorFlag' = 0
  <2>1. CASE p4_wait(t, "wait", own, "load")
    BY <1>2, <2>1, P4_WaitStep DEF P4_Threads, P4_Players
  <2>2. CASE p4_increments(t)
    BY <2>2, P4_IncrementStep
  <2>3. CASE /\ p4_signal(t, "signal", others, IF p4_i[t] + 1 < P4_ROUNDS THEN "wait" ELSE after)
             /\ p4_counted(t)
    <3> DEFINE to == IF p4_i[t] + 1 < P4_ROUNDS THEN "wait" ELSE after
    <3>1. to = IF p4_i[t] + 1 < P4_ROUNDS THEN "wait" ELSE IF t = "playerA" THEN "done" ELSE "tell"
      BY <1>2
    <3>2. p4_signal(t, "signal", others, to) /\ p4_counted(t)
      BY <2>3
    <3> HIDE DEF to
    <3> QED BY <1>2, <3>1, <3>2, P4_SignalStep
  <2> QED BY <1>2, <2>1, <2>2, <2>3 DEF p4_turn
<1>3. CASE p4_playerA
  BY <1>2, <1>3 DEF p4_playerA, P4_Players, P4_Sems
<1>4. CASE p4_playerB
  <2>1. CASE p4_turn("playerB", "pong", "ping", "tell")
    BY <1>2, <2>1 DEF P4_Players, P4_Sems
  <2>2. CASE p4_signal("playerB", "tell", "finished", "done") /\ UNCHANGED p4_i
    BY <2>2, P4_SignalStep DEF P4_Players, P4_Sems
  <2> QED BY <1>4, <2>1, <2>2 DEF p4_playerB
<1> QED BY <1>1, <1>3, <1>4 DEF P4_Next

LEMMA P4_InvUnchanged == P4_Inv /\ UNCHANGED p4_vars => P4_Inv'
BY DEF p4_vars, P4_Inv, P4_TypeOK, P4_Places, P4_Values, P4_Rounds, P4_InTurn

LEMMA P4_InvSafe == P4_Inv => P4_TypeOK /\ P4_NothingIsUsedAfterClose
<1> SUFFICES ASSUME P4_Inv PROVE P4_NothingIsUsedAfterClose
  BY DEF P4_Inv
<1>1. CASE p4_pc["main"] = "returned"
  BY <1>1, P4_BothDone DEF P4_Inv, P4_Places, P4_NothingIsUsedAfterClose, P4_Players
<1>2. CASE p4_pc["main"] = "open"
  BY <1>2 DEF P4_Inv, P4_Places, P4_NothingIsUsedAfterClose, P4_Players
<1> QED BY <1>1, <1>2 DEF P4_NothingIsUsedAfterClose

-----------------------------------------------------------------------------
\* Phase 5: the storm of short threads.

\* Where a thread may be held, and at which semaphore.
P5_At == {<<t, "load", "mutex">> : t \in P5_Tasks} \union {<<P5_Main, "check", "allDone">>}

\* Under the mutex, and behind the increment.
P5_Inside == {"load", "store", "reload", "unlock"}
P5_Counted == {"reload", "unlock", "tell", "done"}

P5_Places ==
    /\ p5_pc[P5_Main] \in {"open", "create", "await", "check", "close", "returned"}
    /\ \A t \in P5_Tasks :
         /\ p5_pc[t] \in {"unborn", "lock", "load", "store", "reload", "unlock", "tell", "done"}
         /\ p5_pc[t] = "unborn" <=> t > p5_created
    /\ p5_pc[P5_Main] = "open" => p5_created = 0
    /\ p5_pc[P5_Main] = "create" => p5_created < P5_NUM_THREADS
    /\ p5_pc[P5_Main] \in {"await", "check", "close", "returned"} => p5_created = P5_NUM_THREADS
    /\ p5_pc[P5_Main] \in {"close", "returned"} => \A t \in P5_Tasks : p5_pc[t] = "done"

P5_Values ==
    IF p5_pc[P5_Main] = "open"
    THEN p5_sems = [s \in P5_Sems |-> sem_open(0)]
    ELSE /\ p5_sems["mutex"].value = 1 - CountIn(p5_pc, P5_Tasks, P5_Inside)
         /\ p5_sems["allDone"].value =
              One(\E t \in P5_Tasks : p5_pc[t] = "done" /\ p5_c[t] = P5_NUM_THREADS)
              - One(p5_pc[P5_Main] \in {"check", "close", "returned"})

P5_Counts ==
    /\ p5_counter = CountIn(p5_pc, P5_Tasks, P5_Counted)
    /\ \A t \in P5_Tasks : p5_pc[t] \in {"store", "unlock"} => p5_c[t] = p5_counter

\* The last one finds everybody else behind the mutex.
P5_Last ==
    \A t \in P5_Tasks :
        /\ p5_pc[t] = "tell" => p5_c[t] = P5_NUM_THREADS
        /\ p5_pc[t] \in {"tell", "done"} /\ p5_c[t] = P5_NUM_THREADS =>
             \A u \in P5_Tasks :
                 /\ p5_pc[u] \in {"tell", "done"}
                 /\ p5_c[u] = P5_NUM_THREADS => u = t

P5_Inv ==
    /\ P5_TypeOK
    /\ SemsOK(p5_sems, P5_Sems, P5_Threads, P5_At, p5_pc)
    /\ P5_Places
    /\ P5_Values
    /\ P5_Counts
    /\ P5_Last

LEMMA P5_Sets ==
    /\ P5_NUM_THREADS \in Nat \ {0}
    /\ IsFiniteSet(P5_Tasks) /\ IsFiniteSet(P5_Threads)
    /\ Cardinality(P5_Tasks) = P5_NUM_THREADS
    /\ P5_Main \in P5_Threads /\ P5_Main \notin P5_Tasks
    /\ P5_Threads = P5_Tasks \union {P5_Main}
<1>1. P5_NUM_THREADS \in Nat \ {0}
  BY P5_Assumption
<1>2. IsFiniteSet(P5_Tasks) /\ Cardinality(P5_Tasks) = P5_NUM_THREADS /\ IsFiniteSet(P5_Threads)
  BY <1>1, FS_Interval DEF P5_Tasks, P5_Threads
<1> QED BY <1>1, <1>2 DEF P5_Tasks, P5_Threads, P5_Main

LEMMA P5_Free ==
    ASSUME P5_Inv, NEW t \in P5_Threads, p5_pc[t] \notin {"load", "check"}
    PROVE  ~IsBlocked(p5_sems, t)
<1>1. \A s \in P5_Sems : <<t, p5_pc[t], s>> \notin P5_At
  BY DEF P5_At
<1> QED BY <1>1 DEF P5_Inv, SemsOK, IsBlocked

LEMMA P5_Exclusion ==
    ASSUME P5_Inv, NEW t \in P5_Tasks, p5_pc[t] \in P5_Inside, ~IsBlocked(p5_sems, t)
    PROVE  \A u \in P5_Tasks : u # t /\ p5_pc[u] \in P5_Inside => IsBlocked(p5_sems, u)
<1> DEFINE A == {u \in P5_Tasks : p5_pc[u] \in P5_Inside}
<1>1. SemsOK(p5_sems, P5_Sems, P5_Threads, P5_At, p5_pc) /\ DOMAIN p5_sems = P5_Sems
  BY DEF P5_Inv, SemsOK
<1>2. p5_pc[P5_Main] # "open"
  <2>1. t \in 1..P5_NUM_THREADS /\ p5_pc[t] # "unborn"
    BY DEF P5_Tasks, P5_Inside
  <2> QED BY <2>1 DEF P5_Inv, P5_Places, P5_Tasks
<1>3. p5_sems["mutex"].value = 1 - Cardinality(A)
  BY <1>2 DEF P5_Inv, P5_Values, CountIn
<1>4. A \in SUBSET P5_Threads /\ IsFiniteSet(P5_Threads) /\ "mutex" \in P5_Sems
  BY P5_Sets DEF P5_Sems
<1>5. \A u \in P5_Threads : <<u, p5_pc[u], "mutex">> \in P5_At => u \in A
  BY DEF P5_At, P5_Inside
<1>6. t \in A /\ \A u \in P5_Tasks : ~IsBlocked(p5_sems, u) => u \notin Range(p5_sems["mutex"].blocked)
  BY <1>1 DEF IsBlocked, P5_Sems
<1>7. \A u \in P5_Tasks : p5_pc[u] \in P5_Inside <=> u \in A
  OBVIOUS
<1> HIDE DEF A
<1>8. ASSUME NEW u \in A, ~IsBlocked(p5_sems, u) PROVE u = t
  <2>1. u \in P5_Tasks
    BY DEF A
  <2>2. u \notin Range(p5_sems["mutex"].blocked) /\ t \notin Range(p5_sems["mutex"].blocked)
    BY <1>6, <1>8, <2>1
  <2> QED BY <1>1, <1>3, <1>4, <1>5, <1>6, <2>2, Mutex
<1> QED BY <1>7, <1>8

\* What a task's step from one position to another changes.
LEMMA P5_Moves ==
    ASSUME P5_Inv, NEW t \in P5_Tasks, NEW from, NEW to \in P5_Positions, p5_goes(t, from, to)
    PROVE  /\ t \in P5_Threads /\ p5_pc[t] = from /\ ~IsBlocked(p5_sems, t)
           /\ p5_pc' \in [P5_Threads -> P5_Positions]
           /\ p5_pc'[t] = to /\ \A u \in P5_Threads \ {t} : p5_pc'[u] = p5_pc[u]
           /\ p5_pc'[P5_Main] = p5_pc[P5_Main] /\ \A u \in P5_Tasks \ {t} : p5_pc'[u] = p5_pc[u]
           /\ \A u \in P5_Threads : IsBlocked(p5_sems, u) => p5_pc'[u] = p5_pc[u]
           /\ from # "unborn" => p5_pc[P5_Main] # "open"
           /\ \A L : /\ CountIn(p5_pc, P5_Tasks, L) \in Nat
                     /\ CountIn(p5_pc', P5_Tasks, L) = CountIn(p5_pc, P5_Tasks, L)
                          - (IF from \in L THEN 1 ELSE 0) + (IF to \in L THEN 1 ELSE 0)
<1>1. /\ p5_pc[t] = from /\ ~IsBlocked(p5_sems, t)
      /\ p5_pc' = [p5_pc EXCEPT ![t] = to]
      /\ p5_pc \in [P5_Threads -> P5_Positions]
      /\ t \in P5_Threads /\ t # P5_Main /\ P5_Main \in P5_Threads /\ P5_Tasks \subseteq P5_Threads
  BY P5_Sets DEF p5_goes, P5_Inv, P5_TypeOK
<1>2. p5_pc'[t] = to /\ \A u \in P5_Threads \ {t} : p5_pc'[u] = p5_pc[u]
  BY <1>1
<1>3. from # "unborn" => p5_pc[P5_Main] # "open"
  <2>1. t \in 1..P5_NUM_THREADS
    BY DEF P5_Tasks
  <2> QED BY <1>1, <2>1 DEF P5_Inv, P5_Places, P5_Tasks
<1>4. ASSUME NEW L
      PROVE  /\ CountIn(p5_pc, P5_Tasks, L) \in Nat
             /\ CountIn(p5_pc', P5_Tasks, L) = CountIn(p5_pc, P5_Tasks, L)
                  - (IF from \in L THEN 1 ELSE 0) + (IF to \in L THEN 1 ELSE 0)
  <2>1. IsFiniteSet(P5_Tasks) /\ \A u \in P5_Tasks \ {t} : p5_pc'[u] = p5_pc[u]
    BY <1>1, <1>2, P5_Sets
  <2>2. p5_pc[t] = from /\ p5_pc'[t] = to
    BY <1>1, <1>2
  <2>3. CountIn(p5_pc', P5_Tasks, L) = CountIn(p5_pc, P5_Tasks, L)
             - (IF p5_pc[t] \in L THEN 1 ELSE 0) + (IF p5_pc'[t] \in L THEN 1 ELSE 0)
    BY <2>1, CountMoves
  <2>4. CountIn(p5_pc, P5_Tasks, L) \in Nat
    BY <2>1, CountBounds
  <2> QED BY <2>2, <2>3, <2>4
<1> QED BY <1>1, <1>2, <1>3, <1>4

LEMMA P5_LockStep ==
    ASSUME P5_Inv, errorFlag = 0, NEW t \in P5_Tasks, p5_wait(t, "lock", "mutex", "load")
    PROVE  P5_Inv' /\ errorFlag' = 0
<1>1. /\ p5_goes(t, "lock", "load") /\ p5_sems' = sem_wait(p5_sems, "mutex", t)
      /\ UNCHANGED <<p5_c, p5_created, p5_counter, errorFlag>>
  BY DEF p5_wait
<1>2. "load" \in P5_Positions
  BY DEF P5_Positions
<1>3. /\ t \in P5_Threads /\ p5_pc[t] = "lock" /\ ~IsBlocked(p5_sems, t)
      /\ p5_pc' \in [P5_Threads -> P5_Positions]
      /\ p5_pc'[t] = "load" /\ \A u \in P5_Threads \ {t} : p5_pc'[u] = p5_pc[u]
      /\ p5_pc'[P5_Main] = p5_pc[P5_Main] /\ \A u \in P5_Tasks \ {t} : p5_pc'[u] = p5_pc[u]
      /\ p5_pc[P5_Main] # "open"
  BY <1>1, <1>2, P5_Moves
<1>4. \A L : /\ CountIn(p5_pc, P5_Tasks, L) \in Nat
             /\ CountIn(p5_pc', P5_Tasks, L) = CountIn(p5_pc, P5_Tasks, L)
                  - (IF "lock" \in L THEN 1 ELSE 0) + (IF "load" \in L THEN 1 ELSE 0)
  BY <1>1, <1>2, P5_Moves
<1>5. /\ SemsOK(p5_sems', P5_Sems, P5_Threads, P5_At, p5_pc')
      /\ p5_sems'["mutex"].value = p5_sems["mutex"].value - 1
      /\ p5_sems'["allDone"] = p5_sems["allDone"]
  <2>1. /\ SemsOK(p5_sems, P5_Sems, P5_Threads, P5_At, p5_pc)
        /\ <<t, p5_pc'[t], "mutex">> \in P5_At
        /\ "mutex" \in P5_Sems /\ "allDone" \in P5_Sems \ {"mutex"}
    BY <1>3 DEF P5_Inv, P5_At, P5_Sems
  <2> QED BY <1>1, <1>3, <2>1, SemsWait
<1>6. P5_TypeOK'
  BY <1>1, <1>3, <1>5 DEF P5_Inv, P5_TypeOK, SemsOK
<1>7. P5_Places'
  BY <1>1, <1>3 DEF P5_Inv, P5_Places
<1>8. P5_Values'
  <2>1. /\ CountIn(p5_pc, P5_Tasks, P5_Inside) \in Nat
        /\ CountIn(p5_pc', P5_Tasks, P5_Inside) = CountIn(p5_pc, P5_Tasks, P5_Inside) + 1
    BY <1>4 DEF P5_Inside, One
  <2>2. (\E u \in P5_Tasks : p5_pc'[u] = "done" /\ p5_c'[u] = P5_NUM_THREADS)
          <=> \E u \in P5_Tasks : p5_pc[u] = "done" /\ p5_c[u] = P5_NUM_THREADS
    BY <1>1, <1>3
  <2> QED BY <1>3, <1>5, <2>1, <2>2 DEF P5_Inv, P5_Values, One
<1>9. P5_Counts'
  <2>1. CountIn(p5_pc', P5_Tasks, P5_Counted) = CountIn(p5_pc, P5_Tasks, P5_Counted)
    BY <1>4 DEF P5_Counted, One
  <2> QED BY <1>1, <1>3, <2>1 DEF P5_Inv, P5_Counts
<1>10. P5_Last'
  BY <1>1, <1>3 DEF P5_Inv, P5_Last
<1> QED BY <1>1, <1>5, <1>6, <1>7, <1>8, <1>9, <1>10 DEF P5_Inv

LEMMA P5_MemoryStep ==
    ASSUME P5_Inv, errorFlag = 0, NEW t \in P5_Tasks,
           \/ p5_load(t, "load", "store")
           \/ p5_store(t, "store", "reload")
           \/ p5_load(t, "reload", "unlock")
    PROVE  P5_Inv' /\ errorFlag' = 0
<1>1. PICK from, to \in P5_Positions :
        /\ p5_goes(t, from, to)
        /\ UNCHANGED <<p5_created, p5_sems, errorFlag>>
        /\ \/ /\ from = "load" /\ to = "store"
              /\ p5_c' = [p5_c EXCEPT ![t] = p5_counter] /\ p5_counter' = p5_counter
           \/ /\ from = "store" /\ to = "reload"
              /\ p5_c' = p5_c /\ p5_counter' = p5_c[t] + 1
           \/ /\ from = "reload" /\ to = "unlock"
              /\ p5_c' = [p5_c EXCEPT ![t] = p5_counter] /\ p5_counter' = p5_counter
  BY DEF p5_load, p5_store, P5_Positions
<1>2. /\ t \in P5_Threads /\ p5_pc[t] = from /\ ~IsBlocked(p5_sems, t)
      /\ p5_pc' \in [P5_Threads -> P5_Positions]
      /\ p5_pc'[t] = to
      /\ p5_pc'[P5_Main] = p5_pc[P5_Main] /\ \A u \in P5_Tasks \ {t} : p5_pc'[u] = p5_pc[u]
      /\ \A u \in P5_Threads : IsBlocked(p5_sems, u) => p5_pc'[u] = p5_pc[u]
      /\ from # "unborn" => p5_pc[P5_Main] # "open"
  BY <1>1, P5_Moves
<1>3. \A L : /\ CountIn(p5_pc, P5_Tasks, L) \in Nat
             /\ CountIn(p5_pc', P5_Tasks, L) = CountIn(p5_pc, P5_Tasks, L)
                  - (IF from \in L THEN 1 ELSE 0) + (IF to \in L THEN 1 ELSE 0)
  BY <1>1, P5_Moves
<1>4. SemsOK(p5_sems', P5_Sems, P5_Threads, P5_At, p5_pc')
  <2>1. SemsOK(p5_sems, P5_Sems, P5_Threads, P5_At, p5_pc) /\ p5_sems' = p5_sems
    BY <1>1 DEF P5_Inv
  <2> QED BY <1>2, <2>1, SemsSame
<1>5. \A u \in P5_Tasks : u # t => p5_pc[u] \notin {"store", "unlock"}
  <2>1. \A u \in P5_Tasks : u # t /\ p5_pc[u] \in P5_Inside => IsBlocked(p5_sems, u)
    BY <1>1, <1>2, P5_Exclusion DEF P5_Inside
  <2>2. \A u \in P5_Tasks : p5_pc[u] \in {"store", "unlock"} => ~IsBlocked(p5_sems, u)
    BY P5_Free, P5_Sets
  <2> QED BY <2>1, <2>2 DEF P5_Inside
<1>12. /\ \A u \in P5_Tasks : u # t => p5_c'[u] = p5_c[u]
       /\ p5_pc[t] \notin {"tell", "done"} /\ p5_pc'[t] \notin {"tell", "done"}
  <2>1. p5_c \in [P5_Threads -> 0..P5_NUM_THREADS] /\ P5_Tasks \subseteq P5_Threads
    BY P5_Sets DEF P5_Inv, P5_TypeOK
  <2> QED BY <1>1, <1>2, <2>1
<1>6. p5_counter' = CountIn(p5_pc', P5_Tasks, P5_Counted)
  <2>1. CASE from = "store"
    <3>1. p5_counter' = p5_counter + 1 /\ to = "reload"
      BY <1>1, <1>2, <2>1 DEF P5_Inv, P5_Counts
    <3>2. CountIn(p5_pc', P5_Tasks, P5_Counted) = CountIn(p5_pc, P5_Tasks, P5_Counted) + 1
      BY <1>3, <2>1, <3>1 DEF P5_Counted
    <3> QED BY <3>1, <3>2 DEF P5_Inv, P5_Counts
  <2>2. CASE from # "store"
    <3>1. p5_counter' = p5_counter
      BY <1>1, <2>2
    <3>2. CountIn(p5_pc', P5_Tasks, P5_Counted) = CountIn(p5_pc, P5_Tasks, P5_Counted)
      BY <1>1, <1>3, <2>2 DEF P5_Counted
    <3> QED BY <3>1, <3>2 DEF P5_Inv, P5_Counts
  <2> QED BY <2>1, <2>2
<1>7. P5_TypeOK'
  <2>1. p5_counter' \in 0..P5_NUM_THREADS
    BY <1>6, P5_Sets, CountBounds
  <2>2. p5_c' \in [P5_Threads -> 0..P5_NUM_THREADS]
    BY <1>1, <1>2 DEF P5_Inv, P5_TypeOK
  <2> QED BY <1>1, <1>2, <2>1, <2>2 DEF P5_Inv, P5_TypeOK
<1>8. P5_Places'
  BY <1>1, <1>2 DEF P5_Inv, P5_Places
<1>9. P5_Values'
  <2>1. CountIn(p5_pc', P5_Tasks, P5_Inside) = CountIn(p5_pc, P5_Tasks, P5_Inside)
    BY <1>1, <1>3 DEF P5_Inside
  <2>2. (\E u \in P5_Tasks : p5_pc'[u] = "done" /\ p5_c'[u] = P5_NUM_THREADS)
          <=> \E u \in P5_Tasks : p5_pc[u] = "done" /\ p5_c[u] = P5_NUM_THREADS
    BY <1>2, <1>12
  <2> QED BY <1>1, <1>2, <2>1, <2>2 DEF P5_Inv, P5_Values, One
<1>10. P5_Counts'
  <2>1. p5_c \in [P5_Threads -> 0..P5_NUM_THREADS]
    BY DEF P5_Inv, P5_TypeOK
  <2>2. \A u \in P5_Tasks : p5_pc'[u] \in {"store", "unlock"} => p5_c'[u] = p5_counter'
    BY <1>1, <1>2, <1>5, <2>1
  <2> QED BY <1>6, <2>2 DEF P5_Counts
<1>11. P5_Last'
  <2>1. \A u \in P5_Tasks : ~(p5_pc[u] \in {"tell", "done"} /\ p5_c[u] = P5_NUM_THREADS)
    BY <1>12 DEF P5_Inv, P5_Last
  <2> QED BY <1>2, <1>12, <2>1 DEF P5_Inv, P5_Last
<1> QED BY <1>1, <1>4, <1>7, <1>8, <1>9, <1>10, <1>11 DEF P5_Inv

LEMMA P5_UnlockStep ==
    ASSUME P5_Inv, errorFlag = 0, NEW t \in P5_Tasks,
           p5_signal(t, "unlock", "mutex", IF IsLast(p5_c[t]) THEN "tell" ELSE "done")
    PROVE  P5_Inv' /\ errorFlag' = 0
<1> DEFINE to == IF IsLast(p5_c[t]) THEN "tell" ELSE "done"
<1>1. /\ p5_goes(t, "unlock", to) /\ p5_sems' = sem_signal(p5_sems, "mutex")
      /\ p5_c' = p5_c
      /\ UNCHANGED <<p5_created, p5_counter, errorFlag>>
  BY DEF p5_signal
<1>2. /\ to \in P5_Positions /\ to \in {"tell", "done"}
      /\ to = "tell" <=> p5_c[t] = P5_NUM_THREADS
  BY DEF P5_Positions, IsLast
<1> HIDE DEF to
<1>3. /\ t \in P5_Threads /\ p5_pc[t] = "unlock" /\ ~IsBlocked(p5_sems, t)
      /\ p5_pc' \in [P5_Threads -> P5_Positions]
      /\ p5_pc'[t] = to
      /\ p5_pc'[P5_Main] = p5_pc[P5_Main] /\ \A u \in P5_Tasks \ {t} : p5_pc'[u] = p5_pc[u]
      /\ \A u \in P5_Threads : IsBlocked(p5_sems, u) => p5_pc'[u] = p5_pc[u]
      /\ p5_pc[P5_Main] # "open"
  BY <1>1, <1>2, P5_Moves
<1>4. \A L : /\ CountIn(p5_pc, P5_Tasks, L) \in Nat
             /\ CountIn(p5_pc', P5_Tasks, L) = CountIn(p5_pc, P5_Tasks, L)
                  - (IF "unlock" \in L THEN 1 ELSE 0) + (IF to \in L THEN 1 ELSE 0)
  BY <1>1, <1>2, P5_Moves
<1>5. /\ SemsOK(p5_sems', P5_Sems, P5_Threads, P5_At, p5_pc')
      /\ p5_sems'["mutex"].value = p5_sems["mutex"].value + 1
      /\ p5_sems'["allDone"] = p5_sems["allDone"]
  <2>1. /\ SemsOK(p5_sems, P5_Sems, P5_Threads, P5_At, p5_pc)
        /\ "mutex" \in P5_Sems /\ "allDone" \in P5_Sems \ {"mutex"}
    BY DEF P5_Inv, P5_Sems
  <2> QED BY <1>1, <1>3, <2>1, SemsSignal
<1>6. \A u \in P5_Tasks : ~(p5_pc[u] \in {"tell", "done"} /\ p5_c[u] = P5_NUM_THREADS)
  BY <1>3 DEF P5_Inv, P5_Last
<1>7. ASSUME p5_c[t] = P5_NUM_THREADS
      PROVE  \A u \in P5_Tasks : u # t => p5_pc[u] \in {"tell", "done"}
  <2>1. CountIn(p5_pc, P5_Tasks, P5_Counted) = Cardinality(P5_Tasks)
    BY <1>3, <1>7, P5_Sets DEF P5_Inv, P5_Counts
  <2>2. \A u \in P5_Tasks : p5_pc[u] \in P5_Counted
    BY <2>1, CountBounds, P5_Sets
  <2>3. \A u \in P5_Tasks : u # t /\ p5_pc[u] \in P5_Inside => IsBlocked(p5_sems, u)
    BY <1>3, P5_Exclusion DEF P5_Inside
  <2>4. \A u \in P5_Tasks : p5_pc[u] \in {"reload", "unlock"} => ~IsBlocked(p5_sems, u)
    BY P5_Free, P5_Sets
  <2> QED BY <2>2, <2>3, <2>4 DEF P5_Inside, P5_Counted
<1>8. P5_TypeOK'
  BY <1>1, <1>3, <1>5 DEF P5_Inv, P5_TypeOK, SemsOK
<1>9. P5_Places'
  BY <1>1, <1>2, <1>3 DEF P5_Inv, P5_Places
<1>10. P5_Values'
  <2>1. /\ CountIn(p5_pc, P5_Tasks, P5_Inside) \in Nat
        /\ CountIn(p5_pc', P5_Tasks, P5_Inside) = CountIn(p5_pc, P5_Tasks, P5_Inside) - 1
    BY <1>2, <1>4 DEF P5_Inside
  <2>2. \A u \in P5_Tasks : ~(p5_pc'[u] = "done" /\ p5_c'[u] = P5_NUM_THREADS)
    BY <1>1, <1>2, <1>3, <1>6
  <2>3. \A u \in P5_Tasks : ~(p5_pc[u] = "done" /\ p5_c[u] = P5_NUM_THREADS)
    BY <1>6
  <2> QED BY <1>3, <1>5, <2>1, <2>2, <2>3 DEF P5_Inv, P5_Values, One
<1>11. P5_Counts'
  <2>1. CountIn(p5_pc', P5_Tasks, P5_Counted) = CountIn(p5_pc, P5_Tasks, P5_Counted)
    BY <1>2, <1>4 DEF P5_Counted
  <2> QED BY <1>1, <1>2, <1>3, <2>1 DEF P5_Inv, P5_Counts
<1>12. P5_Last'
  <2>1. CASE p5_c[t] = P5_NUM_THREADS
    BY <1>1, <1>2, <1>3, <1>6, <1>7, <2>1 DEF P5_Inv, P5_Last
  <2>2. CASE p5_c[t] # P5_NUM_THREADS
    BY <1>1, <1>2, <1>3, <1>6, <2>2 DEF P5_Inv, P5_Last
  <2> QED BY <2>1, <2>2
<1> QED BY <1>1, <1>5, <1>8, <1>9, <1>10, <1>11, <1>12 DEF P5_Inv

LEMMA P5_TellStep ==
    ASSUME P5_Inv, errorFlag = 0, NEW t \in P5_Tasks, p5_signal(t, "tell", "allDone", "done")
    PROVE  P5_Inv' /\ errorFlag' = 0
<1>1. /\ p5_goes(t, "tell", "done") /\ p5_sems' = sem_signal(p5_sems, "allDone")
      /\ p5_c' = p5_c
      /\ UNCHANGED <<p5_created, p5_counter, errorFlag>>
      /\ "done" \in P5_Positions
  BY DEF p5_signal, P5_Positions
<1>2. /\ t \in P5_Threads /\ p5_pc[t] = "tell" /\ ~IsBlocked(p5_sems, t)
      /\ p5_pc' \in [P5_Threads -> P5_Positions]
      /\ p5_pc'[t] = "done"
      /\ p5_pc'[P5_Main] = p5_pc[P5_Main] /\ \A u \in P5_Tasks \ {t} : p5_pc'[u] = p5_pc[u]
      /\ \A u \in P5_Threads : IsBlocked(p5_sems, u) => p5_pc'[u] = p5_pc[u]
      /\ p5_pc[P5_Main] # "open"
  BY <1>1, P5_Moves
<1>3. \A L : /\ CountIn(p5_pc, P5_Tasks, L) \in Nat
             /\ CountIn(p5_pc', P5_Tasks, L) = CountIn(p5_pc, P5_Tasks, L)
                  - (IF "tell" \in L THEN 1 ELSE 0) + (IF "done" \in L THEN 1 ELSE 0)
  BY <1>1, P5_Moves
<1>4. /\ SemsOK(p5_sems', P5_Sems, P5_Threads, P5_At, p5_pc')
      /\ p5_sems'["allDone"].value = p5_sems["allDone"].value + 1
      /\ p5_sems'["mutex"] = p5_sems["mutex"]
  <2>1. /\ SemsOK(p5_sems, P5_Sems, P5_Threads, P5_At, p5_pc)
        /\ "allDone" \in P5_Sems /\ "mutex" \in P5_Sems \ {"allDone"}
    BY DEF P5_Inv, P5_Sems
  <2> QED BY <1>1, <1>2, <2>1, SemsSignal
<1>5. /\ p5_c[t] = P5_NUM_THREADS
      /\ \A u \in P5_Tasks : p5_c[u] = P5_NUM_THREADS => u = t
  BY <1>2 DEF P5_Inv, P5_Last
<1>6. P5_TypeOK'
  BY <1>1, <1>2, <1>4 DEF P5_Inv, P5_TypeOK, SemsOK
<1>7. P5_Places'
  BY <1>1, <1>2 DEF P5_Inv, P5_Places
<1>8. P5_Values'
  <2>1. CountIn(p5_pc', P5_Tasks, P5_Inside) = CountIn(p5_pc, P5_Tasks, P5_Inside)
    BY <1>3 DEF P5_Inside
  <2>2. \E u \in P5_Tasks : p5_pc'[u] = "done" /\ p5_c'[u] = P5_NUM_THREADS
    BY <1>1, <1>2, <1>5
  <2>3. \A u \in P5_Tasks : ~(p5_pc[u] = "done" /\ p5_c[u] = P5_NUM_THREADS)
    BY <1>2, <1>5
  <2> QED BY <1>2, <1>4, <2>1, <2>2, <2>3 DEF P5_Inv, P5_Values, One
<1>9. P5_Counts'
  <2>1. CountIn(p5_pc', P5_Tasks, P5_Counted) = CountIn(p5_pc, P5_Tasks, P5_Counted)
    BY <1>3 DEF P5_Counted
  <2> QED BY <1>1, <1>2, <2>1 DEF P5_Inv, P5_Counts
<1>10. P5_Last'
  BY <1>1, <1>2 DEF P5_Inv, P5_Last
<1> QED BY <1>1, <1>4, <1>6, <1>7, <1>8, <1>9, <1>10 DEF P5_Inv

LEMMA P5_OpenStep ==
    ASSUME P5_Inv, errorFlag = 0, p5_open
    PROVE  P5_Inv' /\ errorFlag' = 0
<1>1. /\ p5_pc[P5_Main] = "open"
      /\ p5_pc' = [p5_pc EXCEPT ![P5_Main] = "create"]
      /\ p5_sems' = [mutex |-> sem_open(1), allDone |-> sem_open(0)]
      /\ UNCHANGED <<p5_c, p5_created, p5_counter, errorFlag>>
      /\ p5_pc \in [P5_Threads -> P5_Positions]
  BY DEF p5_open, p5_goes, P5_Inv, P5_TypeOK
<1>2. p5_pc'[P5_Main] = "create" /\ \A u \in P5_Tasks : p5_pc'[u] = p5_pc[u]
  BY <1>1, P5_Sets
<1>3. \A u \in P5_Tasks : p5_pc[u] = "unborn"
  BY <1>1 DEF P5_Inv, P5_Places, P5_Tasks
<1>4. /\ DOMAIN p5_sems' = P5_Sems
      /\ p5_sems' = [s \in P5_Sems |-> p5_sems'[s]]
      /\ p5_sems'["mutex"] = sem_open(1)
      /\ p5_sems'["allDone"] = sem_open(0)
  BY <1>1 DEF P5_Sems
<1>5. SemsOK(p5_sems', P5_Sems, P5_Threads, P5_At, p5_pc')
  <2>1. \A s \in P5_Sems : \E n \in Nat : p5_sems'[s] = sem_open(n)
    BY <1>4 DEF P5_Sems
  <2> QED BY <1>4, <2>1, SemsOpened
<1>6. /\ CountIn(p5_pc', P5_Tasks, P5_Inside) = 0
      /\ CountIn(p5_pc', P5_Tasks, P5_Counted) = 0
      /\ CountIn(p5_pc, P5_Tasks, P5_Counted) = 0
  BY <1>2, <1>3, P5_Sets, CountBounds DEF P5_Inside, P5_Counted
<1>7. P5_TypeOK'
  BY <1>1, <1>5 DEF P5_Inv, P5_TypeOK, SemsOK, P5_Positions
<1>8. P5_Places'
  <2>1. 0 < P5_NUM_THREADS
    BY P5_Sets
  <2> QED BY <1>1, <1>2, <2>1 DEF P5_Inv, P5_Places
<1>9. P5_Values'
  BY <1>1, <1>2, <1>3, <1>4, <1>6 DEF P5_Values, One, sem_open
<1>10. P5_Counts' /\ P5_Last'
  BY <1>1, <1>2, <1>3, <1>6 DEF P5_Inv, P5_Counts, P5_Last
<1> QED BY <1>1, <1>5, <1>7, <1>8, <1>9, <1>10 DEF P5_Inv

LEMMA P5_CreateStep ==
    ASSUME P5_Inv, errorFlag = 0, p5_create
    PROVE  P5_Inv' /\ errorFlag' = 0
<1> DEFINE n == p5_created + 1
<1> DEFINE to == IF n < P5_NUM_THREADS THEN "create" ELSE "await"
<1>1. /\ p5_pc[P5_Main] = "create"
      /\ p5_created' = n
      /\ p5_pc' = [p5_pc EXCEPT ![P5_Main] = to, ![n] = "lock"]
      /\ UNCHANGED <<p5_c, p5_sems, p5_counter, errorFlag>>
      /\ p5_pc \in [P5_Threads -> P5_Positions]
  BY DEF p5_create, P5_Inv, P5_TypeOK
<1>2. /\ p5_created \in 0..P5_NUM_THREADS /\ p5_created < P5_NUM_THREADS
      /\ P5_NUM_THREADS \in Nat
  BY <1>1, P5_Sets DEF P5_Inv, P5_TypeOK, P5_Places
<1>3. n \in P5_Tasks /\ n \in P5_Threads /\ n # P5_Main
  BY <1>2 DEF P5_Tasks, P5_Threads, P5_Main
<1>4. p5_pc[n] = "unborn" /\ \A u \in P5_Tasks : u > n <=> (u > p5_created /\ u # n)
  <2>1. n > p5_created
    BY <1>2
  <2> QED BY <1>2, <1>3, <2>1 DEF P5_Inv, P5_Places, P5_Tasks
<1>5. /\ n < P5_NUM_THREADS => to = "create"
      /\ ~(n < P5_NUM_THREADS) => to = "await" /\ n = P5_NUM_THREADS
      /\ to \in P5_Positions /\ "lock" \in P5_Positions
  BY <1>2 DEF P5_Positions
<1> HIDE DEF n, to
<1>6. /\ p5_pc'[P5_Main] = to /\ p5_pc'[n] = "lock"
      /\ \A u \in P5_Tasks \ {n} : p5_pc'[u] = p5_pc[u]
      /\ p5_pc' \in [P5_Threads -> P5_Positions]
  BY <1>1, <1>3, <1>5, P5_Sets
<1>7. SemsOK(p5_sems', P5_Sems, P5_Threads, P5_At, p5_pc')
  <2>1. ~IsBlocked(p5_sems, P5_Main) /\ ~IsBlocked(p5_sems, n)
    BY <1>1, <1>3, <1>4, P5_Free, P5_Sets
  <2>2. \A u \in P5_Threads : IsBlocked(p5_sems, u) => p5_pc'[u] = p5_pc[u]
    BY <1>6, <2>1, P5_Sets
  <2>3. SemsOK(p5_sems, P5_Sems, P5_Threads, P5_At, p5_pc) /\ p5_sems' = p5_sems
    BY <1>1 DEF P5_Inv
  <2> QED BY <2>2, <2>3, SemsSame
<1>8. \A L : "unborn" \notin L /\ "lock" \notin L =>
          CountIn(p5_pc', P5_Tasks, L) = CountIn(p5_pc, P5_Tasks, L)
  <2>1. ASSUME NEW L, "unborn" \notin L, "lock" \notin L
        PROVE  {t \in P5_Tasks : p5_pc'[t] \in L} = {t \in P5_Tasks : p5_pc[t] \in L}
    BY <1>4, <1>6, <2>1
  <2> QED BY <2>1 DEF CountIn
<1>9. P5_TypeOK'
  BY <1>1, <1>2, <1>3, <1>6, <1>7 DEF P5_Inv, P5_TypeOK, SemsOK, P5_Tasks
<1>10. P5_Places'
  <2>1. \A u \in P5_Tasks :
         /\ p5_pc'[u] \in {"unborn", "lock", "load", "store", "reload", "unlock", "tell", "done"}
         /\ p5_pc'[u] = "unborn" <=> u > n
    BY <1>4, <1>6 DEF P5_Inv, P5_Places
  <2> QED BY <1>1, <1>5, <1>6, <2>1 DEF P5_Inv, P5_Places
<1>11. P5_Values'
  <2>1. CountIn(p5_pc', P5_Tasks, P5_Inside) = CountIn(p5_pc, P5_Tasks, P5_Inside)
    BY <1>8 DEF P5_Inside
  <2>2. (\E u \in P5_Tasks : p5_pc'[u] = "done" /\ p5_c'[u] = P5_NUM_THREADS)
          <=> \E u \in P5_Tasks : p5_pc[u] = "done" /\ p5_c[u] = P5_NUM_THREADS
    BY <1>1, <1>4, <1>6
  <2> QED BY <1>1, <1>5, <1>6, <2>1, <2>2 DEF P5_Inv, P5_Values, One
<1>12. P5_Counts'
  <2>1. CountIn(p5_pc', P5_Tasks, P5_Counted) = CountIn(p5_pc, P5_Tasks, P5_Counted)
    BY <1>8 DEF P5_Counted
  <2> QED BY <1>1, <1>6, <2>1 DEF P5_Inv, P5_Counts
<1>13. P5_Last'
  BY <1>1, <1>3, <1>4, <1>6 DEF P5_Inv, P5_Last
<1> QED BY <1>1, <1>7, <1>9, <1>10, <1>11, <1>12, <1>13 DEF P5_Inv

\* What the last part of runPhase5() changes.
LEMMA P5_AwaitStep ==
    ASSUME P5_Inv, errorFlag = 0, p5_wait(P5_Main, "await", "allDone", "check")
    PROVE  P5_Inv' /\ errorFlag' = 0
<1>1. /\ p5_pc[P5_Main] = "await" /\ ~IsBlocked(p5_sems, P5_Main)
      /\ p5_pc' = [p5_pc EXCEPT ![P5_Main] = "check"]
      /\ p5_sems' = sem_wait(p5_sems, "allDone", P5_Main)
      /\ UNCHANGED <<p5_c, p5_created, p5_counter, errorFlag>>
      /\ p5_pc \in [P5_Threads -> P5_Positions]
  BY DEF p5_wait, p5_goes, P5_Inv, P5_TypeOK
<1>2. /\ p5_pc'[P5_Main] = "check" /\ \A u \in P5_Tasks : p5_pc'[u] = p5_pc[u]
      /\ \A u \in P5_Threads \ {P5_Main} : p5_pc'[u] = p5_pc[u]
      /\ p5_pc' \in [P5_Threads -> P5_Positions]
  BY <1>1, P5_Sets DEF P5_Positions
<1>3. /\ SemsOK(p5_sems', P5_Sems, P5_Threads, P5_At, p5_pc')
      /\ p5_sems'["allDone"].value = p5_sems["allDone"].value - 1
      /\ p5_sems'["mutex"] = p5_sems["mutex"]
  <2>1. /\ SemsOK(p5_sems, P5_Sems, P5_Threads, P5_At, p5_pc)
        /\ <<P5_Main, p5_pc'[P5_Main], "allDone">> \in P5_At
        /\ "allDone" \in P5_Sems /\ "mutex" \in P5_Sems \ {"allDone"}
        /\ P5_Main \in P5_Threads
    BY <1>2, P5_Sets DEF P5_Inv, P5_At, P5_Sems
  <2>2. ~IsBlocked(p5_sems, P5_Main) /\ p5_sems' = sem_wait(p5_sems, "allDone", P5_Main)
    BY <1>1
  <2> QED BY <1>2, <2>1, <2>2, SemsWait
<1>4. \A L : CountIn(p5_pc', P5_Tasks, L) = CountIn(p5_pc, P5_Tasks, L)
  <2>1. ASSUME NEW L
        PROVE  {t \in P5_Tasks : p5_pc'[t] \in L} = {t \in P5_Tasks : p5_pc[t] \in L}
    BY <1>2
  <2> QED BY <2>1 DEF CountIn
<1>5. P5_TypeOK'
  BY <1>1, <1>2, <1>3 DEF P5_Inv, P5_TypeOK, SemsOK
<1>6. P5_Places'
  BY <1>1, <1>2 DEF P5_Inv, P5_Places
<1>7. P5_Values'
  <2>1. CountIn(p5_pc, P5_Tasks, P5_Inside) \in Nat
    BY P5_Sets, CountBounds
  <2>2. (\E u \in P5_Tasks : p5_pc'[u] = "done" /\ p5_c'[u] = P5_NUM_THREADS)
          <=> \E u \in P5_Tasks : p5_pc[u] = "done" /\ p5_c[u] = P5_NUM_THREADS
    BY <1>1, <1>2
  <2>3. CountIn(p5_pc', P5_Tasks, P5_Inside) = CountIn(p5_pc, P5_Tasks, P5_Inside)
    BY <1>4
  <2> QED BY <1>1, <1>2, <1>3, <2>1, <2>2, <2>3 DEF P5_Inv, P5_Values, One
<1>8. P5_Counts' /\ P5_Last'
  BY <1>1, <1>2, <1>4 DEF P5_Inv, P5_Counts, P5_Last
<1> QED BY <1>1, <1>3, <1>5, <1>6, <1>7, <1>8 DEF P5_Inv

\* When main is through allDone, every task is done.
LEMMA P5_AllDone ==
    ASSUME P5_Inv, p5_pc[P5_Main] \in {"check", "close"}, ~IsBlocked(p5_sems, P5_Main)
    PROVE  /\ \A t \in P5_Tasks : p5_pc[t] = "done"
           /\ p5_counter = P5_NUM_THREADS
           /\ \A t \in P5_Threads : ~IsBlocked(p5_sems, t)
<1>1. /\ SemsOK(p5_sems, P5_Sems, P5_Threads, P5_At, p5_pc) /\ DOMAIN p5_sems = P5_Sems
      /\ "allDone" \in P5_Sems
  BY DEF P5_Inv, SemsOK, P5_Sems
<1>2. \A t \in P5_Threads : t \notin Range(p5_sems["allDone"].blocked)
  BY <1>1 DEF SemsOK, P5_At, IsBlocked
<1>3. p5_sems["allDone"].value >= 0
  BY <1>1, <1>2, NobodyHeld
<1>4. PICK t \in P5_Tasks : p5_pc[t] = "done" /\ p5_c[t] = P5_NUM_THREADS
  BY <1>3 DEF P5_Inv, P5_Values, One
<1>5. \A u \in P5_Tasks : p5_pc[u] = "done"
  BY <1>4 DEF P5_Inv, P5_Last
<1>6. p5_counter = P5_NUM_THREADS
  <2>1. CountIn(p5_pc, P5_Tasks, P5_Counted) = Cardinality(P5_Tasks)
    BY <1>5, P5_Sets, CountBounds DEF P5_Counted
  <2> QED BY <2>1, P5_Sets DEF P5_Inv, P5_Counts
<1> QED BY <1>5, <1>6, P5_Free, P5_Sets

LEMMA P5_EndStep ==
    ASSUME P5_Inv, errorFlag = 0, p5_check \/ p5_close
    PROVE  P5_Inv' /\ errorFlag' = 0
<1>1. PICK from, to \in P5_Positions :
        /\ \/ from = "check" /\ to = "close"
           \/ from = "close" /\ to = "returned"
        /\ p5_pc[P5_Main] = from /\ ~IsBlocked(p5_sems, P5_Main)
        /\ p5_pc' = [p5_pc EXCEPT ![P5_Main] = to]
        /\ UNCHANGED <<p5_c, p5_created, p5_counter>>
        /\ \/ p5_sems' = p5_sems /\ check(p5_counter = P5_NUM_THREADS)
           \/ p5_sems' = sem_close(p5_sems) /\ errorFlag' = errorFlag
  BY DEF p5_check, p5_close, p5_goes, P5_Positions
<1>2. p5_pc \in [P5_Threads -> P5_Positions] /\ SemsOK(p5_sems, P5_Sems, P5_Threads, P5_At, p5_pc)
  BY DEF P5_Inv, P5_TypeOK
<1>3. /\ \A t \in P5_Tasks : p5_pc[t] = "done"
      /\ p5_counter = P5_NUM_THREADS
      /\ \A t \in P5_Threads : ~IsBlocked(p5_sems, t)
  BY <1>1, P5_AllDone
<1>4. p5_sems' = p5_sems /\ errorFlag' = 0
  <2>1. sem_close(p5_sems) = p5_sems
    BY <1>2, <1>3, SemsClosed
  <2> QED BY <1>1, <1>3, <2>1 DEF check
<1>5. /\ p5_pc'[P5_Main] = to /\ \A u \in P5_Tasks : p5_pc'[u] = p5_pc[u]
      /\ p5_pc' \in [P5_Threads -> P5_Positions]
  BY <1>1, <1>2, P5_Sets
<1>6. SemsOK(p5_sems', P5_Sems, P5_Threads, P5_At, p5_pc')
  <2>1. \A u \in P5_Threads : IsBlocked(p5_sems, u) => p5_pc'[u] = p5_pc[u]
    BY <1>3
  <2> QED BY <1>2, <1>4, <2>1, SemsSame
<1>7. \A L : CountIn(p5_pc', P5_Tasks, L) = CountIn(p5_pc, P5_Tasks, L)
  <2>1. ASSUME NEW L
        PROVE  {t \in P5_Tasks : p5_pc'[t] \in L} = {t \in P5_Tasks : p5_pc[t] \in L}
    BY <1>5
  <2> QED BY <2>1 DEF CountIn
<1>8. P5_TypeOK'
  BY <1>1, <1>4, <1>5 DEF P5_Inv, P5_TypeOK
<1>9. P5_Places'
  BY <1>1, <1>3, <1>5 DEF P5_Inv, P5_Places
<1>10. P5_Values'
  <2>1. (\E u \in P5_Tasks : p5_pc'[u] = "done" /\ p5_c'[u] = P5_NUM_THREADS)
          <=> \E u \in P5_Tasks : p5_pc[u] = "done" /\ p5_c[u] = P5_NUM_THREADS
    BY <1>1, <1>5
  <2>2. CountIn(p5_pc', P5_Tasks, P5_Inside) = CountIn(p5_pc, P5_Tasks, P5_Inside)
    BY <1>7
  <2> QED BY <1>1, <1>4, <1>5, <2>1, <2>2 DEF P5_Inv, P5_Values, One
<1>11. P5_Counts' /\ P5_Last'
  BY <1>1, <1>5, <1>7 DEF P5_Inv, P5_Counts, P5_Last
<1> QED BY <1>4, <1>6, <1>8, <1>9, <1>10, <1>11 DEF P5_Inv

LEMMA P5_InvInit == P5_Init => P5_Inv
<1> SUFFICES ASSUME P5_Init PROVE P5_Inv
  OBVIOUS
<1>1. /\ p5_pc[P5_Main] = "open" /\ \A t \in P5_Tasks : p5_pc[t] = "unborn" /\ t > 0
      /\ p5_created = 0 /\ p5_counter = 0 /\ P5_NUM_THREADS \in Nat \ {0}
  BY P5_Sets DEF P5_Init, P5_Tasks, P5_Threads, P5_Main
<1>2. SemsOK(p5_sems, P5_Sems, P5_Threads, P5_At, p5_pc)
  <2>1. DOMAIN p5_sems = P5_Sems /\ p5_sems = [s \in P5_Sems |-> p5_sems[s]]
        /\ \A s \in P5_Sems : p5_sems[s] = sem_open(0)
    BY DEF P5_Init
  <2> QED BY <2>1, SemsOpened
<1>3. P5_TypeOK
  BY <1>1, <1>2 DEF P5_Init, P5_TypeOK, SemsOK, P5_Positions
<1>4. P5_Places /\ P5_Values /\ P5_Last
  BY <1>1 DEF P5_Init, P5_Places, P5_Values, P5_Last
<1>5. P5_Counts
  BY <1>1, P5_Sets, CountBounds DEF P5_Counts, P5_Counted
<1> QED BY <1>2, <1>3, <1>4, <1>5 DEF P5_Inv

LEMMA P5_InvNext ==
    ASSUME P5_Inv, errorFlag = 0, P5_Next
    PROVE  P5_Inv' /\ errorFlag' = 0
<1>1. CASE runPhase5
  BY <1>1, P5_OpenStep, P5_CreateStep, P5_AwaitStep, P5_EndStep DEF runPhase5
<1>2. ASSUME NEW t \in P5_Tasks, p5_shortTask(t) PROVE P5_Inv' /\ errorFlag' = 0
  BY <1>2, P5_LockStep, P5_MemoryStep, P5_UnlockStep, P5_TellStep DEF p5_shortTask
<1> QED BY <1>1, <1>2 DEF P5_Next

LEMMA P5_InvUnchanged == P5_Inv /\ UNCHANGED p5_vars => P5_Inv'
<1> SUFFICES ASSUME P5_Inv, UNCHANGED p5_vars PROVE P5_Inv'
  OBVIOUS
<1>1. /\ p5_pc' = p5_pc /\ p5_c' = p5_c /\ p5_created' = p5_created /\ p5_sems' = p5_sems
      /\ p5_counter' = p5_counter
  BY DEF p5_vars
<1>2. P5_TypeOK' /\ SemsOK(p5_sems', P5_Sems, P5_Threads, P5_At, p5_pc') /\ P5_Places'
  BY <1>1 DEF P5_Inv, P5_TypeOK, P5_Places
<1>3. P5_Values'
  BY <1>1 DEF P5_Inv, P5_Values
<1>4. P5_Counts' /\ P5_Last'
  BY <1>1 DEF P5_Inv, P5_Counts, P5_Last
<1> QED BY <1>2, <1>3, <1>4 DEF P5_Inv

LEMMA P5_InvSafe == P5_Inv => P5_TypeOK /\ P5_NothingIsUsedAfterClose
BY DEF P5_Inv, P5_Places, P5_NothingIsUsedAfterClose, P5_Tasks

-----------------------------------------------------------------------------
\* The programs: urosUModeThreadTest(), and the phases together.

\* The exit test: the thread stops at its exit, so that the flag, once set, stays.
U_Inv ==
    /\ u_pc \in [U_Threads -> U_Positions]
    /\ u_reg \in [U_Threads -> Nat] /\ finishedCount \in Nat /\ exitTestPassed \in 0..1
    /\ u_pc["workerExit"] \notin {"reset"}
    /\ u_pc["main"] = "check" => exitTestPassed = 1

Inv ==
    /\ program \in {"altUserMain", "urosUModeThreadTest"}
    /\ P1_Inv /\ P2_Inv /\ P3_Inv /\ P4_Inv /\ P5_Inv
    /\ U_Inv
    /\ errorFlag = 0

\* urosUModeThreadTest(), step by step.
LEMMA U_Types ==
    /\ "main" \in U_Threads /\ "workerExit" \in U_Threads
    /\ U_Workers \subseteq U_Threads
    /\ \A w \in U_Workers : w # "main" /\ w # "workerExit"
BY DEF U_Threads, U_Workers

LEMMA U_Goes ==
    ASSUME U_Inv, NEW t \in U_Threads, NEW from, NEW to \in U_Positions, u_goes(t, from, to)
    PROVE  /\ u_pc[t] = from
           /\ u_pc' \in [U_Threads -> U_Positions]
           /\ u_pc'[t] = to /\ \A s \in U_Threads \ {t} : u_pc'[s] = u_pc[s]
BY DEF U_Inv, u_goes

LEMMA U_Create ==
    ASSUME U_Inv, errorFlag = 0, NEW t \in {"A", "B", "C", "D", "workerExit"}, NEW from,
           NEW first \in {"set", "load"}, NEW to \in U_Positions \ {"check"},
           u_create(from, t, first, to)
    PROVE  U_Inv' /\ errorFlag' = 0
<1>1. t \in U_Threads /\ "main" \in U_Threads /\ "workerExit" \in U_Threads /\ t # "main"
      /\ first \in U_Positions /\ to \in U_Positions
  BY DEF U_Threads, U_Workers, U_Positions
<1>2. /\ u_pc' \in [U_Threads -> U_Positions]
      /\ u_pc'["main"] = to /\ u_pc'[t] = first
      /\ \A s \in U_Threads \ {"main", t} : u_pc'[s] = u_pc[s]
  BY <1>1 DEF u_create, U_Inv
<1>3. u_pc'["workerExit"] # "reset" /\ u_pc'["main"] # "check"
  BY <1>1, <1>2 DEF U_Inv
<1> QED
  BY <1>2, <1>3 DEF u_create, U_Inv

LEMMA U_Await ==
    ASSUME U_Inv, errorFlag = 0, NEW from \in U_Positions \ {"check"}, NEW cond \in BOOLEAN,
           NEW to \in U_Positions, to = "check" /\ cond => exitTestPassed # 0,
           u_await(from, cond, to)
    PROVE  U_Inv' /\ errorFlag' = 0
<1> DEFINE target == IF cond THEN to ELSE from
<1>1. "main" \in U_Threads /\ "workerExit" \in U_Threads /\ target \in U_Positions
  BY U_Types
<1>2. u_goes("main", from, target)
  BY DEF u_await
<1>3. target = "check" => exitTestPassed # 0
  OBVIOUS
<1> HIDE DEF target
<1>4. /\ u_pc' \in [U_Threads -> U_Positions]
      /\ u_pc'["main"] = target /\ u_pc'["workerExit"] = u_pc["workerExit"]
  BY <1>1, <1>2, U_Goes
<1>5. exitTestPassed \in 0..1 /\ exitTestPassed # 0 => exitTestPassed = 1
  OBVIOUS
<1> QED
  BY <1>3, <1>4, <1>5 DEF u_await, U_Inv

LEMMA U_MainStep ==
    ASSUME U_Inv, errorFlag = 0, urosUModeThreadTest
    PROVE  U_Inv' /\ errorFlag' = 0
<1>1. {"awaitExit", "createB", "createC", "createD", "awaitAll"} \subseteq U_Positions \ {"check"}
      /\ {"check", "createA", "returned"} \subseteq U_Positions
  BY DEF U_Positions
<1>2. CASE u_create("createExit", "workerExit", "set", "awaitExit")
  BY <1>1, <1>2, U_Create
<1>3. CASE u_await("awaitExit", exitTestPassed # 0, "check")
  BY <1>1, <1>3, U_Await
<1>4. CASE /\ u_goes("main", "check", "createA")
           /\ check(exitTestPassed = 1)
           /\ UNCHANGED <<u_reg, finishedCount, exitTestPassed>>
  <2>1. /\ u_pc["main"] = "check" /\ u_pc' \in [U_Threads -> U_Positions]
        /\ u_pc'["main"] = "createA" /\ u_pc'["workerExit"] = u_pc["workerExit"]
    BY <1>1, <1>4, U_Goes, U_Types
  <2>2. errorFlag' = 0
    BY <1>4, <2>1 DEF check, U_Inv
  <2> QED
    BY <1>4, <2>1, <2>2 DEF U_Inv
<1>5. CASE \/ u_create("createA", "A", "load", "createB")
           \/ u_create("createB", "B", "load", "createC")
           \/ u_create("createC", "C", "load", "createD")
           \/ u_create("createD", "D", "load", "awaitAll")
  BY <1>1, <1>5, U_Create
<1>6. CASE u_await("awaitAll", finishedCount >= Cardinality(U_Workers), "returned")
  <2>1. (finishedCount >= Cardinality(U_Workers)) \in BOOLEAN
    OBVIOUS
  <2>2. "awaitAll" \in U_Positions \ {"check"} /\ "returned" \in U_Positions
        /\ "returned" # "check"
    BY <1>1
  <2> QED
    BY <1>6, <2>1, <2>2, U_Await
<1> QED
  BY <1>2, <1>3, <1>4, <1>5, <1>6 DEF urosUModeThreadTest

LEMMA U_ExitStep ==
    ASSUME U_Inv, errorFlag = 0, u_workerExit
    PROVE  U_Inv' /\ errorFlag' = 0
<1>0. {"exit", "done"} \subseteq U_Positions
  BY DEF U_Positions
<1>1. CASE /\ \E from \in {"set", "reset"} :
                 /\ u_goes("workerExit", from, IF from = "set" THEN "exit" ELSE "done")
                 /\ exitTestPassed' = One(from = "set")
           /\ UNCHANGED <<u_reg, finishedCount, errorFlag>>
  <2>1. PICK from \in {"set", "reset"} :
               /\ u_goes("workerExit", from, IF from = "set" THEN "exit" ELSE "done")
               /\ exitTestPassed' = One(from = "set")
    BY <1>1
  <2>2. from = "set"
    BY <2>1 DEF u_goes, U_Inv
  <2>3. /\ u_pc' \in [U_Threads -> U_Positions]
        /\ u_pc'["workerExit"] = "exit" /\ u_pc'["main"] = u_pc["main"]
    BY <1>0, <2>1, <2>2, U_Goes, U_Types
  <2>4. exitTestPassed' = 1
    BY <2>1, <2>2 DEF One
  <2> QED
    BY <1>1, <2>3, <2>4 DEF U_Inv
<1>2. CASE /\ thread_exit("workerExit", "exit", "reset")
           /\ UNCHANGED <<u_reg, finishedCount, exitTestPassed, errorFlag>>
  <2>1. u_goes("workerExit", "exit", "done")
    BY <1>2 DEF thread_exit
  <2>2. /\ u_pc' \in [U_Threads -> U_Positions]
        /\ u_pc'["workerExit"] = "done" /\ u_pc'["main"] = u_pc["main"]
    BY <1>0, <2>1, U_Goes, U_Types
  <2> QED
    BY <1>2, <2>2 DEF U_Inv
<1> QED
  BY <1>1, <1>2 DEF u_workerExit

LEMMA U_WorkerStep ==
    ASSUME U_Inv, errorFlag = 0, NEW w \in U_Workers, u_worker(w)
    PROVE  U_Inv' /\ errorFlag' = 0
<1>0. {"store", "done"} \subseteq U_Positions
  BY DEF U_Positions
<1>1. PICK from \in {"load", "store"}, to \in {"store", "done"} : u_goes(w, from, to)
  BY DEF u_worker
<1>2. /\ u_pc' \in [U_Threads -> U_Positions]
      /\ u_pc'["workerExit"] = u_pc["workerExit"] /\ u_pc'["main"] = u_pc["main"]
  BY <1>0, <1>1, U_Goes, U_Types
<1>3. u_reg' \in [U_Threads -> Nat] /\ finishedCount' \in Nat
  <2>1. w \in U_Threads
    BY U_Types
  <2> QED
    BY <2>1 DEF u_worker, U_Inv
<1>4. exitTestPassed' = exitTestPassed /\ errorFlag' = 0
  BY DEF u_worker
<1> QED
  BY <1>2, <1>3, <1>4 DEF U_Inv

-----------------------------------------------------------------------------
LEMMA U_InvUnchanged == U_Inv /\ UNCHANGED u_vars => U_Inv'
BY DEF u_vars, U_Inv

LEMMA AltUnchanged ==
    ASSUME P1_Inv, P2_Inv, P3_Inv, P4_Inv, P5_Inv, UNCHANGED alt_vars
    PROVE  P1_Inv' /\ P2_Inv' /\ P3_Inv' /\ P4_Inv' /\ P5_Inv'
BY P1_InvUnchanged, P2_InvUnchanged, P3_InvUnchanged, P4_InvUnchanged, P5_InvUnchanged DEF alt_vars

LEMMA InvInit == Init => Inv
<1> SUFFICES ASSUME Init PROVE Inv
  OBVIOUS
<1>1. P1_Inv /\ P2_Inv /\ P3_Inv /\ P4_Inv /\ P5_Inv
  BY P1_InvInit, P2_InvInit, P3_InvInit, P4_InvInit, P5_InvInit DEF Init
<1>2. U_Inv
  BY DEF Init, U_Inv, U_Threads, U_Workers, U_Positions
<1> QED
  BY <1>1, <1>2 DEF Init, Inv

LEMMA InvNext == Inv /\ [Next]_vars => Inv'
<1> SUFFICES ASSUME Inv, [Next]_vars PROVE Inv'
  OBVIOUS
<1>0. /\ program \in {"altUserMain", "urosUModeThreadTest"} /\ U_Inv /\ errorFlag = 0
      /\ P1_Inv /\ P2_Inv /\ P3_Inv /\ P4_Inv /\ P5_Inv
  BY DEF Inv
<1>1. ASSUME P1_Next, UNCHANGED <<program, u_vars, p2_vars, p3_vars, p4_vars, p5_vars>>
      PROVE  Inv'
  <2>1. P1_Inv' /\ errorFlag' = 0
    BY <1>0, <1>1, P1_InvNext
  <2>2. P2_Inv' /\ P3_Inv' /\ P4_Inv' /\ P5_Inv' /\ U_Inv'
    BY <1>0, <1>1, P2_InvUnchanged, P3_InvUnchanged, P4_InvUnchanged, P5_InvUnchanged,
       U_InvUnchanged
  <2> QED
    BY <1>0, <1>1, <2>1, <2>2 DEF Inv
<1>2. ASSUME P2_Next, UNCHANGED <<program, u_vars, p1_vars, p3_vars, p4_vars, p5_vars>>
      PROVE  Inv'
  <2>1. P2_Inv' /\ errorFlag' = 0
    BY <1>0, <1>2, P2_InvNext
  <2>2. P1_Inv' /\ P3_Inv' /\ P4_Inv' /\ P5_Inv' /\ U_Inv'
    BY <1>0, <1>2, P1_InvUnchanged, P3_InvUnchanged, P4_InvUnchanged, P5_InvUnchanged,
       U_InvUnchanged
  <2> QED
    BY <1>0, <1>2, <2>1, <2>2 DEF Inv
<1>3. ASSUME P3_Next, UNCHANGED <<program, u_vars, p1_vars, p2_vars, p4_vars, p5_vars>>
      PROVE  Inv'
  <2>1. P3_Inv' /\ errorFlag' = 0
    BY <1>0, <1>3, P3_InvNext
  <2>2. P1_Inv' /\ P2_Inv' /\ P4_Inv' /\ P5_Inv' /\ U_Inv'
    BY <1>0, <1>3, P1_InvUnchanged, P2_InvUnchanged, P4_InvUnchanged, P5_InvUnchanged,
       U_InvUnchanged
  <2> QED
    BY <1>0, <1>3, <2>1, <2>2 DEF Inv
<1>4. ASSUME P4_Next, UNCHANGED <<program, u_vars, p1_vars, p2_vars, p3_vars, p5_vars>>
      PROVE  Inv'
  <2>1. P4_Inv' /\ errorFlag' = 0
    BY <1>0, <1>4, P4_InvNext
  <2>2. P1_Inv' /\ P2_Inv' /\ P3_Inv' /\ P5_Inv' /\ U_Inv'
    BY <1>0, <1>4, P1_InvUnchanged, P2_InvUnchanged, P3_InvUnchanged, P5_InvUnchanged,
       U_InvUnchanged
  <2> QED
    BY <1>0, <1>4, <2>1, <2>2 DEF Inv
<1>5. ASSUME P5_Next, UNCHANGED <<program, u_vars, p1_vars, p2_vars, p3_vars, p4_vars>>
      PROVE  Inv'
  <2>1. P5_Inv' /\ errorFlag' = 0
    BY <1>0, <1>5, P5_InvNext
  <2>2. P1_Inv' /\ P2_Inv' /\ P3_Inv' /\ P4_Inv' /\ U_Inv'
    BY <1>0, <1>5, P1_InvUnchanged, P2_InvUnchanged, P3_InvUnchanged, P4_InvUnchanged,
       U_InvUnchanged
  <2> QED
    BY <1>0, <1>5, <2>1, <2>2 DEF Inv
<1>6. CASE altUserMain
  <2>1. CASE p1(runPhase1)
    BY <1>1, <2>1 DEF p1, alt, P1_Next
  <2>2. CASE p2(runPhase2)
    BY <1>2, <2>2 DEF p2, alt, P2_Next
  <2>3. CASE p3(runPhase3)
    BY <1>3, <2>3 DEF p3, alt, P3_Next
  <2>4. CASE p4(runPhase4)
    BY <1>4, <2>4 DEF p4, alt, P4_Next
  <2>5. CASE p5(runPhase5)
    BY <1>5, <2>5 DEF p5, alt, P5_Next
  <2> QED
    BY <1>6, <2>1, <2>2, <2>3, <2>4, <2>5 DEF altUserMain
<1>7. CASE PhaseThreads
  <2>1. CASE p1(p1_consumer)
    BY <1>1, <2>1 DEF p1, alt, P1_Next
  <2>2. CASE \E id \in P1_Producers : p1(p1_producer(id))
    BY <1>1, <2>2 DEF p1, alt, P1_Next
  <2>3. CASE \E id \in P2_Workers : p2(p2_worker(id))
    BY <1>2, <2>3 DEF p2, alt, P2_Next
  <2>4. CASE p3(p3_generator)
    BY <1>3, <2>4 DEF p3, alt, P3_Next
  <2>5. CASE p3(p3_transformer)
    BY <1>3, <2>5 DEF p3, alt, P3_Next
  <2>6. CASE p3(p3_accumulator)
    BY <1>3, <2>6 DEF p3, alt, P3_Next
  <2>7. CASE p4(p4_playerA)
    BY <1>4, <2>7 DEF p4, alt, P4_Next
  <2>8. CASE p4(p4_playerB)
    BY <1>4, <2>8 DEF p4, alt, P4_Next
  <2>9. CASE \E id \in P5_Tasks : p5(p5_shortTask(id))
    BY <1>5, <2>9 DEF p5, alt, P5_Next
  <2> QED
    BY <1>7, <2>1, <2>2, <2>3, <2>4, <2>5, <2>6, <2>7, <2>8, <2>9 DEF PhaseThreads
<1>8. CASE U_Step
  <2>1. U_Inv' /\ errorFlag' = 0 /\ UNCHANGED <<program, alt_vars>>
    BY <1>0, <1>8, U_MainStep, U_ExitStep, U_WorkerStep DEF U_Step, uros
  <2>2. P1_Inv' /\ P2_Inv' /\ P3_Inv' /\ P4_Inv' /\ P5_Inv'
    BY <1>0, <2>1, AltUnchanged
  <2> QED
    BY <1>0, <2>1, <2>2 DEF Inv
<1>9. CASE UNCHANGED vars
  <2>1. UNCHANGED <<program, alt_vars, u_vars, errorFlag>>
    BY <1>9 DEF vars
  <2> QED
    BY <1>0, <2>1, AltUnchanged, U_InvUnchanged DEF Inv
<1> QED
  BY <1>6, <1>7, <1>8, <1>9 DEF Next, Ended

\* The invariants of the five phases and of urosUModeThreadTest() hold in every
\* reachable state: what each thread has done so far and what the semaphores are
\* worth always agree, and no check() has failed.
THEOREM InvAlways == Spec => []Inv
BY InvInit, InvNext, PTL DEF Spec

-----------------------------------------------------------------------------
\* The positions, local variables, semaphores and rings of all threads keep
\* their types; the indices of a ring stay inside it.
THEOREM TypeCorrect == Spec => []TypeOK
<1>1. Inv => TypeOK
  <2> SUFFICES ASSUME Inv PROVE TypeOK
    OBVIOUS
  <2>1. P1_TypeOK /\ P2_TypeOK /\ P3_TypeOK /\ P4_TypeOK /\ P5_TypeOK
    BY P1_InvSafe, P2_InvSafe, P3_InvSafe, P4_InvSafe, P5_InvSafe DEF Inv
  <2> QED
    BY <2>1 DEF Inv, U_Inv, TypeOK
<1> QED
  BY <1>1, InvAlways, PTL

\* check() (altUserMain.cpp:17) never sees a condition that does not hold, for any
\* number of threads and items, any capacity and any interleaving: the counts of
\* phase 1, the slots of phase 2, the sum of phase 3, the turns of phase 4, the
\* counter of phase 5, and the flag of the exit test.
THEOREM ChecksNeverFail == Spec => []AllTestsPassed
<1>1. Inv => AllTestsPassed
  BY DEF Inv, AllTestsPassed
<1> QED
  BY <1>1, InvAlways, PTL

\* When main closes the semaphores of a phase (altUserMain.cpp:110, 197, 313, 372,
\* 431) no thread of the phase has still to use one, and none uses one before they
\* are opened.
THEOREM SemaphoresOutliveTheirUsers == Spec => []NothingIsUsedAfterClose
<1>1. Inv => NothingIsUsedAfterClose
  BY P1_InvSafe, P2_InvSafe, P3_InvSafe, P4_InvSafe, P5_InvSafe DEF Inv, NothingIsUsedAfterClose
<1> QED
  BY <1>1, InvAlways, PTL

\* Behind p2_barrierPhase2() (altUserMain.cpp:154) nobody is left who has still to
\* read the slots, for any number of workers: the barrier could be used again.
THEOREM TheBarrierSeparates == Spec => []BarrierSeparates
<1>1. Inv => BarrierSeparates
  BY P2_InvSafe DEF Inv
<1> QED
  BY <1>1, InvAlways, PTL

\* A step is one of phase 1 or leaves phase 1 alone, and so for phase 3.
LEMMA WhoSteps ==
    ASSUME [Next]_vars
    PROVE  /\ P1_Next \/ UNCHANGED p1_vars
           /\ P3_Next \/ UNCHANGED p3_vars
<1>1. CASE altUserMain
  BY <1>1 DEF altUserMain, alt, p1, p2, p3, p4, p5, P1_Next, P3_Next
<1>2. CASE PhaseThreads
  BY <1>2 DEF PhaseThreads, alt, p1, p2, p3, p4, p5, P1_Next, P3_Next
<1>3. CASE U_Step
  BY <1>3 DEF U_Step, uros, alt_vars
<1>4. CASE UNCHANGED vars
  BY <1>4 DEF vars, alt_vars
<1> QED
  BY <1>1, <1>2, <1>3, <1>4 DEF Next, Ended

\* Inv says what the semaphores of a phase are worth from its open() on; what the
\* rings show before that needs one fact more.
RingInv == P1_Early /\ P3_Early

LEMMA RingInit == Init => RingInv /\ P1Fifo!Init /\ P3aFifo!Init /\ P3bFifo!Init
BY P1_EarlyInit, P3_EarlyInit DEF Init, RingInv, P1Fifo!Init, P3aFifo!Init, P3bFifo!Init

LEMMA RingNext ==
    Inv /\ RingInv /\ [Next]_vars /\ Inv' =>
        /\ RingInv'
        /\ [P1Fifo!Next]_<<p1_contents, p1_ch>>
        /\ [P3aFifo!Next]_<<p3a_contents, p3_val["transformer"]>>
        /\ [P3bFifo!Next]_<<p3b_contents, p3_val["accumulator"]>>
<1> SUFFICES ASSUME Inv, RingInv, [Next]_vars, Inv'
             PROVE  /\ RingInv'
                    /\ [P1Fifo!Next]_<<p1_contents, p1_ch>>
                    /\ [P3aFifo!Next]_<<p3a_contents, p3_val["transformer"]>>
                    /\ [P3bFifo!Next]_<<p3b_contents, p3_val["accumulator"]>>
  OBVIOUS
<1>1. P1_Inv /\ P3_Inv /\ P3_Inv' /\ P1_Early /\ P3_Early
  BY DEF Inv, RingInv
<1>2. /\ (\E v \in P1_Producers : P1_Puts(v)) \/ P1_Gets \/ P1_ShowsNothing
      /\ P1_Early'
  BY <1>1, WhoSteps, P1_EarlyNext, P1_EarlyUnchanged
<1>3. /\ (\E v \in 1..P3_COUNT \union {-1} : P3_PutsA(v)) \/ P3_GetsA \/ P3_ShowsNothingA
      /\ (\E v \in {3 * i : i \in 1..P3_COUNT} \union {-1} : P3_PutsB(v)) \/ P3_GetsB
            \/ P3_ShowsNothingB
      /\ P3_Early'
  <2>1. CASE P3_Next
    BY <1>1, <2>1, P3_EarlyNext
  <2>2. CASE UNCHANGED p3_vars
    BY <1>1, <2>2, P3_EarlyUnchanged
  <2> QED BY <2>1, <2>2, WhoSteps
<1>4. [P1Fifo!Next]_<<p1_contents, p1_ch>>
  BY <1>2 DEF P1_Puts, P1_Gets, P1_ShowsNothing, P1Fifo!Next, P1Fifo!Put, P1Fifo!Get
<1>5. [P3aFifo!Next]_<<p3a_contents, p3_val["transformer"]>>
  BY <1>3 DEF P3_PutsA, P3_GetsA, P3_ShowsNothingA, P3aFifo!Next, P3aFifo!Put, P3aFifo!Get
<1>6. [P3bFifo!Next]_<<p3b_contents, p3_val["accumulator"]>>
  BY <1>3 DEF P3_PutsB, P3_GetsB, P3_ShowsNothingB, P3bFifo!Next, P3bFifo!Put, P3bFifo!Get
<1> QED BY <1>2, <1>3, <1>4, <1>5, <1>6 DEF RingInv

\* The ring of phase 1 and the two pipes of phase 3 implement a bounded queue for
\* any capacity and any number of producers: bufPut() and pipePut() overwrite
\* nothing, and bufGet() and pipeGet() take nothing twice and in no other order.
THEOREM TheRingsAreFifos == Spec => RingsAreFifos
BY InvAlways, RingInit, RingNext, PTL
   DEF Spec, RingsAreFifos, P1Fifo!Spec, P3aFifo!Spec, P3bFifo!Spec

=============================================================================
