-------------------------- MODULE TestRingProofs --------------------------
(***************************************************************************)
(* What the proofs about the test programs share, lemmas on semaphores and *)
(* ring buffers, and the proofs about phase 1 of altUserMain(), for every  *)
(* number of producers and items and every capacity of the ring: no item   *)
(* is lost or counted for another producer, no closed semaphore is used,   *)
(* and the ring is a FIFO buffer.                                          *)
(***************************************************************************)
EXTENDS TestProducers, QueueLemmas, FiniteSetTheorems

-----------------------------------------------------------------------------
\* Counting threads, and semaphores.

\* The threads of T whose position is one of L.
CountIn(pc, T, L) == Cardinality({t \in T : pc[t] \in L})

\* A step of thread t changes the number of threads at positions L by what t
\* itself does.
LEMMA CountMoves ==
    ASSUME NEW T, IsFiniteSet(T), NEW pc, NEW pc2, NEW t \in T, NEW L,
           \A u \in T \ {t} : pc2[u] = pc[u]
    PROVE  CountIn(pc2, T, L) = CountIn(pc, T, L) - (IF pc[t] \in L THEN 1 ELSE 0)
                                                   + (IF pc2[t] \in L THEN 1 ELSE 0)
<1> DEFINE A == {u \in T : pc[u] \in L}
<1> DEFINE B == {u \in T : pc2[u] \in L}
<1>1. IsFiniteSet(A) /\ Cardinality(A) \in Nat
  BY FS_Subset, FS_CardinalityType
<1>2. B = IF pc2[t] \in L THEN (A \ {t}) \union {t} ELSE A \ {t}
  OBVIOUS
<1>3. t \in A <=> pc[t] \in L
  OBVIOUS
<1> HIDE DEF A, B
<1>4. /\ IsFiniteSet(A \ {t})
      /\ Cardinality(A \ {t}) = IF t \in A THEN Cardinality(A) - 1 ELSE Cardinality(A)
  BY <1>1, FS_RemoveElement
<1>5. Cardinality((A \ {t}) \union {t}) = Cardinality(A \ {t}) + 1
  BY <1>4, FS_AddElement
<1>6. Cardinality(B) = Cardinality(A) - (IF pc[t] \in L THEN 1 ELSE 0)
                                      + (IF pc2[t] \in L THEN 1 ELSE 0)
  BY <1>1, <1>2, <1>3, <1>4, <1>5
<1> QED BY <1>6 DEF CountIn, A, B

\* The number at its bounds.
LEMMA CountBounds ==
    ASSUME NEW T, IsFiniteSet(T), NEW pc, NEW L
    PROVE  /\ CountIn(pc, T, L) \in 0..Cardinality(T)
           /\ CountIn(pc, T, L) \in Nat
           /\ CountIn(pc, T, L) = Cardinality(T) <=> \A t \in T : pc[t] \in L
           /\ CountIn(pc, T, L) = 0 <=> \A t \in T : pc[t] \notin L
<1> DEFINE A == {u \in T : pc[u] \in L}
<1>1. IsFiniteSet(A) /\ Cardinality(A) <= Cardinality(T) /\ (Cardinality(T) = Cardinality(A) => T = A)
  BY FS_Subset
<1>2. Cardinality(A) \in Nat /\ Cardinality(T) \in Nat
  BY <1>1, FS_CardinalityType
<1>3. Cardinality(A) = 0 <=> A = {}
  BY <1>1, FS_EmptySet
<1>4. A = {} <=> \A t \in T : pc[t] \notin L
  OBVIOUS
<1>5. A = T <=> \A t \in T : pc[t] \in L
  OBVIOUS
<1> HIDE DEF A
<1> QED BY <1>1, <1>2, <1>3, <1>4, <1>5 DEF CountIn, A

-----------------------------------------------------------------------------
\* Semaphores.  <<t, p, s>> is in At if thread t at position p has just called
\* the wait() of semaphore s and may still be in it.

SemOK(sem, T) ==
    /\ sem \in [value : Int, blocked : Seq(T)]
    /\ IsInjective(sem.blocked)
    /\ Len(sem.blocked) = IF sem.value < 0 THEN -sem.value ELSE 0

\* What sem_wait() and sem_signal() make of one semaphore.
Waited(sem, t) ==
    [value |-> sem.value - 1,
     blocked |-> IF Blocks(sem.value - 1) THEN Append(sem.blocked, t) ELSE sem.blocked]
Signalled(sem) ==
    [value |-> sem.value + 1,
     blocked |-> IF sem.blocked = <<>> THEN <<>> ELSE Tail(sem.blocked)]

SemsOK(sems, S, T, At, pc) ==
    /\ DOMAIN sems = S
    /\ \A s \in S : sems[s] = [value |-> sems[s].value, blocked |-> sems[s].blocked]
    /\ SemsType(sems, S, T)
    /\ \A s \in S : SemOK(sems[s], T) /\ \A t \in Range(sems[s].blocked) : <<t, pc[t], s>> \in At

LEMMA SemWait ==
    ASSUME NEW T, NEW sem, SemOK(sem, T), NEW t \in T, t \notin Range(sem.blocked)
    PROVE  /\ SemOK(Waited(sem, t), T)
           /\ Waited(sem, t).value = sem.value - 1
           /\ Range(Waited(sem, t).blocked) =
                  IF sem.value - 1 < 0 THEN Range(sem.blocked) \union {t} ELSE Range(sem.blocked)
<1>1. /\ sem.value \in Int /\ sem.blocked \in Seq(T)
      /\ IsInjective(sem.blocked)
      /\ Len(sem.blocked) = IF sem.value < 0 THEN -sem.value ELSE 0
  BY DEF SemOK
<1> DEFINE q == sem.blocked
<1> DEFINE p == Append(q, t)
<1>2. /\ p \in Seq(T)
      /\ Range(p) = Range(q) \union {t}
      /\ IsInjective(p)
      /\ Len(p) = Len(q) + 1
  <2>1. p \in Seq(T) /\ Range(p) = Range(q) \union {t} /\ IsInjective(p)
    BY <1>1, LastPut
  <2>2. Len(p) = Len(q) + 1
    BY <1>1
  <2> QED BY <2>1, <2>2
<1> HIDE DEF p, q
<1> DEFINE r == Waited(sem, t)
<1>3. r = [value |-> sem.value - 1, blocked |-> IF sem.value - 1 < 0 THEN p ELSE q]
  BY DEF Waited, Blocks, p, q
<1>4. r.value = sem.value - 1 /\ r.blocked = IF sem.value - 1 < 0 THEN p ELSE q
  BY <1>3
<1>5. r \in [value : Int, blocked : Seq(T)]
  BY <1>1, <1>2, <1>3 DEF q
<1> HIDE DEF r
<1>6. IsInjective(r.blocked)
  BY <1>1, <1>2, <1>4 DEF q
<1>7. Len(r.blocked) = IF r.value < 0 THEN -r.value ELSE 0
  <2>1. sem.value \in Int /\ Len(q) = IF sem.value < 0 THEN -sem.value ELSE 0
    BY <1>1 DEF q
  <2>2. CASE sem.value - 1 < 0
    <3>1. r.blocked = p /\ Len(p) = Len(q) + 1
      BY <1>2, <1>4, <2>2
    <3>2. r.value = sem.value - 1
      BY <1>4
    <3>3. Len(q) = -sem.value
      BY <2>1, <2>2
    <3>4. Len(r.blocked) = -sem.value + 1
      BY <3>1, <3>3
    <3> QED BY <2>1, <2>2, <3>2, <3>4
  <2>3. CASE ~(sem.value - 1 < 0)
    <3>1. r.blocked = q
      BY <1>4, <2>3
    <3> QED BY <1>4, <2>1, <2>3, <3>1
  <2> QED BY <2>2, <2>3
<1>8. Range(r.blocked) = IF sem.value - 1 < 0 THEN Range(q) \union {t} ELSE Range(q)
  BY <1>2, <1>4
<1> QED BY <1>4, <1>5, <1>6, <1>7, <1>8 DEF SemOK, r, q

LEMMA SemSignal ==
    ASSUME NEW T, NEW sem, SemOK(sem, T)
    PROVE  /\ SemOK(Signalled(sem), T)
           /\ Signalled(sem).value = sem.value + 1
           /\ Range(Signalled(sem).blocked) \subseteq Range(sem.blocked)
<1>1. /\ sem.value \in Int /\ sem.blocked \in Seq(T)
      /\ IsInjective(sem.blocked)
      /\ Len(sem.blocked) = IF sem.value < 0 THEN -sem.value ELSE 0
  BY DEF SemOK
<1> DEFINE q == sem.blocked
<1> DEFINE p == IF q = <<>> THEN <<>> ELSE Tail(q)
<1>2. CASE q = <<>>
  <2>1. p = q
    BY <1>2
  <2>2. Len(q) = 0
    BY <1>2
  <2>3. sem.value >= 0
    BY <2>2, <1>1 DEF q
  <2>4. Signalled(sem) = [value |-> sem.value + 1, blocked |-> q]
    BY <1>2 DEF Signalled, q
  <2> QED BY <1>1, <2>2, <2>3, <2>4 DEF SemOK, q
<1>3. CASE q # <<>>
  <2>1. /\ Tail(q) \in Seq(T)
        /\ Range(q) = Range(Tail(q)) \union {Head(q)}
        /\ IsInjective(Tail(q))
    BY <1>1, <1>3, FirstTaken
  <2>2. Len(Tail(q)) = Len(q) - 1 /\ Len(q) \in Nat /\ Len(q) > 0
    BY <1>1, <1>3
  <2>3. sem.value < 0 /\ Len(q) = -sem.value
    BY <2>2, <1>1
  <2>4. Signalled(sem) = [value |-> sem.value + 1, blocked |-> Tail(q)]
    BY <1>3 DEF Signalled, q
  <2> HIDE DEF q
  <2>5. Len(Tail(q)) = IF sem.value + 1 < 0 THEN -(sem.value + 1) ELSE 0
    BY <1>1, <2>2, <2>3
  <2> QED BY <1>1, <2>1, <2>4, <2>5 DEF SemOK, q
<1> QED BY <1>2, <1>3

LEMMA SemsWait ==
    ASSUME NEW S, NEW T, NEW At, NEW pc, NEW sems, SemsOK(sems, S, T, At, pc),
           NEW t \in T, ~IsBlocked(sems, t), NEW s \in S,
           NEW pc2, <<t, pc2[t], s>> \in At, \A u \in T \ {t} : pc2[u] = pc[u]
    PROVE  /\ SemsOK(sem_wait(sems, s, t), S, T, At, pc2)
           /\ sem_wait(sems, s, t)[s].value = sems[s].value - 1
           /\ \A r \in S \ {s} : sem_wait(sems, s, t)[r] = sems[r]
           /\ \A u \in T \ {t} : IsBlocked(sem_wait(sems, s, t), u) <=> IsBlocked(sems, u)
           /\ IsBlocked(sem_wait(sems, s, t), t) <=> sems[s].value - 1 < 0
<1> DEFINE sems2 == sem_wait(sems, s, t)
<1>0. sems2 = [sems EXCEPT ![s] = Waited(@, t)]
  BY DEF sem_wait, Waited
<1> HIDE DEF sems2
<1>1. DOMAIN sems = S /\ SemOK(sems[s], T) /\ t \notin Range(sems[s].blocked)
  BY DEF SemsOK, IsBlocked
<1>2. /\ SemOK(Waited(sems[s], t), T)
      /\ Waited(sems[s], t).value = sems[s].value - 1
      /\ Range(Waited(sems[s], t).blocked) =
             IF sems[s].value - 1 < 0 THEN Range(sems[s].blocked) \union {t}
             ELSE Range(sems[s].blocked)
  BY <1>1, SemWait
<1>3. /\ DOMAIN sems2 = S
      /\ sems2[s] = Waited(sems[s], t)
      /\ \A r \in S \ {s} : sems2[r] = sems[r]
  BY <1>1, <1>0 DEF SemsOK
<1>4. \A r \in S : SemOK(sems2[r], T)
  BY <1>2, <1>3 DEF SemsOK
<1>5. \A r \in S : Range(sems[r].blocked) \subseteq T
  <2>1. \A r \in S : sems[r].blocked \in Seq(T)
    BY DEF SemsOK, SemOK
  <2> QED BY <2>1 DEF Range
<1>6. ASSUME NEW r \in S, NEW u \in Range(sems2[r].blocked) PROVE <<u, pc2[u], r>> \in At
  <2>1. CASE u \in Range(sems[r].blocked)
    <3>1. u \in T /\ IsBlocked(sems, u) /\ <<u, pc[u], r>> \in At
      BY <1>1, <1>5, <2>1 DEF SemsOK, IsBlocked
    <3>2. u # t
      BY <3>1
    <3> QED BY <3>1, <3>2
  <2>2. CASE u \notin Range(sems[r].blocked)
    <3>1. r = s
      BY <1>3, <1>6, <2>2
    <3>2. u = t
      BY <1>2, <1>3, <1>6, <2>2, <3>1
    <3> QED BY <3>1, <3>2
  <2> QED BY <2>1, <2>2
<1>7. \A u \in T \ {t} : IsBlocked(sems2, u) <=> IsBlocked(sems, u)
  BY <1>1, <1>2, <1>3 DEF IsBlocked
<1>8. IsBlocked(sems2, t) <=> sems[s].value - 1 < 0
  BY <1>1, <1>2, <1>3 DEF IsBlocked
<1>9. SemsType(sems2, S, T)
  BY <1>0, <1>1, <1>3, <1>4 DEF SemOK, SemsOK, SemsType
<1>10. \A r \in S : sems2[r] = [value |-> sems2[r].value, blocked |-> sems2[r].blocked]
  BY <1>9 DEF SemsType
<1> QED BY <1>2, <1>3, <1>4, <1>6, <1>7, <1>8, <1>9, <1>10 DEF SemsOK, sems2

LEMMA SemsSignal ==
    ASSUME NEW S, NEW T, NEW At, NEW pc, NEW sems, SemsOK(sems, S, T, At, pc), NEW s \in S,
           NEW pc2, \A u \in T : IsBlocked(sems, u) => pc2[u] = pc[u]
    PROVE  /\ SemsOK(sem_signal(sems, s), S, T, At, pc2)
           /\ sem_signal(sems, s)[s].value = sems[s].value + 1
           /\ \A r \in S \ {s} : sem_signal(sems, s)[r] = sems[r]
           /\ \A u \in T : IsBlocked(sem_signal(sems, s), u) => IsBlocked(sems, u)
<1> DEFINE sems2 == sem_signal(sems, s)
<1>0. sems2 = [sems EXCEPT ![s] = Signalled(@)]
  BY DEF sem_signal, Signalled
<1> HIDE DEF sems2
<1>1. DOMAIN sems = S /\ SemOK(sems[s], T)
  BY DEF SemsOK
<1>2. /\ SemOK(Signalled(sems[s]), T)
      /\ Signalled(sems[s]).value = sems[s].value + 1
      /\ Range(Signalled(sems[s]).blocked) \subseteq Range(sems[s].blocked)
  BY <1>1, SemSignal
<1>3. /\ DOMAIN sems2 = S
      /\ sems2[s] = Signalled(sems[s])
      /\ \A r \in S \ {s} : sems2[r] = sems[r]
  BY <1>1, <1>0 DEF SemsOK
<1>4. \A r \in S : SemOK(sems2[r], T)
  BY <1>2, <1>3 DEF SemsOK
<1>5. \A r \in S : Range(sems[r].blocked) \subseteq T
  <2>1. \A r \in S : sems[r].blocked \in Seq(T)
    BY DEF SemsOK, SemOK
  <2> QED BY <2>1 DEF Range
<1>6. \A r \in S : Range(sems2[r].blocked) \subseteq Range(sems[r].blocked)
  BY <1>2, <1>3
<1>7. ASSUME NEW r \in S, NEW u \in Range(sems2[r].blocked) PROVE <<u, pc2[u], r>> \in At
  <2>1. u \in Range(sems[r].blocked)
    BY <1>6
  <2>2. u \in T /\ IsBlocked(sems, u) /\ <<u, pc[u], r>> \in At
    BY <1>1, <1>5, <2>1 DEF SemsOK, IsBlocked
  <2> QED BY <2>2
<1>8. \A u \in T : IsBlocked(sems2, u) => IsBlocked(sems, u)
  BY <1>1, <1>3, <1>6 DEF IsBlocked
<1>9. SemsType(sems2, S, T)
  BY <1>0, <1>1, <1>3, <1>4 DEF SemOK, SemsOK, SemsType
<1>10. \A r \in S : sems2[r] = [value |-> sems2[r].value, blocked |-> sems2[r].blocked]
  BY <1>9 DEF SemsType
<1> QED BY <1>2, <1>3, <1>4, <1>7, <1>8, <1>9, <1>10 DEF SemsOK, sems2

LEMMA SemsSame ==
    ASSUME NEW S, NEW T, NEW At, NEW pc, NEW sems, SemsOK(sems, S, T, At, pc),
           NEW pc2, \A u \in T : IsBlocked(sems, u) => pc2[u] = pc[u]
    PROVE  SemsOK(sems, S, T, At, pc2)
<1>1. DOMAIN sems = S
  BY DEF SemsOK
<1>2. \A r \in S : Range(sems[r].blocked) \subseteq T
  <2>1. \A r \in S : sems[r].blocked \in Seq(T)
    BY DEF SemsOK, SemOK
  <2> QED BY <2>1 DEF Range
<1>3. ASSUME NEW r \in S, NEW u \in Range(sems[r].blocked) PROVE <<u, pc2[u], r>> \in At
  BY <1>1, <1>2 DEF SemsOK, IsBlocked
<1> QED BY <1>3 DEF SemsOK

\* Semaphores just opened: nobody waits.
LEMMA SemsOpened ==
    ASSUME NEW S, NEW T, NEW At, NEW pc, NEW sems, DOMAIN sems = S, sems = [s \in S |-> sems[s]],
           \A s \in S : \E n \in Nat : sems[s] = sem_open(n)
    PROVE  SemsOK(sems, S, T, At, pc) /\ \A t : ~IsBlocked(sems, t)
<1>1. \A s \in S : sems[s].value \in Nat /\ sems[s].blocked = <<>> /\ sems[s] = [value |-> sems[s].value, blocked |-> <<>>]
  BY DEF sem_open
<1>2. <<>> \in Seq(T) /\ Len(<<>>) = 0 /\ Range(<<>>) = {} /\ IsInjective(<<>>)
  BY DEF Range, IsInjective
<1>3. ASSUME NEW s \in S PROVE SemOK(sems[s], T)
  <2> DEFINE sem == sems[s]
  <2>1. sem.value \in Nat /\ sem.blocked = <<>> /\ sem = [value |-> sem.value, blocked |-> <<>>]
    BY <1>1
  <2> HIDE DEF sem
  <2>2. sem \in [value : Int, blocked : Seq(T)]
    <3>1. \A v \in Int, q \in Seq(T) : [value |-> v, blocked |-> q] \in [value : Int, blocked : Seq(T)]
      OBVIOUS
    <3>2. sem.value \in Int /\ <<>> \in Seq(T)
      BY <1>2, <2>1
    <3>3. [value |-> sem.value, blocked |-> <<>>] \in [value : Int, blocked : Seq(T)]
      BY <3>1, <3>2
    <3> QED BY <2>1, <3>3
  <2>3. SemOK(sem, T)
    BY <1>2, <2>1, <2>2 DEF SemOK
  <2> QED BY <2>3 DEF sem
<1>4. SemsType(sems, S, T)
  BY <1>3 DEF SemOK, SemsType
<1> QED BY <1>1, <1>2, <1>3, <1>4 DEF SemsOK, IsBlocked

\* Closing when nobody waits changes nothing.
LEMMA SemsClosed ==
    ASSUME NEW S, NEW T, NEW At, NEW pc, NEW sems, SemsOK(sems, S, T, At, pc),
           \A t \in T : ~IsBlocked(sems, t)
    PROVE  sem_close(sems) = sems
<1>1. ASSUME NEW s \in S PROVE sems[s].blocked = <<>>
  <2>1. sems[s].blocked \in Seq(T)
    BY DEF SemsOK, SemOK
  <2>2. \A t \in T : t \notin Range(sems[s].blocked)
    BY DEF IsBlocked, SemsOK
  <2>3. SUFFICES ASSUME sems[s].blocked # <<>> PROVE FALSE
    OBVIOUS
  <2>4. sems[s].blocked[1] \in T /\ 1 \in DOMAIN sems[s].blocked
    BY <2>1, <2>3
  <2> QED BY <2>2, <2>4 DEF Range
<1>2. \A s \in S : [sems[s] EXCEPT !.blocked = <<>>] = sems[s]
  BY <1>1 DEF SemsOK
<1>3. sem_close(sems) = [s \in S |-> sems[s]]
  BY <1>2 DEF sem_close, SemsOK
<1> QED BY <1>3 DEF SemsOK, SemsType

-----------------------------------------------------------------------------
\* Who is not held back.  A is the set of the threads that have waited on s.

LEMMA PassedCount ==
    ASSUME NEW S, NEW T, NEW At, NEW pc, NEW sems, SemsOK(sems, S, T, At, pc), NEW s \in S,
           NEW A \in SUBSET T, IsFiniteSet(T),
           \A t \in T : <<t, pc[t], s>> \in At => t \in A
    PROVE  /\ Cardinality(A) \in Nat
           /\ IsFiniteSet({t \in A : t \notin Range(sems[s].blocked)})
           /\ Cardinality({t \in A : t \notin Range(sems[s].blocked)}) =
                  Cardinality(A) - IF sems[s].value < 0 THEN -sems[s].value ELSE 0
<1> DEFINE q == sems[s].blocked
<1> DEFINE B == Range(q)
<1>1. /\ q \in Seq(T) /\ IsInjective(q) /\ DOMAIN sems = S
      /\ Len(q) = IF sems[s].value < 0 THEN -sems[s].value ELSE 0
  BY DEF SemsOK, SemOK
<1>2. B \subseteq T
  BY <1>1 DEF Range
<1>4. B \subseteq A
  BY <1>2 DEF SemsOK
<1>5. {t \in A : t \notin B} = A \ B
  OBVIOUS
<1>6. Cardinality(B) = Len(q)
  <2>1. IsFiniteSet(1..Len(q)) /\ Cardinality(1..Len(q)) = Len(q)
    <3> DEFINE n == Len(q)
    <3>1. n \in Nat
      BY <1>1
    <3> HIDE DEF n
    <3> QED BY <3>1, FS_Interval
  <2>2. q \in Bijection(1..Len(q), B)
    BY <1>1 DEF Bijection, Injection, Surjection, Range, IsInjective
  <2>3. ExistsBijection(1..Len(q), B)
    BY <2>2 DEF ExistsBijection
  <2> QED BY <2>1, <2>3, FS_Bijection
<1>7. IsFiniteSet(A)
  BY FS_Subset
<1>8. A \cap B = B
  BY <1>4
<1>9. IsFiniteSet(A \ B) /\ Cardinality(A \ B) = Cardinality(A) - Cardinality(A \cap B)
  BY <1>7, FS_Difference
<1>10. Cardinality(A) \in Nat
  BY <1>7, FS_CardinalityType
<1> HIDE DEF q, B
<1>11. {t \in A : t \notin B} = A \ B /\ IsFiniteSet(A \ B)
       /\ Cardinality(A \ B) = Cardinality(A) - IF sems[s].value < 0 THEN -sems[s].value ELSE 0
  BY <1>1, <1>5, <1>6, <1>8, <1>9, <1>10
<1> QED BY <1>10, <1>11 DEF q, B

\* A semaphore that nobody can be held at owes nothing.
LEMMA NobodyHeld ==
    ASSUME NEW S, NEW T, NEW At, NEW pc, NEW sems, SemsOK(sems, S, T, At, pc), NEW s \in S,
           \A t \in T : t \notin Range(sems[s].blocked)
    PROVE  sems[s].value \in Int /\ sems[s].value >= 0
<1>1. /\ sems[s].blocked \in Seq(T) /\ sems[s].value \in Int
      /\ Len(sems[s].blocked) = IF sems[s].value < 0 THEN -sems[s].value ELSE 0
  BY DEF SemsOK, SemOK
<1>2. SUFFICES ASSUME Len(sems[s].blocked) # 0 PROVE FALSE
  BY <1>1
<1>3. sems[s].blocked[1] \in T /\ 1 \in DOMAIN sems[s].blocked
  BY <1>1, <1>2
<1> QED BY <1>3 DEF Range

\* A semaphore whose value is 1 less the threads of A, which have waited for it
\* and not signalled since, lets one of them in at a time.
LEMMA Mutex ==
    ASSUME NEW S, NEW T, NEW At, NEW pc, NEW sems, SemsOK(sems, S, T, At, pc), NEW s \in S,
           NEW A \in SUBSET T, IsFiniteSet(T),
           \A t \in T : <<t, pc[t], s>> \in At => t \in A,
           sems[s].value = 1 - Cardinality(A),
           NEW t \in A, t \notin Range(sems[s].blocked),
           NEW u \in A, u \notin Range(sems[s].blocked)
    PROVE  t = u
<1> DEFINE B == {v \in A : v \notin Range(sems[s].blocked)}
<1>1. /\ Cardinality(A) \in Nat /\ IsFiniteSet(B)
      /\ Cardinality(B) = Cardinality(A) - IF sems[s].value < 0 THEN -sems[s].value ELSE 0
  BY PassedCount
<1>2. t \in B /\ u \in B
  OBVIOUS
<1> HIDE DEF B
<1>3. SUFFICES ASSUME t # u PROVE FALSE
  OBVIOUS
<1>4. {t, u} \subseteq B
  BY <1>2
<1>5. Cardinality({t, u}) = 2
  <2>1. IsFiniteSet({t}) /\ Cardinality({t}) = 1
    BY FS_Singleton
  <2>2. {t} \union {u} = {t, u} /\ u \notin {t}
    BY <1>3
  <2>3. Cardinality({t} \union {u}) = Cardinality({t}) + 1
    BY <2>1, <2>2, FS_AddElement
  <2> QED BY <2>1, <2>2, <2>3
<1>6. Cardinality({t, u}) <= Cardinality(B)
  BY <1>1, <1>4, FS_Subset
<1>7. Cardinality(A) = 0 \/ Cardinality(A) >= 1
  BY <1>1
<1> QED BY <1>1, <1>5, <1>6, <1>7

-----------------------------------------------------------------------------
\* Ring buffers.

\* The ring holds the items g + 1 to p of a sequence, g of them having left it;
\* its tail is behind item m.
RingHolds(ring, cap, g, m, p, item) ==
    /\ ring \in Rings(cap)
    /\ g <= m /\ m <= p /\ p <= g + cap
    /\ ring.tail = (ring.head + (m - g)) % cap
    /\ \A k \in (g + 1)..p : ring.buf[(ring.head + (k - g) - 1) % cap] = item[k]

\* Places less than two rounds away.
LEMMA PlaceAhead ==
    ASSUME NEW cap \in Nat \ {0}, NEW h \in 0..(cap - 1), NEW d \in 0..cap
    PROVE  /\ (h + d) % cap = IF h + d < cap THEN h + d ELSE h + d - cap
           /\ (h + d) % cap \in 0..(cap - 1)
<1> DEFINE k == h + d
<1>1. k \in Nat /\ k < 2 * cap
  OBVIOUS
<1> HIDE DEF k
<1>2. k % cap = IF k < cap THEN k ELSE k - cap
  BY <1>1
<1>3. k % cap \in 0..(cap - 1)
  BY <1>1, <1>2
<1> QED BY <1>2, <1>3 DEF k

LEMMA FollowingIs ==
    ASSUME NEW cap \in Nat \ {0}, NEW h \in 0..(cap - 1)
    PROVE  /\ Following(h, cap) = IF h + 1 = cap THEN 0 ELSE h + 1
           /\ Following(h, cap) \in 0..(cap - 1)
<1>1. 1 \in 0..cap
  OBVIOUS
<1>2. (h + 1) % cap = IF h + 1 < cap THEN h + 1 ELSE h + 1 - cap
  BY <1>1, PlaceAhead
<1> QED BY <1>2 DEF Following

LEMMA RingParts ==
    ASSUME NEW cap \in Nat \ {0}, NEW ring, ring \in Rings(cap)
    PROVE  /\ ring.buf \in [0..(cap - 1) -> Int]
           /\ ring.head \in 0..(cap - 1) /\ ring.tail \in 0..(cap - 1)
           /\ ring = [buf |-> ring.buf, head |-> ring.head, tail |-> ring.tail]
BY DEF Rings

LEMMA RingStored ==
    ASSUME NEW cap \in Nat \ {0}, NEW ring, NEW g \in Nat, NEW p \in Nat, NEW item, NEW item2,
           RingHolds(ring, cap, g, p, p, item), p + 1 <= g + cap,
           \A k \in (g + 1)..p : item2[k] = item[k], item2[p + 1] \in Int
    PROVE  RingHolds(Stored(ring, item2[p + 1]), cap, g, p, p + 1, item2)
<1> DEFINE r == Stored(ring, item2[p + 1])
<1>1. /\ ring.buf \in [0..(cap - 1) -> Int]
      /\ ring.head \in 0..(cap - 1) /\ ring.tail \in 0..(cap - 1)
      /\ r.buf = [ring.buf EXCEPT ![ring.tail] = item2[p + 1]]
      /\ r.head = ring.head /\ r.tail = ring.tail
      /\ r \in Rings(cap)
  BY RingParts DEF RingHolds, Stored, Rings
<1>2. /\ ring.tail = (ring.head + (p - g)) % cap /\ g <= p
      /\ \A k \in (g + 1)..p : ring.buf[(ring.head + (k - g) - 1) % cap] = item[k]
  BY DEF RingHolds
<1> HIDE DEF r
<1>3. ASSUME NEW k \in (g + 1)..(p + 1) PROVE r.buf[(r.head + (k - g) - 1) % cap] = item2[k]
  <2> DEFINE d == k - g - 1
  <2> DEFINE e == p - g
  <2> DEFINE place == (ring.head + d) % cap
  <2>1. d \in 0..cap /\ e \in 0..cap /\ e < cap /\ d <= e /\ (d = e <=> k = p + 1)
        /\ ring.head + (k - g) - 1 = ring.head + d
    BY <1>1, <1>2
  <2> HIDE DEF d, e
  <2>2. /\ place = IF ring.head + d < cap THEN ring.head + d ELSE ring.head + d - cap
        /\ place \in 0..(cap - 1)
    BY <1>1, <2>1, PlaceAhead
  <2>3. ring.tail = IF ring.head + e < cap THEN ring.head + e ELSE ring.head + e - cap
    <3>1. ring.tail = (ring.head + e) % cap
      BY <1>2 DEF e
    <3> QED BY <1>1, <2>1, <3>1, PlaceAhead
  <2>4. place = ring.tail <=> k = p + 1
    <3> DEFINE h == ring.head
    <3> DEFINE u == ring.tail
    <3>1. /\ h \in 0..(cap - 1)
          /\ place = IF h + d < cap THEN h + d ELSE h + d - cap
          /\ u = IF h + e < cap THEN h + e ELSE h + e - cap
      BY <1>1, <2>2, <2>3
    <3> HIDE DEF h, u, place
    <3>2. place = u <=> d = e
      BY <2>1, <3>1
    <3> QED BY <2>1, <3>2 DEF u
  <2>5. r.buf[place] = item2[k]
    <3>1. k # p + 1 => ring.buf[place] = item[k] /\ item2[k] = item[k]
      BY <1>2, <2>1 DEF d
    <3> HIDE DEF place
    <3> QED BY <1>1, <2>2, <2>4, <3>1
  <2> QED BY <1>1, <2>1, <2>5
<1>4. g <= p /\ p <= p + 1 /\ r.tail = (r.head + (p - g)) % cap
  BY <1>1, <1>2
<1> QED BY <1>1, <1>3, <1>4 DEF RingHolds, r

LEMMA RingTailMoved ==
    ASSUME NEW cap \in Nat \ {0}, NEW ring, NEW g \in Nat, NEW m \in Nat, NEW item,
           RingHolds(ring, cap, g, m, m + 1, item)
    PROVE  RingHolds(TailMoved(ring, cap), cap, g, m + 1, m + 1, item)
<1> DEFINE r == TailMoved(ring, cap)
<1>1. /\ ring.buf \in [0..(cap - 1) -> Int]
      /\ ring.head \in 0..(cap - 1) /\ ring.tail \in 0..(cap - 1)
      /\ r.buf = ring.buf /\ r.head = ring.head /\ r.tail = Following(ring.tail, cap)
      /\ r \in Rings(cap)
  BY RingParts, FollowingIs DEF RingHolds, TailMoved, Rings
<1>2. ring.tail = (ring.head + (m - g)) % cap /\ g <= m /\ m + 1 <= g + cap
  BY DEF RingHolds
<1> HIDE DEF r
<1>3. r.tail = (r.head + (m + 1 - g)) % cap
  <2> DEFINE d == m - g
  <2>1. d \in 0..cap /\ d + 1 \in 0..cap /\ m + 1 - g = d + 1
    BY <1>2
  <2>2. ring.tail = (ring.head + d) % cap
    BY <1>2
  <2> HIDE DEF d
  <2>3. ring.tail = IF ring.head + d < cap THEN ring.head + d ELSE ring.head + d - cap
    BY <1>1, <2>1, <2>2, PlaceAhead
  <2> DEFINE f == d + 1
  <2>4. (ring.head + f) % cap = IF ring.head + f < cap THEN ring.head + f ELSE ring.head + f - cap
    <3>1. f \in 0..cap
      BY <2>1
    <3> HIDE DEF f
    <3> QED BY <1>1, <3>1, PlaceAhead
  <2>5. r.tail = IF ring.tail + 1 = cap THEN 0 ELSE ring.tail + 1
    BY <1>1, FollowingIs
  <2>6. r.tail = (ring.head + f) % cap
    <3> DEFINE h == ring.head
    <3> DEFINE u == ring.tail
    <3> DEFINE x == (ring.head + f) % cap
    <3>1. /\ h \in 0..(cap - 1)
          /\ u = IF h + d < cap THEN h + d ELSE h + d - cap
          /\ x = IF h + f < cap THEN h + f ELSE h + f - cap
      BY <1>1, <2>3, <2>4
    <3>2. r.tail = IF u + 1 = cap THEN 0 ELSE u + 1
      BY <2>5
    <3> HIDE DEF h, u, x
    <3>3. r.tail = x
      BY <2>1, <3>1, <3>2
    <3> QED BY <3>3 DEF x
  <2> QED BY <1>1, <2>1, <2>6
<1> QED BY <1>1, <1>2, <1>3 DEF RingHolds, r

LEMMA RingOldest ==
    ASSUME NEW cap \in Nat \ {0}, NEW ring, NEW g \in Nat, NEW m \in Nat, NEW p \in Nat, NEW item,
           RingHolds(ring, cap, g, m, p, item), g < p
    PROVE  Oldest(ring) = item[g + 1]
<1>1. ring.head \in 0..(cap - 1)
  BY RingParts DEF RingHolds
<1>2. ring.buf[(ring.head + ((g + 1) - g) - 1) % cap] = item[g + 1]
  BY DEF RingHolds
<1>3. (ring.head + ((g + 1) - g) - 1) % cap = (ring.head + 0) % cap
  BY <1>1
<1>4. (ring.head + 0) % cap = ring.head
  BY <1>1, PlaceAhead
<1> QED BY <1>2, <1>3, <1>4 DEF Oldest

LEMMA RingHeadMoved ==
    ASSUME NEW cap \in Nat \ {0}, NEW ring, NEW g \in Nat, NEW m \in Nat, NEW p \in Nat, NEW item,
           RingHolds(ring, cap, g, m, p, item), g < m
    PROVE  RingHolds(HeadMoved(ring, cap), cap, g + 1, m, p, item)
<1> DEFINE r == HeadMoved(ring, cap)
<1>1. /\ ring.buf \in [0..(cap - 1) -> Int]
      /\ ring.head \in 0..(cap - 1) /\ ring.tail \in 0..(cap - 1)
      /\ r.buf = ring.buf /\ r.head = Following(ring.head, cap) /\ r.tail = ring.tail
      /\ r \in Rings(cap)
  BY RingParts, FollowingIs DEF RingHolds, HeadMoved, Rings
<1>2. /\ ring.tail = (ring.head + (m - g)) % cap /\ m <= p /\ p <= g + cap
      /\ \A k \in (g + 1)..p : ring.buf[(ring.head + (k - g) - 1) % cap] = item[k]
  BY DEF RingHolds
<1> HIDE DEF r
<1>3. /\ r.head = IF ring.head + 1 = cap THEN 0 ELSE ring.head + 1
      /\ r.head \in 0..(cap - 1)
  BY <1>1, FollowingIs
<1>4. ASSUME NEW d \in 0..cap, d + 1 <= cap
      PROVE  (r.head + d) % cap = (ring.head + (d + 1)) % cap
  <2> DEFINE e == d + 1
  <2>1. e \in 0..cap /\ e = d + 1
    BY <1>4
  <2> HIDE DEF e
  <2>2. (ring.head + e) % cap = IF ring.head + e < cap THEN ring.head + e ELSE ring.head + e - cap
    BY <1>1, <2>1, PlaceAhead
  <2>3. (r.head + d) % cap = IF r.head + d < cap THEN r.head + d ELSE r.head + d - cap
    BY <1>3, PlaceAhead
  <2>4. (r.head + d) % cap = (ring.head + e) % cap
    <3> DEFINE h == ring.head
    <3> DEFINE h2 == r.head
    <3> DEFINE x == (r.head + d) % cap
    <3> DEFINE y == (ring.head + e) % cap
    <3>1. /\ h \in 0..(cap - 1) /\ h2 = IF h + 1 = cap THEN 0 ELSE h + 1
          /\ y = IF h + e < cap THEN h + e ELSE h + e - cap
          /\ x = IF h2 + d < cap THEN h2 + d ELSE h2 + d - cap
      BY <1>1, <1>3, <2>2, <2>3
    <3> HIDE DEF h, h2, x, y
    <3>2. x = y
      BY <2>1, <3>1
    <3> QED BY <3>2 DEF x, y
  <2> QED BY <2>1, <2>4
<1>5. r.tail = (r.head + (m - (g + 1))) % cap
  <2> DEFINE d == m - (g + 1)
  <2>1. d \in 0..cap /\ d + 1 <= cap /\ m - g = d + 1
    BY <1>2
  <2> HIDE DEF d
  <2>2. (r.head + d) % cap = (ring.head + (d + 1)) % cap
    BY <1>4, <2>1
  <2>3. r.tail = (ring.head + (d + 1)) % cap
    BY <1>1, <1>2, <2>1
  <2> QED BY <2>2, <2>3 DEF d
<1>6. ASSUME NEW k \in ((g + 1) + 1)..p
      PROVE  r.buf[(r.head + (k - (g + 1)) - 1) % cap] = item[k]
  <2> DEFINE d == k - g - 2
  <2>1. d \in 0..cap /\ d + 1 <= cap
    BY <1>2
  <2>2. r.head + (k - (g + 1)) - 1 = r.head + d /\ ring.head + (k - g) - 1 = ring.head + (d + 1)
    BY SMTT(30), <1>1, <1>3
  <2>3. ring.buf[(ring.head + (k - g) - 1) % cap] = item[k]
    BY <1>2
  <2> HIDE DEF d
  <2>4. (r.head + d) % cap = (ring.head + (d + 1)) % cap
    BY <1>4, <2>1
  <2> QED BY <1>1, <2>2, <2>3, <2>4
<1>7. g + 1 <= m /\ m <= p /\ p <= (g + 1) + cap
  BY <1>2
<1> QED BY <1>1, <1>5, <1>6, <1>7 DEF RingHolds, r

LEMMA RingEmpty ==
    ASSUME NEW cap \in Nat \ {0}, NEW item
    PROVE  RingHolds(EmptyRing(cap), cap, 0, 0, 0, item)
<1>1. 0 \in 0..(cap - 1) /\ (0 + (0 - 0)) % cap = 0
  <2>1. 0 \in 0..(cap - 1) /\ 0 \in 0..cap
    OBVIOUS
  <2>2. (0 + 0) % cap = 0
    BY <2>1, PlaceAhead
  <2> QED BY <2>1, <2>2
<1>2. EmptyRing(cap) \in Rings(cap) /\ EmptyRing(cap).head = 0 /\ EmptyRing(cap).tail = 0
  BY <1>1 DEF Rings, EmptyRing
<1>3. (0 + 1)..0 = {}
  OBVIOUS
<1>4. 0 <= 0 + cap
  OBVIOUS
<1> QED BY <1>1, <1>2, <1>3, <1>4 DEF RingHolds

-----------------------------------------------------------------------------
\* What a ring shows.

\* What Contents() shows at place i, counted from the head.
LEMMA ContentsAre ==
    ASSUME NEW cap \in Nat \ {0}, NEW ring, ring \in Rings(cap), NEW n \in Nat,
           NEW taken \in BOOLEAN, n + One(taken) <= cap
    PROVE  /\ Contents(ring, cap, n, taken) \in Seq(Int)
           /\ Len(Contents(ring, cap, n, taken)) = n
           /\ \A i \in 1..n :
                 /\ (ring.head + (i - 1 + One(taken))) % cap \in 0..(cap - 1)
                 /\ Contents(ring, cap, n, taken)[i] =
                        ring.buf[(ring.head + (i - 1 + One(taken))) % cap]
<1> DEFINE h == ring.head
<1> DEFINE first == IF taken THEN Following(h, cap) ELSE h
<1> DEFINE s == [i \in 1..n |-> ring.buf[(first + i - 1) % cap]]
<1>1. ring.buf \in [0..(cap - 1) -> Int] /\ h \in 0..(cap - 1)
  BY RingParts
<1>2. One(taken) = IF taken THEN 1 ELSE 0
  BY DEF One
<1>3. ASSUME NEW i \in 1..n
      PROVE  /\ (first + i - 1) % cap = (h + (i - 1 + One(taken))) % cap
             /\ (h + (i - 1 + One(taken))) % cap \in 0..(cap - 1)
  <2> DEFINE d == i - 1
  <2> DEFINE e == i - 1 + One(taken)
  <2>1. /\ d \in 0..cap /\ e \in 0..cap /\ e = IF taken THEN d + 1 ELSE d
        /\ first + i - 1 = first + d
    <3>1. first \in Int
      BY <1>1, FollowingIs
    <3> HIDE DEF first
    <3> QED BY <1>2, <3>1
  <2>2. /\ Following(h, cap) = IF h + 1 = cap THEN 0 ELSE h + 1
        /\ Following(h, cap) \in 0..(cap - 1)
    BY <1>1, FollowingIs
  <2> HIDE DEF d, e, h
  <2>3. /\ (h + e) % cap = IF h + e < cap THEN h + e ELSE h + e - cap
        /\ (h + e) % cap \in 0..(cap - 1)
    BY <1>1, <2>1, PlaceAhead
  <2>4. first \in 0..(cap - 1)
    BY <1>1, <2>2
  <2>5. first = IF taken THEN IF h + 1 = cap THEN 0 ELSE h + 1 ELSE h
    BY <2>2
  <2> HIDE DEF first
  <2>6. (first + d) % cap = IF first + d < cap THEN first + d ELSE first + d - cap
    BY <2>1, <2>4, PlaceAhead
  <2>7. (first + d) % cap = (h + e) % cap
    <3> DEFINE x == (first + d) % cap
    <3> DEFINE y == (h + e) % cap
    <3>1. /\ x = IF first + d < cap THEN first + d ELSE first + d - cap
          /\ y = IF h + e < cap THEN h + e ELSE h + e - cap
      BY <2>3, <2>6
    <3> HIDE DEF x, y
    <3>2. x = y
      BY <1>1, <2>1, <2>5, <3>1
    <3> QED BY <3>2 DEF x, y
  <2> QED BY <2>1, <2>3, <2>7 DEF e
<1>4. Contents(ring, cap, n, taken) = s
  BY DEF Contents
<1>5. \A i \in 1..n : s[i] = ring.buf[(first + i - 1) % cap]
  OBVIOUS
<1>6. s \in [1..n -> Int]
  BY <1>1, <1>3
<1> HIDE DEF s
<1>7. s \in Seq(Int) /\ Len(s) = n
  BY <1>6
<1> QED BY <1>3, <1>4, <1>5, <1>7

\* Sequences that agree.
LEMMA SameSeq ==
    ASSUME NEW s \in Seq(Int), NEW r \in Seq(Int), Len(s) = Len(r),
           \A i \in 1..Len(s) : s[i] = r[i]
    PROVE  s = r
OBVIOUS

\* Append() under a name that the provers leave alone.
AddedTo(s, v) == Append(s, v)

\* Storing an item behind the others appends it ...
LEMMA ContentsStored ==
    ASSUME NEW cap \in Nat \ {0}, NEW ring, NEW g \in Nat, NEW p \in Nat, NEW item,
           RingHolds(ring, cap, g, p, p, item), p + 1 <= g + cap,
           NEW v \in Int, NEW n \in Nat, NEW n2 \in Nat, n2 = n + 1,
           NEW taken \in BOOLEAN, n + One(taken) = p - g
    PROVE  /\ Len(Contents(ring, cap, n, taken)) < cap
           /\ Contents(Stored(ring, v), cap, n2, taken) =
                  AddedTo(Contents(ring, cap, n, taken), v)
<1> DEFINE r == Stored(ring, v)
<1> DEFINE s == Contents(ring, cap, n, taken)
<1> DEFINE s2 == Contents(r, cap, n2, taken)
<1>1. /\ ring \in Rings(cap)
      /\ ring.tail = (ring.head + (n + One(taken))) % cap
  BY DEF RingHolds
<1>2. One(taken) \in 0..1
  BY DEF One
<1>3. /\ ring.buf \in [0..(cap - 1) -> Int]
      /\ ring.head \in 0..(cap - 1) /\ ring.tail \in 0..(cap - 1)
      /\ r.buf = [ring.buf EXCEPT ![ring.tail] = v]
      /\ r.head = ring.head /\ r \in Rings(cap)
  BY <1>1, RingParts DEF Stored, Rings
<1>4. n + One(taken) <= cap /\ n2 + One(taken) <= cap /\ n2 \in Nat /\ n < cap
  BY <1>2
<1>5. /\ s \in Seq(Int) /\ Len(s) = n
      /\ \A i \in 1..n : s[i] = ring.buf[(ring.head + (i - 1 + One(taken))) % cap]
  BY <1>1, <1>4, ContentsAre
<1> HIDE DEF r
<1>6. /\ s2 \in Seq(Int) /\ Len(s2) = n2
      /\ \A i \in 1..n2 :
             /\ (r.head + (i - 1 + One(taken))) % cap \in 0..(cap - 1)
             /\ s2[i] = r.buf[(r.head + (i - 1 + One(taken))) % cap]
  <2>1. r \in Rings(cap) /\ n2 \in Nat /\ n2 + One(taken) <= cap
    BY <1>3, <1>4
  <2>2. /\ Contents(r, cap, n2, taken) \in Seq(Int)
        /\ Len(Contents(r, cap, n2, taken)) = n2
        /\ \A i \in 1..n2 :
              /\ (r.head + (i - 1 + One(taken))) % cap \in 0..(cap - 1)
              /\ Contents(r, cap, n2, taken)[i] =
                     r.buf[(r.head + (i - 1 + One(taken))) % cap]
    BY <2>1, ContentsAre
  <2> QED BY <2>2
<1> HIDE DEF s, s2
<1>7. ASSUME NEW i \in 1..n2 PROVE s2[i] = IF i = n2 THEN v ELSE s[i]
  <2> DEFINE d == i - 1 + One(taken)
  <2> DEFINE e == n + One(taken)
  <2> DEFINE place == (ring.head + d) % cap
  <2>1. d \in 0..cap /\ e \in 0..cap /\ e < cap /\ d <= e /\ (d = e <=> i = n2)
    BY <1>2, <1>4
  <2>2. s2[i] = r.buf[place] /\ (i # n2 => s[i] = ring.buf[place])
    <3>1. i # n2 => i \in 1..n
      OBVIOUS
    <3> QED BY <1>3, <1>5, <1>6, <3>1
  <2>3. ring.tail = (ring.head + e) % cap
    BY <1>1
  <2> HIDE DEF d, e
  <2>4. /\ place = IF ring.head + d < cap THEN ring.head + d ELSE ring.head + d - cap
        /\ place \in 0..(cap - 1)
        /\ ring.tail = IF ring.head + e < cap THEN ring.head + e ELSE ring.head + e - cap
    BY <1>3, <2>1, <2>3, PlaceAhead
  <2>5. place = ring.tail <=> i = n2
    <3> DEFINE h == ring.head
    <3> DEFINE u == ring.tail
    <3>1. /\ h \in 0..(cap - 1)
          /\ place = IF h + d < cap THEN h + d ELSE h + d - cap
          /\ u = IF h + e < cap THEN h + e ELSE h + e - cap
      BY <1>3, <2>4
    <3> HIDE DEF h, u, place
    <3>2. place = u <=> d = e
      BY <2>1, <3>1
    <3> QED BY <2>1, <3>2 DEF u
  <2> HIDE DEF place
  <2> QED BY <1>3, <2>2, <2>4, <2>5
<1>8. s2 = Append(s, v)
  <2>1. Append(s, v) \in Seq(Int) /\ Len(Append(s, v)) = n2
    BY <1>5
  <2>2. \A i \in 1..n2 : Append(s, v)[i] = IF i = n2 THEN v ELSE s[i]
    BY <1>5
  <2> QED BY <1>6, <1>7, <2>1, <2>2, SameSeq
<1> QED BY <1>4, <1>5, <1>8 DEF s, s2, r, AddedTo

\* ... reading the oldest one and not showing it any more takes it away ...
LEMMA ContentsTaken ==
    ASSUME NEW cap \in Nat \ {0}, NEW ring, ring \in Rings(cap), NEW n \in Nat, n + 1 <= cap
    PROVE  /\ Contents(ring, cap, n + 1, FALSE) # <<>>
           /\ Oldest(ring) = Head(Contents(ring, cap, n + 1, FALSE))
           /\ Contents(ring, cap, n, TRUE) = Tail(Contents(ring, cap, n + 1, FALSE))
<1>0. PICK yes \in BOOLEAN, no \in BOOLEAN : yes = TRUE /\ no = FALSE
  OBVIOUS
<1> DEFINE n2 == n + 1
<1> DEFINE s == Contents(ring, cap, n, yes)
<1> DEFINE s2 == Contents(ring, cap, n2, no)
<1>1. One(yes) = 1 /\ One(no) = 0
  BY <1>0 DEF One
<1>2. n2 \in Nat \ {0} /\ n2 \in Nat /\ n2 + One(no) <= cap /\ n + One(yes) <= cap
  BY <1>1
<1>3. /\ s \in Seq(Int) /\ Len(s) = n
      /\ \A i \in 1..n : s[i] = ring.buf[(ring.head + (i - 1 + One(yes))) % cap]
  <2>1. ring \in Rings(cap) /\ n + One(yes) <= cap
    BY <1>2
  <2> HIDE DEF n2, s, s2
  <2>2. /\ Contents(ring, cap, n, yes) \in Seq(Int)
        /\ Len(Contents(ring, cap, n, yes)) = n
        /\ \A i \in 1..n :
              /\ (ring.head + (i - 1 + One(yes))) % cap \in 0..(cap - 1)
              /\ Contents(ring, cap, n, yes)[i] =
                     ring.buf[(ring.head + (i - 1 + One(yes))) % cap]
    BY <2>1, ContentsAre
  <2> QED BY <2>2 DEF s
<1> HIDE DEF n2
<1>4. /\ s2 \in Seq(Int) /\ Len(s2) = n2
      /\ \A i \in 1..n2 : s2[i] = ring.buf[(ring.head + (i - 1 + One(no))) % cap]
  BY <1>2, ContentsAre
<1> HIDE DEF s, s2
<1>5. ring.head \in 0..(cap - 1) /\ (ring.head + 0) % cap = ring.head
  <2>1. ring.head \in 0..(cap - 1)
    BY RingParts
  <2> QED BY <2>1, PlaceAhead
<1>6. s2 # <<>> /\ Oldest(ring) = Head(s2)
  <2>1. 1 \in 1..n2 /\ 1 - 1 + One(no) = 0
    BY <1>1, <1>2
  <2>2. s2[1] = ring.buf[ring.head]
    BY <1>4, <1>5, <2>1
  <2> QED BY <1>2, <1>4, <2>2 DEF Oldest
<1>7. s = Tail(s2)
  <2>1. Tail(s2) \in Seq(Int) /\ Len(Tail(s2)) = n /\ \A i \in 1..n : Tail(s2)[i] = s2[i + 1]
    BY <1>2, <1>4 DEF n2
  <2>2. ASSUME NEW i \in 1..n PROVE s[i] = s2[i + 1]
    <3> DEFINE k == i + 1
    <3>1. k \in 1..n2 /\ k - 1 + One(no) = i - 1 + One(yes)
      BY <1>1 DEF n2
    <3> HIDE DEF k
    <3>2. s2[k] = ring.buf[(ring.head + (k - 1 + One(no))) % cap]
      BY <1>4, <3>1
    <3>3. s2[k] = ring.buf[(ring.head + (i - 1 + One(yes))) % cap]
      BY <3>1, <3>2, Zenon
    <3> QED BY <1>3, <3>3 DEF k
  <2> QED BY <1>3, <2>1, <2>2, SameSeq
<1>8. Contents(ring, cap, n, yes) = Contents(ring, cap, n, TRUE)
  BY <1>0, Zenon
<1>9. Contents(ring, cap, n + 1, no) = Contents(ring, cap, n + 1, FALSE)
  BY <1>0, Zenon
<1> QED BY <1>6, <1>7, <1>8, <1>9 DEF s, s2, n2

\* ... and the moves of the two ends show nothing.
LEMMA ContentsMoved ==
    ASSUME NEW cap \in Nat \ {0}, NEW ring, ring \in Rings(cap), NEW n, NEW taken
    PROVE  /\ Contents(TailMoved(ring, cap), cap, n, taken) = Contents(ring, cap, n, taken)
           /\ Contents(HeadMoved(ring, cap), cap, n, FALSE) = Contents(ring, cap, n, TRUE)
<1>1. /\ TailMoved(ring, cap).buf = ring.buf /\ TailMoved(ring, cap).head = ring.head
      /\ HeadMoved(ring, cap).buf = ring.buf
      /\ HeadMoved(ring, cap).head = Following(ring.head, cap)
  BY RingParts DEF TailMoved, HeadMoved
<1> QED BY <1>1 DEF Contents

LEMMA ContentsNone ==
    ASSUME NEW cap, NEW ring, NEW taken
    PROVE  Contents(ring, cap, 0, taken) = <<>>
BY DEF Contents

-----------------------------------------------------------------------------
\* Phase 1: the inductive invariant.

\* Where a thread may be held, and at which semaphore.
P1_At ==
    {<<t, "waitTail", "spaceAvail">> : t \in P1_Producers}
    \union {<<t, "store", "mutTail">> : t \in P1_Producers}
    \union {<<P1_Consumer, "waitHead", "itemAvail">>, <<P1_Consumer, "take", "mutHead">>,
            <<P1_Main, "await", "waitAll">>, <<P1_Main, "check", "waitAll">>}

\* How many of the first n of the numbers in log are id.
Occurrences(log, n, id) == Cardinality({k \in 1..n : log[k] = id})

\* How many producers are at certain positions of bufPut(), how many threads are
\* done, and what the consumer has done, in items.
P1_In(t, L) == IF p1_pc[t] \in L THEN 1 ELSE 0
P1_Num(L) == CountIn(p1_pc, P1_Producers, L)
P1_Claims == P1_Num({"waitTail", "store"})
P1_Halfway == P1_Num({"moveTail"})
P1_Unsignalled == P1_Num({"freeTail", "signalItem"})
P1_AtTail == P1_Num({"store", "moveTail", "freeTail"})
P1_Done == CountIn(p1_pc, P1_Threads, {"done"})
P1_Awaited ==
    IF p1_pc[P1_Main] = "await" THEN p1_i[P1_Main]
    ELSE IF p1_pc[P1_Main] \in {"check", "close", "returned"} THEN P1_NUM_PRODUCERS + 1 ELSE 0
P1_Total == P1_NUM_PRODUCERS * P1_ITEMS_PER_PRODUCER

P1_Holding == {"moveHead", "freeHead", "signalSpace", "count"}
P1_Claimed == p1_i[P1_Consumer] + P1_In(P1_Consumer, {"waitHead", "take"} \union P1_Holding)
P1_Taken == p1_i[P1_Consumer] + P1_In(P1_Consumer, P1_Holding)
P1_Left == p1_i[P1_Consumer] + P1_In(P1_Consumer, {"freeHead", "signalSpace", "count"})
P1_Given == p1_i[P1_Consumer] + P1_In(P1_Consumer, {"count"})

P1_Putting == {"waitTail", "store", "moveTail", "freeTail", "signalItem"}
P1_MainOK ==
    /\ p1_pc[P1_Main] \in {"open", "create", "await", "check", "close", "returned"}
    /\ p1_i[P1_Main] \in 0..P1_NUM_PRODUCERS
    /\ p1_pc[P1_Main] = "open" => p1_i[P1_Main] = 0
    /\ p1_pc[P1_Main] = "check" => p1_i[P1_Main] < P1_NUM_PRODUCERS
    /\ p1_pc[P1_Main] = "returned" => \A t \in P1_Threads \ {P1_Main} : p1_pc[t] = "done"
P1_ConsumerOK ==
    /\ p1_pc[P1_Consumer] \in {"unborn", "waitItem", "waitHead", "take", "tell", "done"}
                                  \union P1_Holding
    /\ p1_pc[P1_Consumer] = "unborn" <=>
           \/ p1_pc[P1_Main] = "open"
           \/ p1_pc[P1_Main] = "create" /\ p1_i[P1_Main] = 0
    /\ p1_i[P1_Consumer] \in 0..P1_Total
    /\ p1_pc[P1_Consumer] \in {"tell", "done"} <=> p1_i[P1_Consumer] = P1_Total
P1_ProducerOK(id) ==
    /\ p1_pc[id] \in {"unborn", "waitSpace", "tell", "done"} \union P1_Putting
    /\ p1_pc[id] = "unborn" <=>
           \/ p1_pc[P1_Main] = "open"
           \/ p1_pc[P1_Main] = "create" /\ id >= p1_i[P1_Main]
    /\ p1_i[id] \in 0..P1_ITEMS_PER_PRODUCER
    /\ p1_pc[id] \in {"tell", "done"} <=> p1_i[id] = P1_ITEMS_PER_PRODUCER

\* What the ring, the counts and the semaphores say of log, the numbers that
\* were ever stored in the ring.
P1_RingOK(log) ==
    /\ RingHolds(p1_ring, P1_BUF_CAP, P1_Left, Len(log) - P1_Halfway, Len(log), log)
    /\ P1_Taken <= Len(log)
    /\ p1_pc[P1_Consumer] \in P1_Holding => p1_ch = log[p1_i[P1_Consumer] + 1]
P1_CountsOK(log) ==
    \A id \in P1_Producers :
        /\ Occurrences(log, Len(log), id) =
               p1_i[id] + P1_In(id, {"moveTail", "freeTail", "signalItem"})
        /\ p1_counts[id] = Occurrences(log, p1_i[P1_Consumer], id)
P1_SemValues(n) ==
    /\ p1_sems["spaceAvail"].value = P1_BUF_CAP - (n + P1_Claims) + P1_Given
    /\ p1_sems["itemAvail"].value = n - P1_Halfway - P1_Unsignalled - P1_Claimed
    /\ p1_sems["mutTail"].value = 1 - P1_AtTail
    /\ p1_sems["waitAll"].value = P1_Done - P1_Awaited
P1_LogOK(log) ==
    /\ P1_RingOK(log)
    /\ P1_CountsOK(log)
    /\ p1_pc[P1_Main] # "open" => P1_SemValues(Len(log))
    /\ p1_pc[P1_Main] = "open" => log = <<>> /\ p1_i[P1_Consumer] = 0

P1_Inv ==
    /\ P1_TypeOK
    /\ SemsOK(p1_sems, P1_Sems, P1_Threads, P1_At, p1_pc)
    /\ P1_MainOK /\ P1_ConsumerOK /\ \A id \in P1_Producers : P1_ProducerOK(id)
    /\ \E log \in Seq(P1_Producers) : P1_LogOK(log)

-----------------------------------------------------------------------------
\* Occurrences.

LEMMA OccurrencesNat ==
    ASSUME NEW log, NEW n \in Nat, NEW id
    PROVE  IsFiniteSet({k \in 1..n : log[k] = id}) /\ Occurrences(log, n, id) \in 0..n
<1>1. IsFiniteSet(1..n) /\ Cardinality(1..n) = n
  BY FS_Interval
<1>2. {k \in 1..n : log[k] = id} \subseteq 1..n
  OBVIOUS
<1>3. /\ IsFiniteSet({k \in 1..n : log[k] = id})
      /\ Cardinality({k \in 1..n : log[k] = id}) <= n
  BY <1>1, <1>2, FS_Subset
<1>4. Cardinality({k \in 1..n : log[k] = id}) \in Nat
  BY <1>3, FS_CardinalityType
<1> QED BY <1>3, <1>4 DEF Occurrences

LEMMA OccurrencesNext ==
    ASSUME NEW log, NEW n \in Nat, NEW id
    PROVE  Occurrences(log, n + 1, id) =
               Occurrences(log, n, id) + (IF log[n + 1] = id THEN 1 ELSE 0)
<1> DEFINE A == {k \in 1..n : log[k] = id}
<1> DEFINE B == {k \in 1..(n + 1) : log[k] = id}
<1>1. IsFiniteSet(A) /\ Cardinality(A) \in Nat
  <2>1. IsFiniteSet(A) /\ Occurrences(log, n, id) \in 0..n
    BY OccurrencesNat
  <2> QED BY <2>1 DEF Occurrences
<1>2. B = IF log[n + 1] = id THEN A \union {n + 1} ELSE A
  OBVIOUS
<1>3. n + 1 \notin A
  OBVIOUS
<1> HIDE DEF A, B
<1>4. Cardinality(A \union {n + 1}) = Cardinality(A) + 1
  BY <1>1, <1>3, FS_AddElement
<1>5. Cardinality(B) = Cardinality(A) + (IF log[n + 1] = id THEN 1 ELSE 0)
  BY <1>1, <1>2, <1>4
<1> QED BY <1>5 DEF Occurrences, A, B

LEMMA OccurrencesSame ==
    ASSUME NEW log, NEW log2, NEW n \in Nat, NEW id, \A k \in 1..n : log2[k] = log[k]
    PROVE  Occurrences(log2, n, id) = Occurrences(log, n, id)
<1>1. {k \in 1..n : log2[k] = id} = {k \in 1..n : log[k] = id}
  OBVIOUS
<1> QED BY <1>1 DEF Occurrences

\* The numbers of an earlier item are fewer than those up to a later one that
\* is the same.
LEMMA OccurrencesGrow ==
    ASSUME NEW log, NEW n \in Nat, NEW m \in Nat, n < m, NEW id, log[m] = id
    PROVE  Occurrences(log, n, id) < Occurrences(log, m, id)
<1> DEFINE A == {k \in 1..n : log[k] = id}
<1> DEFINE B == {k \in 1..m : log[k] = id}
<1>1. IsFiniteSet(A) /\ Cardinality(A) \in Nat
  <2>1. IsFiniteSet(A) /\ Occurrences(log, n, id) \in 0..n
    BY OccurrencesNat
  <2> QED BY <2>1 DEF Occurrences
<1>0. IsFiniteSet(B) /\ Cardinality(B) \in Nat
  <2>1. IsFiniteSet(B) /\ Occurrences(log, m, id) \in 0..m
    BY OccurrencesNat
  <2> QED BY <2>1 DEF Occurrences
<1>2. A \subseteq B /\ m \in B /\ m \notin A
  OBVIOUS
<1> HIDE DEF A, B
<1>3. Cardinality(A) <= Cardinality(B) /\ (Cardinality(B) = Cardinality(A) => B = A)
  BY <1>0, <1>2, FS_Subset
<1>4. Cardinality(A) < Cardinality(B)
  BY <1>0, <1>1, <1>2, <1>3
<1> QED BY <1>4 DEF Occurrences, A, B

\* If every one of n numbers occurs at most m times, the log is no longer than
\* n * m: items with different places differ in number or in how often theirs
\* occurs up to them.
LEMMA LogIsNoLonger ==
    ASSUME NEW n \in Nat, NEW m \in Nat, NEW log \in Seq(1..n),
           \A id \in 1..n : Occurrences(log, Len(log), id) <= m
    PROVE  Len(log) <= n * m
<1> DEFINE len == Len(log)
<1> DEFINE f == [k \in 1..len |-> <<log[k], Occurrences(log, k, log[k])>>]
<1> DEFINE S == (1..n) \X (1..m)
<1>1. len \in Nat /\ \A k \in 1..len : log[k] \in 1..n
  OBVIOUS
<1> HIDE DEF len
<1>2. ASSUME NEW k \in 1..len PROVE f[k] \in S
  <2> DEFINE id == log[k]
  <2>1. id \in 1..n
    BY <1>1
  <2>0. k \in Nat /\ k <= len
    BY <1>1
  <2> HIDE DEF id
  <2>2. Occurrences(log, k, id) \in 0..k /\ Occurrences(log, len, id) \in 0..len
    BY <1>1, <2>0, OccurrencesNat
  <2>3. Occurrences(log, 0, id) \in 0..0
    BY OccurrencesNat
  <2>4. Occurrences(log, 0, id) < Occurrences(log, k, id)
    BY <2>0, <1>2, OccurrencesGrow DEF id
  <2>5. Occurrences(log, k, id) <= Occurrences(log, len, id)
    <3> DEFINE A == {j \in 1..k : log[j] = id}
    <3> DEFINE B == {j \in 1..len : log[j] = id}
    <3>1. IsFiniteSet(B) /\ Occurrences(log, len, id) \in 0..len
      BY <1>1, OccurrencesNat
    <3>2. A \subseteq B
      BY <1>1, <2>0
    <3> HIDE DEF A, B
    <3>3. Cardinality(A) <= Cardinality(B)
      BY <3>1, <3>2, FS_Subset
    <3> QED BY <3>3 DEF Occurrences, A, B
  <2>6. Occurrences(log, len, id) <= m
    BY <2>1 DEF len
  <2>7. Occurrences(log, k, id) \in 1..m
    BY <1>1, <2>2, <2>3, <2>4, <2>5, <2>6
  <2> QED BY <2>1, <2>7 DEF id
<1>3. ASSUME NEW j \in 1..len, NEW k \in 1..len, f[j] = f[k] PROVE j = k
  <2>1. log[j] = log[k] /\ Occurrences(log, j, log[j]) = Occurrences(log, k, log[k])
    BY <1>3
  <2>2. j \in Nat /\ k \in Nat
    BY <1>1
  <2>3. /\ Occurrences(log, j, log[j]) \in 0..j
        /\ Occurrences(log, k, log[k]) \in 0..k
    BY <2>2, OccurrencesNat
  <2>4. ~(j < k)
    <3>1. j < k => Occurrences(log, j, log[k]) < Occurrences(log, k, log[k])
      BY <2>2, OccurrencesGrow
    <3> QED BY <2>1, <2>2, <2>3, <3>1
  <2>5. ~(k < j)
    <3>1. k < j => Occurrences(log, k, log[j]) < Occurrences(log, j, log[j])
      BY <2>2, OccurrencesGrow
    <3> QED BY <2>1, <2>2, <2>3, <3>1
  <2> QED BY <2>2, <2>4, <2>5
<1>4. f \in Injection(1..len, S)
  <2>1. f \in [1..len -> S]
    BY <1>2
  <2> HIDE DEF f
  <2> QED BY <1>3, <2>1 DEF Injection, IsInjective
<1>6. /\ IsFiniteSet(1..n) /\ Cardinality(1..n) = n
      /\ IsFiniteSet(1..m) /\ Cardinality(1..m) = m
  BY FS_Interval
<1>7. IsFiniteSet(S) /\ Cardinality(S) = n * m
  <2> DEFINE A == 1..n
  <2> DEFINE B == 1..m
  <2>1. IsFiniteSet(A) /\ IsFiniteSet(B) /\ Cardinality(A) = n /\ Cardinality(B) = m
    BY <1>6
  <2> HIDE DEF A, B
  <2>2. IsFiniteSet(A \X B) /\ Cardinality(A \X B) = Cardinality(A) * Cardinality(B)
    BY <2>1, FS_Product, Zenon
  <2>3. Cardinality(A \X B) = n * m
    BY <2>1, <2>2, Zenon
  <2> QED BY <2>2, <2>3 DEF A, B
<1>8. Cardinality(1..len) = len
  BY <1>1, FS_Interval
<1> HIDE DEF f, S
<1>9. Cardinality(1..len) <= Cardinality(S)
  BY <1>4, <1>7, FS_Injection
<1> QED BY <1>7, <1>8, <1>9 DEF len

-----------------------------------------------------------------------------
\* The threads' numbers, and steps of one thread.

LEMMA P1_Names ==
    /\ P1_BUF_CAP \in Nat \ {0} /\ P1_NUM_PRODUCERS \in Nat \ {0}
    /\ P1_ITEMS_PER_PRODUCER \in Nat \ {0}
    /\ P1_Main \notin P1_Producers /\ P1_Consumer \notin P1_Producers /\ P1_Main # P1_Consumer
    /\ P1_Threads = P1_Producers \union {P1_Main, P1_Consumer}
    /\ IsFiniteSet(P1_Producers) /\ Cardinality(P1_Producers) = P1_NUM_PRODUCERS
    /\ IsFiniteSet(P1_Threads) /\ Cardinality(P1_Threads) = P1_NUM_PRODUCERS + 2
    /\ P1_Total \in Nat /\ P1_Total > 0
<1>1. /\ P1_BUF_CAP \in Nat \ {0} /\ P1_NUM_PRODUCERS \in Nat \ {0}
      /\ P1_ITEMS_PER_PRODUCER \in Nat \ {0}
  BY P1_Assumption
<1>2. /\ P1_Main \notin P1_Producers /\ P1_Consumer \notin P1_Producers /\ P1_Main # P1_Consumer
      /\ P1_Threads = P1_Producers \union {P1_Main, P1_Consumer}
  BY <1>1 DEF P1_Main, P1_Producers, P1_Consumer, P1_Threads
<1>3. IsFiniteSet(P1_Producers) /\ Cardinality(P1_Producers) = P1_NUM_PRODUCERS
  BY <1>1, FS_Interval DEF P1_Producers
<1>4. P1_NUM_PRODUCERS + 1 \in Int /\ 0 \in Int /\ ~(0 > P1_NUM_PRODUCERS + 1)
  BY <1>1
<1>5. IsFiniteSet(P1_Threads) /\ Cardinality(P1_Threads) = P1_NUM_PRODUCERS + 2
  BY <1>1, <1>4, FS_Interval DEF P1_Threads, P1_Consumer
<1>6. P1_Total \in Nat /\ P1_Total > 0
  BY <1>1 DEF P1_Total
<1> QED BY <1>1, <1>2, <1>3, <1>5, <1>6

P1_Step(t, from, to) ==
    /\ p1_pc[t] = from /\ p1_pc'[t] = to /\ ~IsBlocked(p1_sems, t)
    /\ \A u \in P1_Threads \ {t} : p1_pc'[u] = p1_pc[u]
    /\ p1_pc' \in [P1_Threads -> P1_Positions]
    /\ \A u \in P1_Threads : IsBlocked(p1_sems, u) => p1_pc'[u] = p1_pc[u]

LEMMA P1_Goes ==
    ASSUME P1_Inv, NEW t \in P1_Threads, NEW from, NEW to \in P1_Positions, p1_goes(t, from, to)
    PROVE  P1_Step(t, from, to) /\ (t # P1_Main /\ from # "unborn" => p1_pc[P1_Main] # "open")
<1>1. /\ p1_pc[t] = from /\ ~IsBlocked(p1_sems, t)
      /\ p1_pc' = [p1_pc EXCEPT ![t] = to]
      /\ p1_pc \in [P1_Threads -> P1_Positions]
  BY DEF p1_goes, P1_Inv, P1_TypeOK
<1>2. p1_pc'[t] = to /\ \A u \in P1_Threads \ {t} : p1_pc'[u] = p1_pc[u]
  BY <1>1
<1>3. p1_pc[P1_Main] = "open" => \A u \in P1_Threads \ {P1_Main} : p1_pc[u] = "unborn"
  BY P1_Names DEF P1_Inv, P1_ConsumerOK, P1_ProducerOK
<1> QED BY <1>1, <1>2, <1>3 DEF P1_Step

LEMMA P1_SemsAre ==
    ASSUME P1_Inv
    PROVE  /\ SemsOK(p1_sems, P1_Sems, P1_Threads, P1_At, p1_pc)
           /\ \A s \in P1_Sems : p1_sems[s].value \in Int
BY DEF P1_Inv, SemsOK, SemOK

\* The numbers are natural numbers.
LEMMA P1_Ints ==
    ASSUME P1_Inv
    PROVE  /\ P1_Claims \in Nat /\ P1_Halfway \in Nat /\ P1_Unsignalled \in Nat
           /\ P1_AtTail \in Nat /\ P1_Done \in Nat /\ P1_Awaited \in Nat
           /\ P1_Claimed \in Nat /\ P1_Taken \in Nat /\ P1_Left \in Nat /\ P1_Given \in Nat
           /\ p1_i[P1_Consumer] \in Nat /\ p1_i[P1_Main] \in Nat
           /\ \A id \in P1_Producers : p1_i[id] \in Nat
<1>1. \A L : P1_Num(L) \in Nat
  BY P1_Names, CountBounds DEF P1_Num
<1>2. P1_Claims \in Nat /\ P1_Halfway \in Nat /\ P1_Unsignalled \in Nat /\ P1_AtTail \in Nat
  BY <1>1 DEF P1_Claims, P1_Halfway, P1_Unsignalled, P1_AtTail
<1>3. P1_Done \in Nat
  BY P1_Names, CountBounds DEF P1_Done
<1>4. \A t \in P1_Threads : p1_i[t] \in Nat
  BY DEF P1_Inv, P1_TypeOK
<1>5. P1_Awaited \in Nat
  BY <1>4, P1_Names DEF P1_Awaited
<1>6. P1_Claimed \in Nat /\ P1_Taken \in Nat /\ P1_Left \in Nat /\ P1_Given \in Nat
  BY <1>4, P1_Names DEF P1_Claimed, P1_Taken, P1_Left, P1_Given, P1_In
<1> QED BY <1>2, <1>3, <1>4, <1>5, <1>6, P1_Names

\* What a step of a producer does to the counters: to those of the producers by
\* its own move, to the consumer's nothing.
LEMMA P1_ProducerMoves ==
    ASSUME P1_Inv, NEW t \in P1_Producers, NEW from, NEW to, P1_Step(t, from, to),
           p1_i'[P1_Consumer] = p1_i[P1_Consumer], p1_i'[P1_Main] = p1_i[P1_Main]
    PROVE  /\ \A L : P1_Num(L)' = P1_Num(L) - (IF from \in L THEN 1 ELSE 0)
                                            + (IF to \in L THEN 1 ELSE 0)
           /\ P1_Done' = P1_Done - (IF from = "done" THEN 1 ELSE 0) + (IF to = "done" THEN 1 ELSE 0)
           /\ P1_Claimed' = P1_Claimed /\ P1_Taken' = P1_Taken /\ P1_Left' = P1_Left
           /\ P1_Given' = P1_Given /\ P1_Awaited' = P1_Awaited
           /\ p1_pc'[P1_Consumer] = p1_pc[P1_Consumer] /\ p1_pc'[P1_Main] = p1_pc[P1_Main]
           /\ \A u \in P1_Producers \ {t} : \A L : P1_In(u, L)' = P1_In(u, L)
<1>1. /\ t \in P1_Threads /\ t # P1_Main /\ t # P1_Consumer
      /\ p1_pc[t] = from /\ p1_pc'[t] = to
      /\ \A u \in P1_Threads \ {t} : p1_pc'[u] = p1_pc[u]
      /\ \A u \in P1_Producers \ {t} : p1_pc'[u] = p1_pc[u]
  BY P1_Names DEF P1_Step
<1>2. p1_pc'[P1_Consumer] = p1_pc[P1_Consumer] /\ p1_pc'[P1_Main] = p1_pc[P1_Main]
  BY <1>1, P1_Names
<1>3. ASSUME NEW L
      PROVE  P1_Num(L)' = P1_Num(L) - (IF from \in L THEN 1 ELSE 0) + (IF to \in L THEN 1 ELSE 0)
  <2>1. CountIn(p1_pc', P1_Producers, L) =
            CountIn(p1_pc, P1_Producers, L) - (IF p1_pc[t] \in L THEN 1 ELSE 0)
                                            + (IF p1_pc'[t] \in L THEN 1 ELSE 0)
    BY <1>1, P1_Names, CountMoves
  <2> QED BY <1>1, <2>1 DEF P1_Num
<1>4. P1_Done' = P1_Done - (IF from = "done" THEN 1 ELSE 0) + (IF to = "done" THEN 1 ELSE 0)
  <2> DEFINE L == {"done"}
  <2> HIDE DEF L
  <2>1. CountIn(p1_pc', P1_Threads, L) =
            CountIn(p1_pc, P1_Threads, L) - (IF p1_pc[t] \in L THEN 1 ELSE 0)
                                          + (IF p1_pc'[t] \in L THEN 1 ELSE 0)
    BY <1>1, P1_Names, CountMoves
  <2> QED BY <1>1, <2>1 DEF P1_Done, L
<1>5. /\ P1_Claimed' = P1_Claimed /\ P1_Taken' = P1_Taken /\ P1_Left' = P1_Left
      /\ P1_Given' = P1_Given /\ P1_Awaited' = P1_Awaited
  BY <1>2 DEF P1_Claimed, P1_Taken, P1_Left, P1_Given, P1_Awaited, P1_In
<1>6. \A u \in P1_Producers \ {t} : \A L : P1_In(u, L)' = P1_In(u, L)
  BY <1>1 DEF P1_In
<1> QED BY <1>2, <1>3, <1>4, <1>5, <1>6

LEMMA P1_ConsumerMoves ==
    ASSUME P1_Inv, NEW from, NEW to, P1_Step(P1_Consumer, from, to),
           p1_i'[P1_Main] = p1_i[P1_Main]
    PROVE  /\ \A L : P1_Num(L)' = P1_Num(L)
           /\ P1_Done' = P1_Done - (IF from = "done" THEN 1 ELSE 0) + (IF to = "done" THEN 1 ELSE 0)
           /\ P1_Awaited' = P1_Awaited
           /\ p1_pc'[P1_Main] = p1_pc[P1_Main]
           /\ \A u \in P1_Producers : p1_pc'[u] = p1_pc[u]
           /\ \A u \in P1_Producers : \A L : P1_In(u, L)' = P1_In(u, L)
<1>1. /\ P1_Consumer \in P1_Threads
      /\ p1_pc[P1_Consumer] = from /\ p1_pc'[P1_Consumer] = to
      /\ \A u \in P1_Threads \ {P1_Consumer} : p1_pc'[u] = p1_pc[u]
  BY P1_Names DEF P1_Step
<1>2. p1_pc'[P1_Main] = p1_pc[P1_Main] /\ \A u \in P1_Producers : p1_pc'[u] = p1_pc[u]
  BY <1>1, P1_Names
<1>3. \A L : P1_Num(L)' = P1_Num(L)
  <2> TAKE L
  <2>1. {u \in P1_Producers : p1_pc'[u] \in L} = {u \in P1_Producers : p1_pc[u] \in L}
    BY <1>2
  <2> QED BY <2>1 DEF P1_Num, CountIn
<1>4. P1_Done' = P1_Done - (IF from = "done" THEN 1 ELSE 0) + (IF to = "done" THEN 1 ELSE 0)
  <2> DEFINE L == {"done"}
  <2> HIDE DEF L
  <2>1. CountIn(p1_pc', P1_Threads, L) =
            CountIn(p1_pc, P1_Threads, L) - (IF p1_pc[P1_Consumer] \in L THEN 1 ELSE 0)
                                          + (IF p1_pc'[P1_Consumer] \in L THEN 1 ELSE 0)
    BY <1>1, P1_Names, CountMoves
  <2> QED BY <1>1, <2>1 DEF P1_Done, L
<1>5. P1_Awaited' = P1_Awaited
  BY <1>2 DEF P1_Awaited
<1>6. \A u \in P1_Producers : \A L : P1_In(u, L)' = P1_In(u, L)
  BY <1>2 DEF P1_In
<1> QED BY <1>2, <1>3, <1>4, <1>5, <1>6

LEMMA P1_MainMoves ==
    ASSUME P1_Inv, NEW from, NEW to, P1_Step(P1_Main, from, to), from # "done", to # "done",
           p1_i'[P1_Consumer] = p1_i[P1_Consumer]
    PROVE  /\ \A L : P1_Num(L)' = P1_Num(L)
           /\ P1_Done' = P1_Done
           /\ P1_Claimed' = P1_Claimed /\ P1_Taken' = P1_Taken /\ P1_Left' = P1_Left
           /\ P1_Given' = P1_Given
           /\ \A u \in P1_Threads \ {P1_Main} : p1_pc'[u] = p1_pc[u]
           /\ \A u \in P1_Producers : p1_pc'[u] = p1_pc[u]
           /\ p1_pc'[P1_Consumer] = p1_pc[P1_Consumer]
           /\ \A u \in P1_Producers : \A L : P1_In(u, L)' = P1_In(u, L)
<1>1. /\ p1_pc[P1_Main] = from /\ p1_pc'[P1_Main] = to
      /\ \A u \in P1_Threads \ {P1_Main} : p1_pc'[u] = p1_pc[u]
  BY DEF P1_Step
<1>2. p1_pc'[P1_Consumer] = p1_pc[P1_Consumer] /\ \A u \in P1_Producers : p1_pc'[u] = p1_pc[u]
  BY <1>1, P1_Names
<1>3. \A L : P1_Num(L)' = P1_Num(L)
  <2> TAKE L
  <2>1. {u \in P1_Producers : p1_pc'[u] \in L} = {u \in P1_Producers : p1_pc[u] \in L}
    BY <1>2
  <2> QED BY <2>1 DEF P1_Num, CountIn
<1>4. P1_Done' = P1_Done
  <2>1. {u \in P1_Threads : p1_pc'[u] \in {"done"}} = {u \in P1_Threads : p1_pc[u] \in {"done"}}
    BY <1>1
  <2> QED BY <2>1 DEF P1_Done, CountIn
<1>5. /\ P1_Claimed' = P1_Claimed /\ P1_Taken' = P1_Taken /\ P1_Left' = P1_Left
      /\ P1_Given' = P1_Given
  BY <1>2 DEF P1_Claimed, P1_Taken, P1_Left, P1_Given, P1_In
<1>6. \A u \in P1_Producers : \A L : P1_In(u, L)' = P1_In(u, L)
  BY <1>2 DEF P1_In
<1> QED BY <1>1, <1>2, <1>3, <1>4, <1>5, <1>6

-----------------------------------------------------------------------------
\* The values of the semaphores and the places of the threads in a step.

LEMMA P1_SemsMoved ==
    ASSUME P1_Inv, NEW n \in Nat, NEW n2 \in Nat, P1_SemValues(n),
           NEW a \in Int, n2 + P1_Claims' = n + P1_Claims + a,
           NEW b \in Int, P1_Given' = P1_Given + b,
           p1_sems'["spaceAvail"].value = p1_sems["spaceAvail"].value - a + b,
           NEW c \in Int, n2 - P1_Halfway' - P1_Unsignalled' = n - P1_Halfway - P1_Unsignalled + c,
           NEW d \in Int, P1_Claimed' = P1_Claimed + d,
           p1_sems'["itemAvail"].value = p1_sems["itemAvail"].value + c - d,
           NEW e \in Int, P1_AtTail' = P1_AtTail + e,
           p1_sems'["mutTail"].value = p1_sems["mutTail"].value - e,
           NEW f \in Int, P1_Done' = P1_Done + f,
           NEW g \in Int, P1_Awaited' = P1_Awaited + g,
           p1_sems'["waitAll"].value = p1_sems["waitAll"].value + f - g
    PROVE  P1_SemValues(n2)'
<1>1. /\ P1_Claims \in Nat /\ P1_Halfway \in Nat /\ P1_Unsignalled \in Nat
      /\ P1_AtTail \in Nat /\ P1_Done \in Nat /\ P1_Awaited \in Nat
      /\ P1_Claimed \in Nat /\ P1_Given \in Nat
  BY P1_Ints
<1>2. P1_BUF_CAP \in Nat
  BY P1_Names
<1>3. p1_sems'["spaceAvail"].value = P1_BUF_CAP - (n2 + P1_Claims') + P1_Given'
  <2>1. p1_sems["spaceAvail"].value = P1_BUF_CAP - (n + P1_Claims) + P1_Given
    BY DEF P1_SemValues
  <2> QED BY <1>1, <1>2, <2>1
<1>4. p1_sems'["itemAvail"].value = n2 - P1_Halfway' - P1_Unsignalled' - P1_Claimed'
  <2>1. p1_sems["itemAvail"].value = n - P1_Halfway - P1_Unsignalled - P1_Claimed
    BY DEF P1_SemValues
  <2> QED BY <1>1, <2>1
<1>5. p1_sems'["mutTail"].value = 1 - P1_AtTail'
  <2>1. p1_sems["mutTail"].value = 1 - P1_AtTail
    BY DEF P1_SemValues
  <2> QED BY <1>1, <2>1
<1>6. p1_sems'["waitAll"].value = P1_Done' - P1_Awaited'
  <2>1. p1_sems["waitAll"].value = P1_Done - P1_Awaited
    BY DEF P1_SemValues
  <2> QED BY <1>1, <2>1
<1> QED BY <1>3, <1>4, <1>5, <1>6 DEF P1_SemValues

LEMMA P1_ProducerPlaces ==
    ASSUME P1_Inv, NEW t \in P1_Producers, NEW from, NEW to, P1_Step(t, from, to),
           from # "unborn", from # "done", to # "unborn",
           \A u \in P1_Threads \ {t} : p1_i'[u] = p1_i[u],
           to \in {"waitSpace", "tell", "done"} \union P1_Putting,
           p1_i'[t] \in 0..P1_ITEMS_PER_PRODUCER,
           to \in {"tell", "done"} <=> p1_i'[t] = P1_ITEMS_PER_PRODUCER
    PROVE  P1_MainOK' /\ P1_ConsumerOK' /\ \A id \in P1_Producers : P1_ProducerOK(id)'
<1>1. /\ p1_pc[t] = from /\ p1_pc'[t] = to
      /\ t \in P1_Threads \ {P1_Main}
      /\ \A u \in P1_Producers \ {t} : p1_pc'[u] = p1_pc[u] /\ p1_i'[u] = p1_i[u]
      /\ p1_pc'[P1_Main] = p1_pc[P1_Main] /\ p1_i'[P1_Main] = p1_i[P1_Main]
      /\ p1_pc'[P1_Consumer] = p1_pc[P1_Consumer] /\ p1_i'[P1_Consumer] = p1_i[P1_Consumer]
  BY P1_Names DEF P1_Step
<1>2. P1_MainOK'
  BY <1>1 DEF P1_Inv, P1_MainOK
<1>3. P1_ConsumerOK'
  BY <1>1 DEF P1_Inv, P1_ConsumerOK
<1>4. ASSUME NEW id \in P1_Producers PROVE P1_ProducerOK(id)'
  <2>1. CASE id = t
    BY <1>1, <2>1 DEF P1_Inv, P1_ProducerOK
  <2>2. CASE id # t
    BY <1>1, <2>2 DEF P1_Inv, P1_ProducerOK
  <2> QED BY <2>1, <2>2
<1> QED BY <1>2, <1>3, <1>4

LEMMA P1_ConsumerPlaces ==
    ASSUME P1_Inv, NEW from, NEW to, P1_Step(P1_Consumer, from, to),
           from # "unborn", from # "done", to # "unborn",
           \A u \in P1_Threads \ {P1_Consumer} : p1_i'[u] = p1_i[u],
           to \in {"waitItem", "waitHead", "take", "tell", "done"} \union P1_Holding,
           p1_i'[P1_Consumer] \in 0..P1_Total,
           to \in {"tell", "done"} <=> p1_i'[P1_Consumer] = P1_Total
    PROVE  P1_MainOK' /\ P1_ConsumerOK' /\ \A id \in P1_Producers : P1_ProducerOK(id)'
<1>1. /\ p1_pc[P1_Consumer] = from /\ p1_pc'[P1_Consumer] = to
      /\ P1_Consumer \in P1_Threads \ {P1_Main}
      /\ \A u \in P1_Producers : p1_pc'[u] = p1_pc[u] /\ p1_i'[u] = p1_i[u]
      /\ p1_pc'[P1_Main] = p1_pc[P1_Main] /\ p1_i'[P1_Main] = p1_i[P1_Main]
  BY P1_Names DEF P1_Step
<1>2. P1_MainOK'
  BY <1>1 DEF P1_Inv, P1_MainOK
<1>3. P1_ConsumerOK'
  BY <1>1 DEF P1_Inv, P1_ConsumerOK
<1>4. ASSUME NEW id \in P1_Producers PROVE P1_ProducerOK(id)'
  BY <1>1 DEF P1_Inv, P1_ProducerOK
<1> QED BY <1>2, <1>3, <1>4

\* The semaphores after a wait(), after a signal() and after other steps.
LEMMA P1_Waits ==
    ASSUME P1_Inv, NEW t \in P1_Threads, NEW from, NEW to, P1_Step(t, from, to),
           NEW s \in P1_Sems, p1_sems' = sem_wait(p1_sems, s, t), <<t, to, s>> \in P1_At
    PROVE  /\ SemsOK(p1_sems', P1_Sems, P1_Threads, P1_At, p1_pc')
           /\ p1_sems'[s].value = p1_sems[s].value - 1
           /\ \A r \in P1_Sems \ {s} : p1_sems'[r] = p1_sems[r]
<1>1. /\ SemsOK(p1_sems, P1_Sems, P1_Threads, P1_At, p1_pc)
      /\ <<t, p1_pc'[t], s>> \in P1_At
      /\ ~IsBlocked(p1_sems, t) /\ \A u \in P1_Threads \ {t} : p1_pc'[u] = p1_pc[u]
  BY DEF P1_Inv, P1_Step
<1> QED BY <1>1, SemsWait

LEMMA P1_Signals ==
    ASSUME P1_Inv, NEW t \in P1_Threads, NEW from, NEW to, P1_Step(t, from, to),
           NEW s \in P1_Sems, p1_sems' = sem_signal(p1_sems, s)
    PROVE  /\ SemsOK(p1_sems', P1_Sems, P1_Threads, P1_At, p1_pc')
           /\ p1_sems'[s].value = p1_sems[s].value + 1
           /\ \A r \in P1_Sems \ {s} : p1_sems'[r] = p1_sems[r]
<1>1. /\ SemsOK(p1_sems, P1_Sems, P1_Threads, P1_At, p1_pc)
      /\ \A u \in P1_Threads : IsBlocked(p1_sems, u) => p1_pc'[u] = p1_pc[u]
  BY DEF P1_Inv, P1_Step
<1> QED BY <1>1, SemsSignal

LEMMA P1_SemsKept ==
    ASSUME P1_Inv, NEW t \in P1_Threads, NEW from, NEW to, P1_Step(t, from, to),
           p1_sems' = p1_sems
    PROVE  SemsOK(p1_sems', P1_Sems, P1_Threads, P1_At, p1_pc')
<1>1. /\ SemsOK(p1_sems, P1_Sems, P1_Threads, P1_At, p1_pc)
      /\ \A u \in P1_Threads : IsBlocked(p1_sems, u) => p1_pc'[u] = p1_pc[u]
  BY DEF P1_Inv, P1_Step
<1> QED BY <1>1, SemsSame

LEMMA P1_SemNames ==
    /\ "spaceAvail" \in P1_Sems /\ "itemAvail" \in P1_Sems /\ "mutTail" \in P1_Sems
    /\ "mutHead" \in P1_Sems /\ "waitAll" \in P1_Sems
BY DEF P1_Sems

\* A step that leaves the ring, the counts and the consumer's item alone.
LEMMA P1_RingKept ==
    ASSUME P1_Inv, NEW log, P1_RingOK(log), p1_ring' = p1_ring, p1_ch' = p1_ch,
           P1_Left' = P1_Left, P1_Halfway' = P1_Halfway, P1_Taken' = P1_Taken,
           p1_i'[P1_Consumer] = p1_i[P1_Consumer],
           p1_pc'[P1_Consumer] \in P1_Holding => p1_pc[P1_Consumer] \in P1_Holding
    PROVE  P1_RingOK(log)'
BY DEF P1_RingOK

-----------------------------------------------------------------------------
\* The steps of a producer.

LEMMA P1_ProducerWaits ==
    ASSUME P1_Inv, errorFlag = 0, NEW t \in P1_Producers, NEW from, NEW s, NEW to,
           p1_wait(t, from, s, to), UNCHANGED <<p1_locals, p1_memory>>,
           \/ from = "waitSpace" /\ s = "spaceAvail" /\ to = "waitTail"
           \/ from = "waitTail" /\ s = "mutTail" /\ to = "store"
    PROVE  P1_Inv' /\ errorFlag' = 0
<1>1. /\ p1_goes(t, from, to) /\ p1_sems' = sem_wait(p1_sems, s, t)
      /\ UNCHANGED <<p1_i, p1_ch, p1_ring, p1_counts, errorFlag>>
      /\ to \in P1_Positions /\ t \in P1_Threads /\ t # P1_Main /\ from # "unborn"
      /\ s \in P1_Sems /\ from # "done" /\ to # "done"
  BY P1_Names DEF p1_wait, p1_locals, p1_memory, P1_Positions, P1_Sems
<1>2. P1_Step(t, from, to) /\ p1_pc[P1_Main] # "open"
  BY <1>1, P1_Goes
<1>3. /\ SemsOK(p1_sems', P1_Sems, P1_Threads, P1_At, p1_pc')
      /\ p1_sems'[s].value = p1_sems[s].value - 1
      /\ \A r \in P1_Sems \ {s} : p1_sems'[r] = p1_sems[r]
  <2>1. <<t, to, s>> \in P1_At
    BY DEF P1_At
  <2> QED BY <1>1, <1>2, <2>1, P1_Waits
<1>4. P1_TypeOK'
  BY <1>1, <1>2, <1>3 DEF P1_Inv, P1_TypeOK, P1_Step, SemsOK
<1>5. P1_MainOK' /\ P1_ConsumerOK' /\ \A id \in P1_Producers : P1_ProducerOK(id)'
  <2>1. /\ p1_i[t] \in 0..P1_ITEMS_PER_PRODUCER
        /\ p1_i[t] # P1_ITEMS_PER_PRODUCER
    BY <1>1, <1>2 DEF P1_Inv, P1_ProducerOK, P1_Step
  <2>2. to \in {"waitSpace", "tell", "done"} \union P1_Putting /\ to \notin {"unborn", "tell", "done"}
    BY DEF P1_Putting
  <2> QED BY <1>1, <1>2, <2>1, <2>2, P1_ProducerPlaces
<1>6. PICK log \in Seq(P1_Producers) : P1_LogOK(log)
  BY DEF P1_Inv
<1>7. /\ \A L : P1_Num(L)' = P1_Num(L) - (IF from \in L THEN 1 ELSE 0)
                                       + (IF to \in L THEN 1 ELSE 0)
      /\ P1_Done' = P1_Done - (IF from = "done" THEN 1 ELSE 0) + (IF to = "done" THEN 1 ELSE 0)
      /\ P1_Claimed' = P1_Claimed /\ P1_Taken' = P1_Taken /\ P1_Left' = P1_Left
      /\ P1_Given' = P1_Given /\ P1_Awaited' = P1_Awaited
      /\ p1_pc'[P1_Consumer] = p1_pc[P1_Consumer] /\ p1_pc'[P1_Main] = p1_pc[P1_Main]
      /\ \A u \in P1_Producers \ {t} : \A L : P1_In(u, L)' = P1_In(u, L)
  BY <1>1, <1>2, P1_ProducerMoves
<1>8. /\ P1_Halfway' = P1_Halfway /\ P1_Unsignalled' = P1_Unsignalled
      /\ P1_Claims' = P1_Claims + (IF s = "spaceAvail" THEN 1 ELSE 0)
      /\ P1_AtTail' = P1_AtTail + (IF s = "mutTail" THEN 1 ELSE 0)
      /\ P1_Done' = P1_Done
  BY SMTT(30), <1>1, <1>7, P1_Ints DEF P1_Halfway, P1_Unsignalled, P1_Claims, P1_AtTail
<1>9. P1_RingOK(log)'
  BY <1>1, <1>6, <1>7, <1>8, P1_RingKept DEF P1_LogOK
<1>10. P1_CountsOK(log)'
  <2>1. P1_In(t, {"moveTail", "freeTail", "signalItem"})' =
            P1_In(t, {"moveTail", "freeTail", "signalItem"})
    BY <1>2 DEF P1_In, P1_Step
  <2> QED BY <1>1, <1>6, <1>7, <2>1 DEF P1_LogOK, P1_CountsOK
<1>11. P1_SemValues(Len(log))'
  <2> DEFINE n == Len(log)
  <2> DEFINE a == IF s = "spaceAvail" THEN 1 ELSE 0
  <2> DEFINE e == IF s = "mutTail" THEN 1 ELSE 0
  <2>1. n \in Nat /\ P1_SemValues(n)
    BY <1>2, <1>6 DEF P1_LogOK
  <2>2. /\ p1_sems["spaceAvail"].value \in Int /\ p1_sems["itemAvail"].value \in Int
        /\ p1_sems["mutTail"].value \in Int /\ p1_sems["waitAll"].value \in Int
    BY P1_SemNames, P1_SemsAre
  <2>3. /\ p1_sems'["spaceAvail"].value = p1_sems["spaceAvail"].value - a + 0
        /\ p1_sems'["itemAvail"].value = p1_sems["itemAvail"].value + 0 - 0
        /\ p1_sems'["mutTail"].value = p1_sems["mutTail"].value - e
        /\ p1_sems'["waitAll"].value = p1_sems["waitAll"].value + 0 - 0
    BY <1>3, <2>2, P1_SemNames
  <2>4. a \in Int /\ e \in Int /\ 0 \in Int
    OBVIOUS
  <2>5. /\ n + P1_Claims' = n + P1_Claims + a /\ P1_Given' = P1_Given + 0
        /\ n - P1_Halfway' - P1_Unsignalled' = n - P1_Halfway - P1_Unsignalled + 0
        /\ P1_Claimed' = P1_Claimed + 0 /\ P1_AtTail' = P1_AtTail + e
        /\ P1_Done' = P1_Done + 0 /\ P1_Awaited' = P1_Awaited + 0
    <3>1. /\ P1_Claims \in Nat /\ P1_Halfway \in Nat /\ P1_Unsignalled \in Nat
          /\ P1_AtTail \in Nat /\ P1_Done \in Nat /\ P1_Awaited \in Nat
          /\ P1_Claimed \in Nat /\ P1_Given \in Nat
      BY P1_Ints
    <3>2. /\ P1_Claimed' = P1_Claimed /\ P1_Given' = P1_Given /\ P1_Awaited' = P1_Awaited
      BY <1>7
    <3> HIDE DEF n
    <3> QED BY <1>8, <2>1, <3>1, <3>2
  <2> HIDE DEF n, a, e
  <2>6. P1_SemValues(n)'
    BY <2>1, <2>3, <2>4, <2>5, P1_SemsMoved
  <2> QED BY <2>6 DEF n
<1>12. P1_LogOK(log)'
  BY <1>2, <1>7, <1>9, <1>10, <1>11 DEF P1_LogOK
<1> QED BY <1>1, <1>3, <1>4, <1>5, <1>6, <1>12 DEF P1_Inv

LEMMA P1_ProducerSignals ==
    ASSUME P1_Inv, errorFlag = 0, NEW t \in P1_Producers, NEW from, NEW s, NEW to,
           p1_signal(t, from, s, to), UNCHANGED <<p1_ch, p1_memory>>,
           \/ from = "freeTail" /\ s = "mutTail" /\ to = "signalItem" /\ p1_i' = p1_i
           \/ /\ from = "signalItem" /\ s = "itemAvail" /\ p1_counted(t)
              /\ to = p1_round(t, P1_ITEMS_PER_PRODUCER, "waitSpace", "tell")
           \/ from = "tell" /\ s = "waitAll" /\ to = "done" /\ p1_i' = p1_i
    PROVE  P1_Inv' /\ errorFlag' = 0
<1>1. /\ p1_goes(t, from, to) /\ p1_sems' = sem_signal(p1_sems, s)
      /\ UNCHANGED <<p1_ch, p1_ring, p1_counts, errorFlag>>
      /\ to \in P1_Positions /\ t \in P1_Threads /\ t # P1_Main /\ from # "unborn"
      /\ s \in P1_Sems /\ from # "done"
      /\ p1_i \in [P1_Threads -> Nat]
  BY P1_Names DEF p1_signal, p1_memory, p1_round, P1_Positions, P1_Sems, P1_Inv, P1_TypeOK
<1>2. P1_Step(t, from, to) /\ p1_pc[P1_Main] # "open"
  BY <1>1, P1_Goes
<1>3. /\ SemsOK(p1_sems', P1_Sems, P1_Threads, P1_At, p1_pc')
      /\ p1_sems'[s].value = p1_sems[s].value + 1
      /\ \A r \in P1_Sems \ {s} : p1_sems'[r] = p1_sems[r]
  BY <1>1, <1>2, P1_Signals
<1>4. /\ p1_i' \in [P1_Threads -> Nat]
      /\ p1_i'[t] = p1_i[t] + (IF s = "itemAvail" THEN 1 ELSE 0)
      /\ \A u \in P1_Threads \ {t} : p1_i'[u] = p1_i[u]
  BY <1>1 DEF p1_counted
<1>5. P1_TypeOK'
  BY <1>1, <1>2, <1>3, <1>4 DEF P1_Inv, P1_TypeOK, P1_Step, SemsOK
<1>6. P1_MainOK' /\ P1_ConsumerOK' /\ \A id \in P1_Producers : P1_ProducerOK(id)'
  <2>1. /\ p1_i[t] \in 0..P1_ITEMS_PER_PRODUCER /\ P1_ITEMS_PER_PRODUCER \in Nat
        /\ from = "tell" <=> p1_i[t] = P1_ITEMS_PER_PRODUCER
    BY <1>1, <1>2, P1_Names DEF P1_Inv, P1_ProducerOK, P1_Step
  <2>2. p1_i'[t] \in 0..P1_ITEMS_PER_PRODUCER
        /\ (to \in {"tell", "done"} <=> p1_i'[t] = P1_ITEMS_PER_PRODUCER)
    BY <1>4, <2>1 DEF p1_round
  <2>3. to \in {"waitSpace", "tell", "done"} \union P1_Putting /\ to # "unborn"
    BY DEF P1_Putting, p1_round
  <2> QED BY <1>1, <1>2, <1>4, <2>2, <2>3, P1_ProducerPlaces
<1>7. PICK log \in Seq(P1_Producers) : P1_LogOK(log)
  BY DEF P1_Inv
<1>8. /\ \A L : P1_Num(L)' = P1_Num(L) - (IF from \in L THEN 1 ELSE 0)
                                       + (IF to \in L THEN 1 ELSE 0)
      /\ P1_Done' = P1_Done - (IF from = "done" THEN 1 ELSE 0) + (IF to = "done" THEN 1 ELSE 0)
      /\ P1_Claimed' = P1_Claimed /\ P1_Taken' = P1_Taken /\ P1_Left' = P1_Left
      /\ P1_Given' = P1_Given /\ P1_Awaited' = P1_Awaited
      /\ p1_pc'[P1_Consumer] = p1_pc[P1_Consumer] /\ p1_pc'[P1_Main] = p1_pc[P1_Main]
      /\ \A u \in P1_Producers \ {t} : \A L : P1_In(u, L)' = P1_In(u, L)
  <2>1. p1_i'[P1_Consumer] = p1_i[P1_Consumer] /\ p1_i'[P1_Main] = p1_i[P1_Main]
    BY <1>4, P1_Names
  <2> QED BY <1>2, <2>1, P1_ProducerMoves
<1>9. /\ P1_Halfway' = P1_Halfway
      /\ P1_Unsignalled' = P1_Unsignalled - (IF s = "itemAvail" THEN 1 ELSE 0)
      /\ P1_Claims' = P1_Claims
      /\ P1_AtTail' = P1_AtTail - (IF s = "mutTail" THEN 1 ELSE 0)
      /\ P1_Done' = P1_Done + (IF s = "waitAll" THEN 1 ELSE 0)
  <2>1. /\ P1_Claims \in Nat /\ P1_Halfway \in Nat /\ P1_Unsignalled \in Nat
        /\ P1_AtTail \in Nat /\ P1_Done \in Nat
    BY P1_Ints
  <2>2. to \in {"signalItem", "waitSpace", "tell", "done"}
    BY DEF p1_round
  <2>3. P1_Halfway' = P1_Halfway
    BY <1>8, <2>1, <2>2 DEF P1_Halfway
  <2>4. P1_Unsignalled' = P1_Unsignalled - (IF s = "itemAvail" THEN 1 ELSE 0)
    BY <1>8, <2>1, <2>2 DEF P1_Unsignalled, p1_round
  <2>5. P1_Claims' = P1_Claims
    BY <1>8, <2>1, <2>2 DEF P1_Claims
  <2>6. P1_AtTail' = P1_AtTail - (IF s = "mutTail" THEN 1 ELSE 0)
    BY <1>8, <2>1, <2>2 DEF P1_AtTail
  <2>7. P1_Done' = P1_Done + (IF s = "waitAll" THEN 1 ELSE 0)
    BY <1>8, <2>1, <2>2 DEF p1_round
  <2> QED BY <2>3, <2>4, <2>5, <2>6, <2>7
<1>10. P1_RingOK(log)'
  BY <1>1, <1>4, <1>7, <1>8, <1>9, P1_RingKept, P1_Names DEF P1_LogOK
<1>11. P1_CountsOK(log)'
  <2> DEFINE L == {"moveTail", "freeTail", "signalItem"}
  <2>1. p1_i'[t] + P1_In(t, L)' = p1_i[t] + P1_In(t, L)
    BY <1>1, <1>2, <1>4 DEF P1_In, P1_Step, p1_round
  <2> HIDE DEF L
  <2>2. \A u \in P1_Producers : p1_i'[u] + P1_In(u, L)' = p1_i[u] + P1_In(u, L)
    BY <1>4, <1>8, <2>1, P1_Names
  <2>3. p1_i'[P1_Consumer] = p1_i[P1_Consumer]
    BY <1>4, P1_Names
  <2> QED BY <1>1, <1>7, <2>2, <2>3 DEF P1_LogOK, P1_CountsOK, L
<1>12. P1_SemValues(Len(log))'
  <2> DEFINE n == Len(log)
  <2> DEFINE c == IF s = "itemAvail" THEN 1 ELSE 0
  <2> DEFINE e == IF s = "mutTail" THEN -1 ELSE 0
  <2> DEFINE f == IF s = "waitAll" THEN 1 ELSE 0
  <2>1. n \in Nat /\ P1_SemValues(n)
    BY <1>2, <1>7 DEF P1_LogOK
  <2>2. /\ p1_sems["spaceAvail"].value \in Int /\ p1_sems["itemAvail"].value \in Int
        /\ p1_sems["mutTail"].value \in Int /\ p1_sems["waitAll"].value \in Int
    BY P1_SemNames, P1_SemsAre
  <2>3. /\ p1_sems'["spaceAvail"].value = p1_sems["spaceAvail"].value - 0 + 0
        /\ p1_sems'["itemAvail"].value = p1_sems["itemAvail"].value + c - 0
        /\ p1_sems'["mutTail"].value = p1_sems["mutTail"].value - e
        /\ p1_sems'["waitAll"].value = p1_sems["waitAll"].value + f - 0
    BY <1>3, <2>2, P1_SemNames
  <2>4. c \in Int /\ e \in Int /\ f \in Int /\ 0 \in Int
    OBVIOUS
  <2>5. /\ n + P1_Claims' = n + P1_Claims + 0 /\ P1_Given' = P1_Given + 0
        /\ n - P1_Halfway' - P1_Unsignalled' = n - P1_Halfway - P1_Unsignalled + c
        /\ P1_Claimed' = P1_Claimed + 0 /\ P1_AtTail' = P1_AtTail + e
        /\ P1_Done' = P1_Done + f /\ P1_Awaited' = P1_Awaited + 0
    <3>1. /\ P1_Claims \in Nat /\ P1_Halfway \in Nat /\ P1_Unsignalled \in Nat
          /\ P1_AtTail \in Nat /\ P1_Done \in Nat /\ P1_Awaited \in Nat
          /\ P1_Claimed \in Nat /\ P1_Given \in Nat
      BY P1_Ints
    <3>2. /\ P1_Claimed' = P1_Claimed /\ P1_Given' = P1_Given /\ P1_Awaited' = P1_Awaited
      BY <1>8
    <3> HIDE DEF n
    <3> QED BY <1>9, <2>1, <3>1, <3>2
  <2> HIDE DEF n, c, e, f
  <2>6. P1_SemValues(n)'
    BY <2>1, <2>3, <2>4, <2>5, P1_SemsMoved
  <2> QED BY <2>6 DEF n
<1>13. P1_LogOK(log)'
  BY <1>2, <1>8, <1>10, <1>11, <1>12 DEF P1_LogOK
<1> QED BY <1>1, <1>3, <1>5, <1>6, <1>7, <1>13 DEF P1_Inv

\* A producer at the tail is the only one there.
LEMMA P1_AloneAtTail ==
    ASSUME P1_Inv, NEW t \in P1_Producers, ~IsBlocked(p1_sems, t),
           p1_pc[t] \in {"store", "moveTail"}, p1_pc[P1_Main] # "open"
    PROVE  P1_Halfway = IF p1_pc[t] = "moveTail" THEN 1 ELSE 0
<1> DEFINE L == {"store", "moveTail", "freeTail"}
<1> DEFINE A == {u \in P1_Producers : p1_pc[u] \in L}
<1>1. /\ SemsOK(p1_sems, P1_Sems, P1_Threads, P1_At, p1_pc)
      /\ "mutTail" \in P1_Sems /\ IsFiniteSet(P1_Threads)
  BY P1_SemsAre, P1_SemNames, P1_Names
<1>2. A \in SUBSET P1_Threads
  BY P1_Names
<1>3. \A u \in P1_Threads : <<u, p1_pc[u], "mutTail">> \in P1_At => u \in A
  BY DEF P1_At
<1>4. p1_sems["mutTail"].value = 1 - Cardinality(A)
  BY DEF P1_Inv, P1_LogOK, P1_SemValues, P1_AtTail, P1_Num, CountIn
<1>5. t \in A /\ t \notin Range(p1_sems["mutTail"].blocked)
  BY <1>1 DEF IsBlocked, SemsOK
<1>6. ASSUME NEW u \in P1_Producers, p1_pc[u] = "moveTail" PROVE u = t
  <2>1. u \in A /\ <<u, p1_pc[u], "mutTail">> \notin P1_At
    BY <1>6 DEF P1_At
  <2>2. u \notin Range(p1_sems["mutTail"].blocked)
    BY <1>1, <2>1 DEF SemsOK
  <2> HIDE DEF A
  <2> QED BY <1>1, <1>2, <1>3, <1>4, <1>5, <2>1, <2>2, Mutex
<1>7. {u \in P1_Producers : p1_pc[u] \in {"moveTail"}} = IF p1_pc[t] = "moveTail" THEN {t} ELSE {}
  BY <1>6
<1>8. Cardinality({t}) = 1 /\ Cardinality({}) = 0
  BY FS_Singleton, FS_EmptySet
<1> QED BY <1>7, <1>8 DEF P1_Halfway, P1_Num, CountIn

\* A producer that is past its wait for a space has one.
LEMMA P1_RoomForOne ==
    ASSUME P1_Inv, NEW t \in P1_Producers, ~IsBlocked(p1_sems, t), p1_pc[t] = "store",
           p1_pc[P1_Main] # "open", NEW n \in Nat, P1_SemValues(n)
    PROVE  n + 1 <= P1_Left + P1_BUF_CAP
<1> DEFINE L == {"waitTail", "store"}
<1> DEFINE A == {u \in P1_Producers : p1_pc[u] \in L}
<1> DEFINE q == p1_sems["spaceAvail"].blocked
<1> DEFINE v == p1_sems["spaceAvail"].value
<1> DEFINE B == {u \in A : u \notin Range(q)}
<1>1. /\ SemsOK(p1_sems, P1_Sems, P1_Threads, P1_At, p1_pc)
      /\ "spaceAvail" \in P1_Sems /\ IsFiniteSet(P1_Threads)
  BY P1_SemsAre, P1_SemNames, P1_Names
<1>2. A \in SUBSET P1_Threads
  BY P1_Names
<1>3. \A u \in P1_Threads : <<u, p1_pc[u], "spaceAvail">> \in P1_At => u \in A
  BY DEF P1_At
<1>4. P1_Claims = Cardinality(A)
  BY DEF P1_Claims, P1_Num, CountIn
<1>5. t \in A /\ t \notin Range(q)
  BY <1>1 DEF IsBlocked, SemsOK
<1>6. v \in Int
  BY <1>1, P1_SemsAre
<1> HIDE DEF A
<1>7. /\ Cardinality(A) \in Nat /\ IsFiniteSet(B)
      /\ Cardinality(B) = Cardinality(A) - IF v < 0 THEN -v ELSE 0
  BY SMTT(30), <1>1, <1>2, <1>3, PassedCount
<1>8. t \in B
  BY <1>5
<1> HIDE DEF B
<1>9. Cardinality(B) \in Nat /\ Cardinality(B) # 0
  BY <1>7, <1>8, FS_EmptySet, FS_CardinalityType
<1>10. v = P1_BUF_CAP - (n + P1_Claims) + P1_Given
  BY DEF P1_SemValues
<1>11. P1_Given \in Nat /\ P1_Left \in Nat /\ P1_Given <= P1_Left
  <2>1. p1_i[P1_Consumer] \in Nat
    BY P1_Ints
  <2> QED BY <2>1, P1_Ints DEF P1_Given, P1_Left, P1_In
<1> HIDE DEF v
<1> QED BY <1>4, <1>6, <1>7, <1>9, <1>10, <1>11, P1_Names

LEMMA P1_ProducerStores ==
    ASSUME P1_Inv, errorFlag = 0, NEW t \in P1_Producers, p1_goes(t, "store", "moveTail"),
           p1_ring' = Stored(p1_ring, t),
           UNCHANGED <<p1_locals, p1_sems, p1_counts, errorFlag>>
    PROVE  P1_Inv' /\ errorFlag' = 0
<1> DEFINE from == "store"
<1> DEFINE to == "moveTail"
<1>1. /\ p1_goes(t, from, to)
      /\ UNCHANGED <<p1_i, p1_ch, p1_sems, p1_counts, errorFlag>>
      /\ to \in P1_Positions /\ t \in P1_Threads /\ t # P1_Main /\ from # "unborn"
  BY P1_Names DEF p1_locals, P1_Positions
<1>2. P1_Step(t, from, to) /\ p1_pc[P1_Main] # "open"
  BY <1>1, P1_Goes
<1>3. SemsOK(p1_sems', P1_Sems, P1_Threads, P1_At, p1_pc')
  BY <1>1, <1>2, P1_SemsKept
<1>4. P1_MainOK' /\ P1_ConsumerOK' /\ \A id \in P1_Producers : P1_ProducerOK(id)'
  <2>1. /\ p1_i[t] \in 0..P1_ITEMS_PER_PRODUCER
        /\ p1_i[t] # P1_ITEMS_PER_PRODUCER
    BY <1>1, <1>2 DEF P1_Inv, P1_ProducerOK, P1_Step
  <2>2. to \in {"waitSpace", "tell", "done"} \union P1_Putting /\ to \notin {"unborn", "tell", "done"}
    BY DEF P1_Putting
  <2> QED BY <1>1, <1>2, <2>1, <2>2, P1_ProducerPlaces
<1>5. PICK log \in Seq(P1_Producers) : P1_LogOK(log)
  BY DEF P1_Inv
<1> DEFINE n == Len(log)
<1>0. PICK log2 \in Seq(P1_Producers) : log2 = Append(log, t)
  <2>1. Append(log, t) \in Seq(P1_Producers)
    BY <1>5
  <2> QED BY <2>1
<1>6. /\ n \in Nat /\ P1_SemValues(n) /\ P1_RingOK(log) /\ P1_CountsOK(log)
      /\ log2 \in Seq(P1_Producers) /\ Len(log2) = n + 1
      /\ \A k \in 1..n : log2[k] = log[k]
      /\ log2[n + 1] = t
  BY <1>0, <1>2, <1>5 DEF P1_LogOK
<1>7. /\ \A L : P1_Num(L)' = P1_Num(L) - (IF from \in L THEN 1 ELSE 0)
                                       + (IF to \in L THEN 1 ELSE 0)
      /\ P1_Done' = P1_Done - (IF from = "done" THEN 1 ELSE 0) + (IF to = "done" THEN 1 ELSE 0)
      /\ P1_Claimed' = P1_Claimed /\ P1_Taken' = P1_Taken /\ P1_Left' = P1_Left
      /\ P1_Given' = P1_Given /\ P1_Awaited' = P1_Awaited
      /\ p1_pc'[P1_Consumer] = p1_pc[P1_Consumer] /\ p1_pc'[P1_Main] = p1_pc[P1_Main]
      /\ \A u \in P1_Producers \ {t} : \A L : P1_In(u, L)' = P1_In(u, L)
  BY <1>1, <1>2, P1_ProducerMoves
<1>8. /\ P1_Claims \in Nat /\ P1_Halfway \in Nat /\ P1_Unsignalled \in Nat
      /\ P1_AtTail \in Nat /\ P1_Done \in Nat /\ P1_Awaited \in Nat
      /\ P1_Claimed \in Nat /\ P1_Given \in Nat /\ P1_Left \in Nat /\ P1_Taken \in Nat
      /\ p1_i[P1_Consumer] \in Nat
  BY P1_Ints
<1>9. /\ P1_Halfway' = P1_Halfway + 1 /\ P1_Unsignalled' = P1_Unsignalled
      /\ P1_Claims' = P1_Claims - 1 /\ P1_AtTail' = P1_AtTail /\ P1_Done' = P1_Done
  BY SMTT(30), <1>7, <1>8 DEF P1_Halfway, P1_Unsignalled, P1_Claims, P1_AtTail
<1>10. P1_Halfway = 0
  BY <1>2, P1_AloneAtTail DEF P1_Step
<1>11. n + 1 <= P1_Left + P1_BUF_CAP
  BY <1>2, <1>6, P1_RoomForOne DEF P1_Step
<1> HIDE DEF n
<1>12. P1_RingOK(log2)'
  <2>1. RingHolds(p1_ring, P1_BUF_CAP, P1_Left, n, n, log)
    <3>1. RingHolds(p1_ring, P1_BUF_CAP, P1_Left, n - P1_Halfway, n, log)
      BY <1>6 DEF P1_RingOK, n
    <3>2. n - P1_Halfway = n
      BY <1>6, <1>10
    <3> QED BY <3>1, <3>2
  <2>2. \A k \in (P1_Left + 1)..n : log2[k] = log[k]
    BY <1>6, <1>8
  <2>3. log2[n + 1] \in Int
    BY <1>6 DEF P1_Producers
  <2>4. RingHolds(Stored(p1_ring, log2[n + 1]), P1_BUF_CAP, P1_Left, n, n + 1, log2)
    <3>1. P1_BUF_CAP \in Nat \ {0}
      BY P1_Names
    <3> QED BY <1>6, <1>8, <1>11, <2>1, <2>2, <2>3, <3>1, RingStored
  <2>5. Len(log2) - P1_Halfway' = n /\ Len(log2) = n + 1
    BY <1>6, <1>9, <1>10
  <2>6. RingHolds(p1_ring', P1_BUF_CAP, P1_Left', Len(log2) - P1_Halfway', Len(log2), log2)
    BY <1>6, <1>7, <2>4, <2>5
  <2>7. P1_Taken' <= n + 1
    BY <1>6, <1>7, <1>8 DEF P1_RingOK, n
  <2>8. p1_pc'[P1_Consumer] \in P1_Holding => p1_ch' = log2[p1_i'[P1_Consumer] + 1]
    <3>1. SUFFICES ASSUME p1_pc[P1_Consumer] \in P1_Holding
                   PROVE  p1_ch = log2[p1_i[P1_Consumer] + 1]
      BY <1>1, <1>7
    <3>2. p1_ch = log[p1_i[P1_Consumer] + 1] /\ p1_i[P1_Consumer] + 1 <= n
      BY <1>6, <1>8, <3>1 DEF P1_RingOK, P1_Taken, P1_In, n
    <3> QED BY <1>6, <1>8, <3>2
  <2>9. Len(log2) = n + 1
    BY <1>6
  <2>10. RingHolds(p1_ring, P1_BUF_CAP, P1_Left, Len(log2) - P1_Halfway, Len(log2), log2)'
    BY <2>6
  <2>11. (P1_Taken <= Len(log2))'
    BY <2>7, <2>9
  <2>12. (p1_pc[P1_Consumer] \in P1_Holding => p1_ch = log2[p1_i[P1_Consumer] + 1])'
    BY <2>8
  <2> QED BY <2>10, <2>11, <2>12 DEF P1_RingOK
<1>13. P1_CountsOK(log2)'
  <2> DEFINE L == {"moveTail", "freeTail", "signalItem"}
  <2>1. ASSUME NEW id \in P1_Producers
        PROVE  Occurrences(log2, n + 1, id) = p1_i[id] + P1_In(id, L)'
    <3>1. Occurrences(log2, n + 1, id) = Occurrences(log2, n, id) + (IF t = id THEN 1 ELSE 0)
      BY <1>6, OccurrencesNext
    <3>2. Occurrences(log2, n, id) = Occurrences(log, n, id)
      BY <1>6, OccurrencesSame
    <3>3. Occurrences(log, n, id) = p1_i[id] + P1_In(id, L)
      BY <1>6 DEF P1_CountsOK, n
    <3>4. P1_In(id, L)' = P1_In(id, L) + (IF t = id THEN 1 ELSE 0)
      <4>1. CASE id = t
        BY <1>2, <4>1 DEF P1_In, P1_Step
      <4>2. CASE id # t
        <5>1. P1_In(id, L)' = P1_In(id, L) /\ P1_In(id, L) \in Nat
          BY <1>7, <4>2 DEF P1_In
        <5> QED BY <4>2, <5>1
      <4> QED BY <4>1, <4>2
    <3>5. P1_In(id, L) \in Nat /\ p1_i[id] \in Nat
      BY P1_Ints DEF P1_In
    <3> HIDE DEF L
    <3> QED BY <3>1, <3>2, <3>3, <3>4, <3>5
  <2>2. ASSUME NEW id \in P1_Producers
        PROVE  p1_counts[id] = Occurrences(log2, p1_i[P1_Consumer], id)
    <3>1. p1_i[P1_Consumer] <= n
      BY <1>6, <1>8 DEF P1_RingOK, P1_Taken, P1_In, n
    <3>2. \A k \in 1..p1_i[P1_Consumer] : log2[k] = log[k]
      BY <1>6, <1>8, <3>1
    <3>3. Occurrences(log2, p1_i[P1_Consumer], id) = Occurrences(log, p1_i[P1_Consumer], id)
      BY <1>8, <3>2, OccurrencesSame
    <3> QED BY <1>6, <3>3 DEF P1_CountsOK
  <2> QED BY <1>1, <1>6, <2>1, <2>2 DEF P1_CountsOK
<1>14. P1_SemValues(n + 1)'
  <2>1. /\ p1_sems["spaceAvail"].value \in Int /\ p1_sems["itemAvail"].value \in Int
        /\ p1_sems["mutTail"].value \in Int /\ p1_sems["waitAll"].value \in Int
    BY P1_SemNames, P1_SemsAre
  <2>2. /\ p1_sems'["spaceAvail"].value = p1_sems["spaceAvail"].value - 0 + 0
        /\ p1_sems'["itemAvail"].value = p1_sems["itemAvail"].value + 0 - 0
        /\ p1_sems'["mutTail"].value = p1_sems["mutTail"].value - 0
        /\ p1_sems'["waitAll"].value = p1_sems["waitAll"].value + 0 - 0
    BY <1>1, <2>1
  <2>3. /\ (n + 1) + P1_Claims' = n + P1_Claims + 0 /\ P1_Given' = P1_Given + 0
        /\ (n + 1) - P1_Halfway' - P1_Unsignalled' = n - P1_Halfway - P1_Unsignalled + 0
        /\ P1_Claimed' = P1_Claimed + 0 /\ P1_AtTail' = P1_AtTail + 0
        /\ P1_Done' = P1_Done + 0 /\ P1_Awaited' = P1_Awaited + 0
    <3>1. /\ P1_Claimed' = P1_Claimed /\ P1_Given' = P1_Given /\ P1_Awaited' = P1_Awaited
      BY <1>7
    <3> QED BY <1>6, <1>8, <1>9, <3>1
  <2>4. n + 1 \in Nat /\ 0 \in Int
    BY <1>6
  <2> QED BY <1>6, <2>2, <2>3, <2>4, P1_SemsMoved
<1>15. P1_LogOK(log2)'
  BY <1>2, <1>6, <1>7, <1>12, <1>13, <1>14 DEF P1_LogOK
<1>16. P1_TypeOK'
  BY <1>1, <1>2, <1>3, <1>12 DEF P1_Inv, P1_TypeOK, P1_Step, SemsOK, P1_RingOK, RingHolds
<1> QED BY <1>1, <1>3, <1>4, <1>6, <1>15, <1>16 DEF P1_Inv

LEMMA P1_ProducerMovesTail ==
    ASSUME P1_Inv, errorFlag = 0, NEW t \in P1_Producers, p1_goes(t, "moveTail", "freeTail"),
           p1_ring' = TailMoved(p1_ring, P1_BUF_CAP),
           UNCHANGED <<p1_locals, p1_sems, p1_counts, errorFlag>>
    PROVE  P1_Inv' /\ errorFlag' = 0
<1> DEFINE from == "moveTail"
<1> DEFINE to == "freeTail"
<1>1. /\ p1_goes(t, from, to)
      /\ UNCHANGED <<p1_i, p1_ch, p1_sems, p1_counts, errorFlag>>
      /\ to \in P1_Positions /\ t \in P1_Threads /\ t # P1_Main /\ from # "unborn"
  BY P1_Names DEF p1_locals, P1_Positions
<1>2. P1_Step(t, from, to) /\ p1_pc[P1_Main] # "open"
  BY <1>1, P1_Goes
<1>3. SemsOK(p1_sems', P1_Sems, P1_Threads, P1_At, p1_pc')
  BY <1>1, <1>2, P1_SemsKept
<1>4. P1_MainOK' /\ P1_ConsumerOK' /\ \A id \in P1_Producers : P1_ProducerOK(id)'
  <2>1. /\ p1_i[t] \in 0..P1_ITEMS_PER_PRODUCER
        /\ p1_i[t] # P1_ITEMS_PER_PRODUCER
    BY <1>1, <1>2 DEF P1_Inv, P1_ProducerOK, P1_Step
  <2>2. to \in {"waitSpace", "tell", "done"} \union P1_Putting /\ to \notin {"unborn", "tell", "done"}
    BY DEF P1_Putting
  <2> QED BY <1>1, <1>2, <2>1, <2>2, P1_ProducerPlaces
<1>5. PICK log \in Seq(P1_Producers) : P1_LogOK(log)
  BY DEF P1_Inv
<1> DEFINE n == Len(log)
<1>6. n \in Nat /\ P1_SemValues(n) /\ P1_RingOK(log) /\ P1_CountsOK(log)
  BY <1>2, <1>5 DEF P1_LogOK
<1>7. /\ \A L : P1_Num(L)' = P1_Num(L) - (IF from \in L THEN 1 ELSE 0)
                                       + (IF to \in L THEN 1 ELSE 0)
      /\ P1_Done' = P1_Done - (IF from = "done" THEN 1 ELSE 0) + (IF to = "done" THEN 1 ELSE 0)
      /\ P1_Claimed' = P1_Claimed /\ P1_Taken' = P1_Taken /\ P1_Left' = P1_Left
      /\ P1_Given' = P1_Given /\ P1_Awaited' = P1_Awaited
      /\ p1_pc'[P1_Consumer] = p1_pc[P1_Consumer] /\ p1_pc'[P1_Main] = p1_pc[P1_Main]
      /\ \A u \in P1_Producers \ {t} : \A L : P1_In(u, L)' = P1_In(u, L)
  BY <1>1, <1>2, P1_ProducerMoves
<1>8. /\ P1_Claims \in Nat /\ P1_Halfway \in Nat /\ P1_Unsignalled \in Nat
      /\ P1_AtTail \in Nat /\ P1_Done \in Nat /\ P1_Awaited \in Nat
      /\ P1_Claimed \in Nat /\ P1_Given \in Nat /\ P1_Left \in Nat
  BY P1_Ints
<1>9. /\ P1_Halfway' = P1_Halfway - 1 /\ P1_Unsignalled' = P1_Unsignalled + 1
      /\ P1_Claims' = P1_Claims /\ P1_AtTail' = P1_AtTail /\ P1_Done' = P1_Done
  BY <1>7, <1>8 DEF P1_Halfway, P1_Unsignalled, P1_Claims, P1_AtTail
<1>10. P1_Halfway = 1
  BY <1>2, P1_AloneAtTail DEF P1_Step
<1>11. P1_RingOK(log)'
  <2> DEFINE m == n - 1
  <2>1. RingHolds(p1_ring, P1_BUF_CAP, P1_Left, Len(log) - P1_Halfway, Len(log), log)
    BY <1>6 DEF P1_RingOK
  <2>2. P1_Left <= m
    BY <1>10, <2>1 DEF RingHolds
  <2> HIDE DEF n
  <2>3. m \in Nat /\ n = m + 1 /\ n - P1_Halfway = m /\ n - P1_Halfway' = m + 1
    BY <1>6, <1>8, <1>9, <1>10, <2>2
  <2> HIDE DEF m
  <2>4. RingHolds(p1_ring, P1_BUF_CAP, P1_Left, m, m + 1, log)
    BY <2>1, <2>3 DEF n
  <2>5. RingHolds(TailMoved(p1_ring, P1_BUF_CAP), P1_BUF_CAP, P1_Left, m + 1, m + 1, log)
    <3>1. P1_BUF_CAP \in Nat \ {0}
      BY P1_Names
    <3> QED BY <1>8, <2>3, <2>4, <3>1, RingTailMoved
  <2>6. RingHolds(p1_ring', P1_BUF_CAP, P1_Left', Len(log) - P1_Halfway', Len(log), log)
    BY <1>7, <2>3, <2>5 DEF n
  <2> QED BY <1>1, <1>6, <1>7, <2>6 DEF P1_RingOK
<1>12. P1_CountsOK(log)'
  <2>1. P1_In(t, {"moveTail", "freeTail", "signalItem"})' =
            P1_In(t, {"moveTail", "freeTail", "signalItem"})
    BY <1>2 DEF P1_In, P1_Step
  <2> QED BY <1>1, <1>6, <1>7, <2>1 DEF P1_CountsOK
<1>13. P1_SemValues(n)'
  <2>1. /\ p1_sems["spaceAvail"].value \in Int /\ p1_sems["itemAvail"].value \in Int
        /\ p1_sems["mutTail"].value \in Int /\ p1_sems["waitAll"].value \in Int
    BY P1_SemNames, P1_SemsAre
  <2>2. /\ p1_sems'["spaceAvail"].value = p1_sems["spaceAvail"].value - 0 + 0
        /\ p1_sems'["itemAvail"].value = p1_sems["itemAvail"].value + 0 - 0
        /\ p1_sems'["mutTail"].value = p1_sems["mutTail"].value - 0
        /\ p1_sems'["waitAll"].value = p1_sems["waitAll"].value + 0 - 0
    BY <1>1, <2>1
  <2> HIDE DEF n
  <2>3. /\ n + P1_Claims' = n + P1_Claims + 0 /\ P1_Given' = P1_Given + 0
        /\ n - P1_Halfway' - P1_Unsignalled' = n - P1_Halfway - P1_Unsignalled + 0
        /\ P1_Claimed' = P1_Claimed + 0 /\ P1_AtTail' = P1_AtTail + 0
        /\ P1_Done' = P1_Done + 0 /\ P1_Awaited' = P1_Awaited + 0
    <3>1. /\ P1_Claimed' = P1_Claimed /\ P1_Given' = P1_Given /\ P1_Awaited' = P1_Awaited
      BY <1>7
    <3> QED BY <1>6, <1>8, <1>9, <3>1
  <2>4. 0 \in Int
    OBVIOUS
  <2> QED BY <1>6, <2>2, <2>3, <2>4, P1_SemsMoved
<1>14. P1_LogOK(log)'
  BY <1>2, <1>7, <1>11, <1>12, <1>13 DEF P1_LogOK
<1>15. P1_TypeOK'
  BY <1>1, <1>2, <1>3, <1>11 DEF P1_Inv, P1_TypeOK, P1_Step, SemsOK, P1_RingOK, RingHolds
<1> QED BY <1>1, <1>3, <1>4, <1>5, <1>14, <1>15 DEF P1_Inv

-----------------------------------------------------------------------------
\* The steps of the consumer.

LEMMA P1_ConsumerWaits ==
    ASSUME P1_Inv, errorFlag = 0, NEW from, NEW s, NEW to,
           p1_wait(P1_Consumer, from, s, to), UNCHANGED <<p1_locals, p1_memory>>,
           \/ from = "waitItem" /\ s = "itemAvail" /\ to = "waitHead"
           \/ from = "waitHead" /\ s = "mutHead" /\ to = "take"
    PROVE  P1_Inv' /\ errorFlag' = 0
<1>1. /\ p1_goes(P1_Consumer, from, to) /\ p1_sems' = sem_wait(p1_sems, s, P1_Consumer)
      /\ UNCHANGED <<p1_i, p1_ch, p1_ring, p1_counts, errorFlag>>
      /\ to \in P1_Positions /\ P1_Consumer \in P1_Threads /\ P1_Consumer # P1_Main
      /\ from # "unborn" /\ s \in P1_Sems /\ from # "done" /\ to # "done"
  BY P1_Names DEF p1_wait, p1_locals, p1_memory, P1_Positions, P1_Sems
<1>2. P1_Step(P1_Consumer, from, to) /\ p1_pc[P1_Main] # "open"
  BY <1>1, P1_Goes
<1>3. /\ SemsOK(p1_sems', P1_Sems, P1_Threads, P1_At, p1_pc')
      /\ p1_sems'[s].value = p1_sems[s].value - 1
      /\ \A r \in P1_Sems \ {s} : p1_sems'[r] = p1_sems[r]
  <2>1. <<P1_Consumer, to, s>> \in P1_At
    BY DEF P1_At
  <2> QED BY <1>1, <1>2, <2>1, P1_Waits
<1>4. P1_TypeOK'
  BY <1>1, <1>2, <1>3 DEF P1_Inv, P1_TypeOK, P1_Step, SemsOK
<1>5. P1_MainOK' /\ P1_ConsumerOK' /\ \A id \in P1_Producers : P1_ProducerOK(id)'
  <2>1. p1_i[P1_Consumer] \in 0..P1_Total /\ p1_i[P1_Consumer] # P1_Total
    BY <1>1, <1>2 DEF P1_Inv, P1_ConsumerOK, P1_Step
  <2>2. to \in {"waitHead", "take"}
    OBVIOUS
  <2> QED BY <1>1, <1>2, <2>1, <2>2, P1_ConsumerPlaces
<1>6. PICK log \in Seq(P1_Producers) : P1_LogOK(log)
  BY DEF P1_Inv
<1>7. /\ \A L : P1_Num(L)' = P1_Num(L)
      /\ P1_Done' = P1_Done - (IF from = "done" THEN 1 ELSE 0) + (IF to = "done" THEN 1 ELSE 0)
      /\ P1_Awaited' = P1_Awaited /\ p1_pc'[P1_Main] = p1_pc[P1_Main]
      /\ \A u \in P1_Producers : \A L : P1_In(u, L)' = P1_In(u, L)
  BY <1>1, <1>2, P1_ConsumerMoves
<1>8. /\ P1_Claims \in Nat /\ P1_Halfway \in Nat /\ P1_Unsignalled \in Nat
      /\ P1_AtTail \in Nat /\ P1_Done \in Nat /\ P1_Awaited \in Nat
      /\ P1_Claimed \in Nat /\ P1_Given \in Nat /\ P1_Left \in Nat
      /\ p1_i[P1_Consumer] \in Nat
  BY P1_Ints
<1>9. /\ P1_Halfway' = P1_Halfway /\ P1_Unsignalled' = P1_Unsignalled
      /\ P1_Claims' = P1_Claims /\ P1_AtTail' = P1_AtTail /\ P1_Done' = P1_Done
  BY <1>1, <1>7, <1>8 DEF P1_Halfway, P1_Unsignalled, P1_Claims, P1_AtTail
<1>10. /\ P1_Claimed' = P1_Claimed + (IF s = "itemAvail" THEN 1 ELSE 0)
       /\ P1_Taken' = P1_Taken /\ P1_Left' = P1_Left /\ P1_Given' = P1_Given
  BY <1>1, <1>2, <1>8
     DEF P1_Step, P1_Claimed, P1_Taken, P1_Left, P1_Given, P1_In, P1_Holding
<1>11. P1_RingOK(log)'
  <2>1. p1_pc'[P1_Consumer] \notin P1_Holding
    BY <1>2 DEF P1_Step, P1_Holding
  <2> QED BY <1>1, <1>6, <1>9, <1>10, <2>1, P1_RingKept DEF P1_LogOK
<1>12. P1_CountsOK(log)'
  BY <1>1, <1>6, <1>7 DEF P1_LogOK, P1_CountsOK
<1>13. P1_SemValues(Len(log))'
  <2> DEFINE n == Len(log)
  <2> DEFINE d == IF s = "itemAvail" THEN 1 ELSE 0
  <2>1. n \in Nat /\ P1_SemValues(n)
    BY <1>2, <1>6 DEF P1_LogOK
  <2>2. /\ p1_sems["spaceAvail"].value \in Int /\ p1_sems["itemAvail"].value \in Int
        /\ p1_sems["mutTail"].value \in Int /\ p1_sems["waitAll"].value \in Int
    BY P1_SemNames, P1_SemsAre
  <2>3. /\ p1_sems'["spaceAvail"].value = p1_sems["spaceAvail"].value - 0 + 0
        /\ p1_sems'["itemAvail"].value = p1_sems["itemAvail"].value + 0 - d
        /\ p1_sems'["mutTail"].value = p1_sems["mutTail"].value - 0
        /\ p1_sems'["waitAll"].value = p1_sems["waitAll"].value + 0 - 0
    BY <1>3, <2>2, P1_SemNames
  <2>4. d \in Int /\ 0 \in Int
    OBVIOUS
  <2> HIDE DEF n
  <2>5. /\ n + P1_Claims' = n + P1_Claims + 0 /\ P1_Given' = P1_Given + 0
        /\ n - P1_Halfway' - P1_Unsignalled' = n - P1_Halfway - P1_Unsignalled + 0
        /\ P1_Claimed' = P1_Claimed + d /\ P1_AtTail' = P1_AtTail + 0
        /\ P1_Done' = P1_Done + 0 /\ P1_Awaited' = P1_Awaited + 0
    <3>1. P1_Awaited' = P1_Awaited
      BY <1>7
    <3> QED BY <1>8, <1>9, <1>10, <2>1, <3>1
  <2> HIDE DEF d
  <2>6. P1_SemValues(n)'
    BY <2>1, <2>3, <2>4, <2>5, P1_SemsMoved
  <2> QED BY <2>6 DEF n
<1>14. P1_LogOK(log)'
  BY <1>2, <1>7, <1>11, <1>12, <1>13 DEF P1_LogOK
<1> QED BY <1>1, <1>3, <1>4, <1>5, <1>6, <1>14 DEF P1_Inv

LEMMA P1_ConsumerSignals ==
    ASSUME P1_Inv, errorFlag = 0, NEW from, NEW s, NEW to,
           p1_signal(P1_Consumer, from, s, to), UNCHANGED <<p1_locals, p1_memory>>,
           \/ from = "freeHead" /\ s = "mutHead" /\ to = "signalSpace"
           \/ from = "signalSpace" /\ s = "spaceAvail" /\ to = "count"
           \/ from = "tell" /\ s = "waitAll" /\ to = "done"
    PROVE  P1_Inv' /\ errorFlag' = 0
<1>1. /\ p1_goes(P1_Consumer, from, to) /\ p1_sems' = sem_signal(p1_sems, s)
      /\ UNCHANGED <<p1_i, p1_ch, p1_ring, p1_counts, errorFlag>>
      /\ to \in P1_Positions /\ P1_Consumer \in P1_Threads /\ P1_Consumer # P1_Main
      /\ from # "unborn" /\ s \in P1_Sems /\ from # "done"
  BY P1_Names DEF p1_signal, p1_locals, p1_memory, P1_Positions, P1_Sems
<1>2. P1_Step(P1_Consumer, from, to) /\ p1_pc[P1_Main] # "open"
  BY <1>1, P1_Goes
<1>3. /\ SemsOK(p1_sems', P1_Sems, P1_Threads, P1_At, p1_pc')
      /\ p1_sems'[s].value = p1_sems[s].value + 1
      /\ \A r \in P1_Sems \ {s} : p1_sems'[r] = p1_sems[r]
  BY <1>1, <1>2, P1_Signals
<1>4. P1_TypeOK'
  BY <1>1, <1>2, <1>3 DEF P1_Inv, P1_TypeOK, P1_Step, SemsOK
<1>5. P1_MainOK' /\ P1_ConsumerOK' /\ \A id \in P1_Producers : P1_ProducerOK(id)'
  <2>1. /\ p1_i[P1_Consumer] \in 0..P1_Total
        /\ from = "tell" <=> p1_i[P1_Consumer] = P1_Total
    BY <1>1, <1>2 DEF P1_Inv, P1_ConsumerOK, P1_Step
  <2>2. to \in {"tell", "done"} \union P1_Holding /\ to # "unborn" /\ to # "tell"
    BY DEF P1_Holding
  <2>3. to \in {"tell", "done"} <=> p1_i'[P1_Consumer] = P1_Total
    BY <1>1, <2>1, <2>2
  <2> QED BY <1>1, <1>2, <2>1, <2>2, <2>3, P1_ConsumerPlaces
<1>6. PICK log \in Seq(P1_Producers) : P1_LogOK(log)
  BY DEF P1_Inv
<1>7. /\ \A L : P1_Num(L)' = P1_Num(L)
      /\ P1_Done' = P1_Done - (IF from = "done" THEN 1 ELSE 0) + (IF to = "done" THEN 1 ELSE 0)
      /\ P1_Awaited' = P1_Awaited /\ p1_pc'[P1_Main] = p1_pc[P1_Main]
      /\ \A u \in P1_Producers : \A L : P1_In(u, L)' = P1_In(u, L)
  BY <1>1, <1>2, P1_ConsumerMoves
<1>8. /\ P1_Claims \in Nat /\ P1_Halfway \in Nat /\ P1_Unsignalled \in Nat
      /\ P1_AtTail \in Nat /\ P1_Done \in Nat /\ P1_Awaited \in Nat
      /\ P1_Claimed \in Nat /\ P1_Given \in Nat /\ P1_Left \in Nat
      /\ p1_i[P1_Consumer] \in Nat
  BY P1_Ints
<1>9. /\ P1_Halfway' = P1_Halfway /\ P1_Unsignalled' = P1_Unsignalled
      /\ P1_Claims' = P1_Claims /\ P1_AtTail' = P1_AtTail
      /\ P1_Done' = P1_Done + (IF s = "waitAll" THEN 1 ELSE 0)
  BY <1>1, <1>7, <1>8 DEF P1_Halfway, P1_Unsignalled, P1_Claims, P1_AtTail
<1>10. /\ P1_Given' = P1_Given + (IF s = "spaceAvail" THEN 1 ELSE 0)
       /\ P1_Taken' = P1_Taken /\ P1_Left' = P1_Left /\ P1_Claimed' = P1_Claimed
  BY <1>1, <1>2, <1>8
     DEF P1_Step, P1_Claimed, P1_Taken, P1_Left, P1_Given, P1_In, P1_Holding
<1>11. P1_RingOK(log)'
  <2>1. p1_pc'[P1_Consumer] \in P1_Holding => p1_pc[P1_Consumer] \in P1_Holding
    BY <1>2 DEF P1_Step, P1_Holding
  <2> QED BY <1>1, <1>6, <1>9, <1>10, <2>1, P1_RingKept DEF P1_LogOK
<1>12. P1_CountsOK(log)'
  BY <1>1, <1>6, <1>7 DEF P1_LogOK, P1_CountsOK
<1>13. P1_SemValues(Len(log))'
  <2> DEFINE n == Len(log)
  <2> DEFINE b == IF s = "spaceAvail" THEN 1 ELSE 0
  <2> DEFINE f == IF s = "waitAll" THEN 1 ELSE 0
  <2>1. n \in Nat /\ P1_SemValues(n)
    BY <1>2, <1>6 DEF P1_LogOK
  <2>2. /\ p1_sems["spaceAvail"].value \in Int /\ p1_sems["itemAvail"].value \in Int
        /\ p1_sems["mutTail"].value \in Int /\ p1_sems["waitAll"].value \in Int
    BY P1_SemNames, P1_SemsAre
  <2>3. /\ p1_sems'["spaceAvail"].value = p1_sems["spaceAvail"].value - 0 + b
        /\ p1_sems'["itemAvail"].value = p1_sems["itemAvail"].value + 0 - 0
        /\ p1_sems'["mutTail"].value = p1_sems["mutTail"].value - 0
        /\ p1_sems'["waitAll"].value = p1_sems["waitAll"].value + f - 0
    BY <1>3, <2>2, P1_SemNames
  <2>4. b \in Int /\ f \in Int /\ 0 \in Int
    OBVIOUS
  <2> HIDE DEF n
  <2>5. /\ n + P1_Claims' = n + P1_Claims + 0 /\ P1_Given' = P1_Given + b
        /\ n - P1_Halfway' - P1_Unsignalled' = n - P1_Halfway - P1_Unsignalled + 0
        /\ P1_Claimed' = P1_Claimed + 0 /\ P1_AtTail' = P1_AtTail + 0
        /\ P1_Done' = P1_Done + f /\ P1_Awaited' = P1_Awaited + 0
    <3>1. P1_Awaited' = P1_Awaited
      BY <1>7
    <3> QED BY <1>8, <1>9, <1>10, <2>1, <3>1
  <2> HIDE DEF b, f
  <2>6. P1_SemValues(n)'
    BY <2>1, <2>3, <2>4, <2>5, P1_SemsMoved
  <2> QED BY <2>6 DEF n
<1>14. P1_LogOK(log)'
  BY <1>2, <1>7, <1>11, <1>12, <1>13 DEF P1_LogOK
<1> QED BY <1>1, <1>3, <1>4, <1>5, <1>6, <1>14 DEF P1_Inv

\* A consumer past its wait for an item has one, and its tail has been moved.
LEMMA P1_ItemIsThere ==
    ASSUME P1_Inv, p1_pc[P1_Consumer] \in {"take"} \union P1_Holding,
           p1_pc[P1_Main] # "open", NEW n \in Nat, P1_SemValues(n)
    PROVE  p1_i[P1_Consumer] + 1 <= n - P1_Halfway
<1>1. /\ SemsOK(p1_sems, P1_Sems, P1_Threads, P1_At, p1_pc)
      /\ "itemAvail" \in P1_Sems
  BY P1_SemsAre, P1_SemNames
<1>2. \A t \in P1_Threads : <<t, p1_pc[t], "itemAvail">> \notin P1_At
  BY DEF P1_At, P1_Holding
<1>3. \A t \in P1_Threads : t \notin Range(p1_sems["itemAvail"].blocked)
  BY <1>1, <1>2 DEF SemsOK
<1>4. p1_sems["itemAvail"].value \in Int /\ p1_sems["itemAvail"].value >= 0
  BY <1>1, <1>3, NobodyHeld
<1>5. p1_sems["itemAvail"].value = n - P1_Halfway - P1_Unsignalled - P1_Claimed
  BY DEF P1_SemValues
<1>6. /\ P1_Halfway \in Nat /\ P1_Unsignalled \in Nat /\ p1_i[P1_Consumer] \in Nat
  BY P1_Ints
<1>7. P1_Claimed = p1_i[P1_Consumer] + 1
  BY DEF P1_Claimed, P1_In, P1_Holding
<1> QED BY <1>4, <1>5, <1>6, <1>7

LEMMA P1_ConsumerTakes ==
    ASSUME P1_Inv, errorFlag = 0, p1_goes(P1_Consumer, "take", "moveHead"),
           p1_ch' = Oldest(p1_ring), UNCHANGED <<p1_i, p1_sems, p1_memory>>
    PROVE  P1_Inv' /\ errorFlag' = 0
<1> DEFINE from == "take"
<1> DEFINE to == "moveHead"
<1>1. /\ p1_goes(P1_Consumer, from, to)
      /\ UNCHANGED <<p1_i, p1_ring, p1_counts, p1_sems, errorFlag>>
      /\ to \in P1_Positions /\ P1_Consumer \in P1_Threads /\ P1_Consumer # P1_Main
      /\ from # "unborn" /\ from # "done" /\ to # "done" /\ to # "unborn"
  BY P1_Names DEF p1_locals, p1_memory, P1_Positions
<1>2. P1_Step(P1_Consumer, from, to) /\ p1_pc[P1_Main] # "open"
  BY <1>1, P1_Goes
<1>3. SemsOK(p1_sems', P1_Sems, P1_Threads, P1_At, p1_pc')
  BY <1>1, <1>2, P1_SemsKept
<1>5. P1_MainOK' /\ P1_ConsumerOK' /\ \A id \in P1_Producers : P1_ProducerOK(id)'
  <2>1. p1_i[P1_Consumer] \in 0..P1_Total /\ p1_i[P1_Consumer] # P1_Total
    BY <1>1, <1>2 DEF P1_Inv, P1_ConsumerOK, P1_Step
  <2>2. to \in P1_Holding
    BY DEF P1_Holding
  <2>3. to \notin {"tell", "done"}
    OBVIOUS
  <2> QED BY <1>1, <1>2, <2>1, <2>2, <2>3, P1_ConsumerPlaces
<1>6. PICK log \in Seq(P1_Producers) : P1_LogOK(log)
  BY DEF P1_Inv
<1> DEFINE n == Len(log)
<1>7. n \in Nat /\ P1_SemValues(n) /\ P1_RingOK(log) /\ P1_CountsOK(log)
  BY <1>2, <1>6 DEF P1_LogOK
<1>8. /\ \A L : P1_Num(L)' = P1_Num(L)
      /\ P1_Done' = P1_Done - (IF from = "done" THEN 1 ELSE 0) + (IF to = "done" THEN 1 ELSE 0)
      /\ P1_Awaited' = P1_Awaited /\ p1_pc'[P1_Main] = p1_pc[P1_Main]
      /\ \A u \in P1_Producers : \A L : P1_In(u, L)' = P1_In(u, L)
  BY <1>1, <1>2, P1_ConsumerMoves
<1>9. /\ P1_Claims \in Nat /\ P1_Halfway \in Nat /\ P1_Unsignalled \in Nat
      /\ P1_AtTail \in Nat /\ P1_Done \in Nat /\ P1_Awaited \in Nat
      /\ P1_Claimed \in Nat /\ P1_Given \in Nat /\ P1_Left \in Nat
      /\ p1_i[P1_Consumer] \in Nat
  BY P1_Ints
<1>10. /\ P1_Halfway' = P1_Halfway /\ P1_Unsignalled' = P1_Unsignalled
       /\ P1_Claims' = P1_Claims /\ P1_AtTail' = P1_AtTail /\ P1_Done' = P1_Done
  BY <1>1, <1>8, <1>9 DEF P1_Halfway, P1_Unsignalled, P1_Claims, P1_AtTail
<1>11. /\ P1_Claimed' = P1_Claimed /\ P1_Left' = P1_Left /\ P1_Given' = P1_Given
       /\ P1_Taken' = p1_i[P1_Consumer] + 1 /\ P1_Left = p1_i[P1_Consumer]
  BY <1>1, <1>2, <1>9
     DEF P1_Step, P1_Claimed, P1_Taken, P1_Left, P1_Given, P1_In, P1_Holding
<1>12. p1_i[P1_Consumer] + 1 <= n - P1_Halfway
  BY <1>2, <1>7, P1_ItemIsThere DEF P1_Step
<1>17. p1_ch' = log[p1_i[P1_Consumer] + 1] /\ p1_ch' \in Int
  <2>1. RingHolds(p1_ring, P1_BUF_CAP, P1_Left, n - P1_Halfway, n, log)
    BY <1>7 DEF P1_RingOK
  <2>2. P1_Left < n /\ n - P1_Halfway \in Nat
    BY <1>7, <1>9, <1>11, <1>12
  <2>3. P1_BUF_CAP \in Nat \ {0}
    BY P1_Names
  <2> DEFINE m == n - P1_Halfway
  <2> HIDE DEF m
  <2>4. RingHolds(p1_ring, P1_BUF_CAP, P1_Left, m, n, log) /\ m \in Nat
    BY <2>1, <2>2 DEF m
  <2>5. Oldest(p1_ring) = log[P1_Left + 1]
    BY <1>7, <1>9, <2>2, <2>3, <2>4, RingOldest
  <2>6. log[P1_Left + 1] \in P1_Producers
    BY <1>6, <1>9, <2>2
  <2> QED BY <1>11, <2>5, <2>6 DEF P1_Producers
<1>4. P1_TypeOK'
  BY <1>1, <1>2, <1>3, <1>17 DEF P1_Inv, P1_TypeOK, P1_Step, SemsOK
<1>13. P1_RingOK(log)'
  BY <1>1, <1>7, <1>9, <1>10, <1>11, <1>12, <1>17 DEF P1_RingOK
<1>14. P1_CountsOK(log)'
  BY <1>1, <1>7, <1>8 DEF P1_CountsOK
<1>15. P1_SemValues(n)'
  <2>1. /\ p1_sems["spaceAvail"].value \in Int /\ p1_sems["itemAvail"].value \in Int
        /\ p1_sems["mutTail"].value \in Int /\ p1_sems["waitAll"].value \in Int
    BY P1_SemNames, P1_SemsAre
  <2>2. /\ p1_sems'["spaceAvail"].value = p1_sems["spaceAvail"].value - 0 + 0
        /\ p1_sems'["itemAvail"].value = p1_sems["itemAvail"].value + 0 - 0
        /\ p1_sems'["mutTail"].value = p1_sems["mutTail"].value - 0
        /\ p1_sems'["waitAll"].value = p1_sems["waitAll"].value + 0 - 0
    BY <1>1, <2>1
  <2> HIDE DEF n
  <2>3. /\ n + P1_Claims' = n + P1_Claims + 0 /\ P1_Given' = P1_Given + 0
        /\ n - P1_Halfway' - P1_Unsignalled' = n - P1_Halfway - P1_Unsignalled + 0
        /\ P1_Claimed' = P1_Claimed + 0 /\ P1_AtTail' = P1_AtTail + 0
        /\ P1_Done' = P1_Done + 0 /\ P1_Awaited' = P1_Awaited + 0
    <3>1. P1_Awaited' = P1_Awaited
      BY <1>8
    <3> QED BY <1>7, <1>9, <1>10, <1>11, <3>1
  <2>4. 0 \in Int
    OBVIOUS
  <2> QED BY <1>7, <2>2, <2>3, <2>4, P1_SemsMoved
<1>16. P1_LogOK(log)'
  BY <1>2, <1>8, <1>13, <1>14, <1>15 DEF P1_LogOK
<1> QED BY <1>1, <1>3, <1>4, <1>5, <1>6, <1>16 DEF P1_Inv

LEMMA P1_ConsumerMovesHead ==
    ASSUME P1_Inv, errorFlag = 0, p1_goes(P1_Consumer, "moveHead", "freeHead"),
           p1_ring' = HeadMoved(p1_ring, P1_BUF_CAP),
           UNCHANGED <<p1_locals, p1_sems, p1_counts, errorFlag>>
    PROVE  P1_Inv' /\ errorFlag' = 0
<1> DEFINE from == "moveHead"
<1> DEFINE to == "freeHead"
<1>1. /\ p1_goes(P1_Consumer, from, to)
      /\ UNCHANGED <<p1_i, p1_ch, p1_counts, p1_sems, errorFlag>>
      /\ to \in P1_Positions /\ P1_Consumer \in P1_Threads /\ P1_Consumer # P1_Main
      /\ from # "unborn" /\ from # "done" /\ to # "done" /\ to # "unborn"
  BY P1_Names DEF p1_locals, p1_memory, P1_Positions
<1>2. P1_Step(P1_Consumer, from, to) /\ p1_pc[P1_Main] # "open"
  BY <1>1, P1_Goes
<1>3. SemsOK(p1_sems', P1_Sems, P1_Threads, P1_At, p1_pc')
  BY <1>1, <1>2, P1_SemsKept
<1>5. P1_MainOK' /\ P1_ConsumerOK' /\ \A id \in P1_Producers : P1_ProducerOK(id)'
  <2>1. p1_i[P1_Consumer] \in 0..P1_Total /\ p1_i[P1_Consumer] # P1_Total
    BY <1>1, <1>2 DEF P1_Inv, P1_ConsumerOK, P1_Step
  <2>2. to \in P1_Holding
    BY DEF P1_Holding
  <2>3. to \notin {"tell", "done"}
    OBVIOUS
  <2> QED BY <1>1, <1>2, <2>1, <2>2, <2>3, P1_ConsumerPlaces
<1>6. PICK log \in Seq(P1_Producers) : P1_LogOK(log)
  BY DEF P1_Inv
<1> DEFINE n == Len(log)
<1>7. n \in Nat /\ P1_SemValues(n) /\ P1_RingOK(log) /\ P1_CountsOK(log)
  BY <1>2, <1>6 DEF P1_LogOK
<1>8. /\ \A L : P1_Num(L)' = P1_Num(L)
      /\ P1_Done' = P1_Done - (IF from = "done" THEN 1 ELSE 0) + (IF to = "done" THEN 1 ELSE 0)
      /\ P1_Awaited' = P1_Awaited /\ p1_pc'[P1_Main] = p1_pc[P1_Main]
      /\ \A u \in P1_Producers : \A L : P1_In(u, L)' = P1_In(u, L)
  BY <1>1, <1>2, P1_ConsumerMoves
<1>9. /\ P1_Claims \in Nat /\ P1_Halfway \in Nat /\ P1_Unsignalled \in Nat
      /\ P1_AtTail \in Nat /\ P1_Done \in Nat /\ P1_Awaited \in Nat
      /\ P1_Claimed \in Nat /\ P1_Given \in Nat /\ P1_Left \in Nat
      /\ p1_i[P1_Consumer] \in Nat
  BY P1_Ints
<1>10. /\ P1_Halfway' = P1_Halfway /\ P1_Unsignalled' = P1_Unsignalled
       /\ P1_Claims' = P1_Claims /\ P1_AtTail' = P1_AtTail /\ P1_Done' = P1_Done
  BY <1>1, <1>8, <1>9 DEF P1_Halfway, P1_Unsignalled, P1_Claims, P1_AtTail
<1>11. /\ P1_Claimed' = P1_Claimed /\ P1_Taken' = P1_Taken /\ P1_Given' = P1_Given
       /\ P1_Left' = P1_Left + 1 /\ P1_Left = p1_i[P1_Consumer]
       /\ p1_pc[P1_Consumer] \in P1_Holding
  BY <1>1, <1>2, <1>9
     DEF P1_Step, P1_Claimed, P1_Taken, P1_Left, P1_Given, P1_In, P1_Holding
<1>12. p1_i[P1_Consumer] + 1 <= n - P1_Halfway
  BY <1>2, <1>7, <1>11, P1_ItemIsThere
<1>13. P1_RingOK(log)'
  <2>1. RingHolds(p1_ring, P1_BUF_CAP, P1_Left, n - P1_Halfway, n, log)
    BY <1>7 DEF P1_RingOK
  <2> DEFINE m == n - P1_Halfway
  <2>2. P1_Left < m /\ m \in Nat
    BY <1>7, <1>9, <1>11, <1>12
  <2>3. P1_BUF_CAP \in Nat \ {0}
    BY P1_Names
  <2> HIDE DEF m
  <2>4. RingHolds(p1_ring, P1_BUF_CAP, P1_Left, m, n, log)
    BY <2>1 DEF m
  <2>5. RingHolds(HeadMoved(p1_ring, P1_BUF_CAP), P1_BUF_CAP, P1_Left + 1, m, n, log)
    BY <1>7, <1>9, <2>2, <2>3, <2>4, RingHeadMoved
  <2>6. RingHolds(p1_ring', P1_BUF_CAP, P1_Left', n - P1_Halfway', n, log)
    BY <1>10, <1>11, <2>5 DEF m
  <2> QED BY <1>1, <1>7, <1>11, <2>6 DEF P1_RingOK
<1>4. P1_TypeOK'
  BY <1>1, <1>2, <1>3, <1>13 DEF P1_Inv, P1_TypeOK, P1_Step, SemsOK, P1_RingOK, RingHolds
<1>14. P1_CountsOK(log)'
  BY <1>1, <1>7, <1>8 DEF P1_CountsOK
<1>15. P1_SemValues(n)'
  <2>1. /\ p1_sems["spaceAvail"].value \in Int /\ p1_sems["itemAvail"].value \in Int
        /\ p1_sems["mutTail"].value \in Int /\ p1_sems["waitAll"].value \in Int
    BY P1_SemNames, P1_SemsAre
  <2>2. /\ p1_sems'["spaceAvail"].value = p1_sems["spaceAvail"].value - 0 + 0
        /\ p1_sems'["itemAvail"].value = p1_sems["itemAvail"].value + 0 - 0
        /\ p1_sems'["mutTail"].value = p1_sems["mutTail"].value - 0
        /\ p1_sems'["waitAll"].value = p1_sems["waitAll"].value + 0 - 0
    BY <1>1, <2>1
  <2> HIDE DEF n
  <2>3. /\ n + P1_Claims' = n + P1_Claims + 0 /\ P1_Given' = P1_Given + 0
        /\ n - P1_Halfway' - P1_Unsignalled' = n - P1_Halfway - P1_Unsignalled + 0
        /\ P1_Claimed' = P1_Claimed + 0 /\ P1_AtTail' = P1_AtTail + 0
        /\ P1_Done' = P1_Done + 0 /\ P1_Awaited' = P1_Awaited + 0
    <3>1. P1_Awaited' = P1_Awaited
      BY <1>8
    <3> QED BY <1>7, <1>9, <1>10, <1>11, <3>1
  <2>4. 0 \in Int
    OBVIOUS
  <2> QED BY <1>7, <2>2, <2>3, <2>4, P1_SemsMoved
<1>16. P1_LogOK(log)'
  BY <1>2, <1>8, <1>13, <1>14, <1>15 DEF P1_LogOK
<1> QED BY <1>1, <1>3, <1>4, <1>5, <1>6, <1>16 DEF P1_Inv

LEMMA P1_ConsumerCounts ==
    ASSUME P1_Inv, errorFlag = 0, NEW to,
           to = p1_round(P1_Consumer, P1_Total, "waitItem", "tell"),
           p1_goes(P1_Consumer, "count", to),
           p1_counts' = IF p1_ch \in P1_Producers
                        THEN [p1_counts EXCEPT ![p1_ch] = @ + 1] ELSE p1_counts,
           p1_counted(P1_Consumer), UNCHANGED <<p1_ch, p1_sems, p1_ring, errorFlag>>
    PROVE  P1_Inv' /\ errorFlag' = 0
<1> DEFINE from == "count"
<1>1. /\ p1_goes(P1_Consumer, from, to)
      /\ UNCHANGED <<p1_ch, p1_sems, p1_ring, errorFlag>>
      /\ to \in P1_Positions /\ P1_Consumer \in P1_Threads /\ P1_Consumer # P1_Main
      /\ from # "unborn" /\ from # "done" /\ to # "done" /\ to # "unborn"
  BY P1_Names DEF p1_locals, p1_memory, P1_Positions, p1_round
<1>2. P1_Step(P1_Consumer, from, to) /\ p1_pc[P1_Main] # "open"
  BY <1>1, P1_Goes
<1>3. SemsOK(p1_sems', P1_Sems, P1_Threads, P1_At, p1_pc')
  BY <1>1, <1>2, P1_SemsKept
<1>17. /\ p1_i' \in [P1_Threads -> Nat]
       /\ p1_i'[P1_Consumer] = p1_i[P1_Consumer] + 1
       /\ \A u \in P1_Threads \ {P1_Consumer} : p1_i'[u] = p1_i[u]
  <2>1. p1_i \in [P1_Threads -> Nat]
    BY DEF P1_Inv, P1_TypeOK
  <2> QED BY <1>1, <2>1 DEF p1_counted
<1>5. P1_MainOK' /\ P1_ConsumerOK' /\ \A id \in P1_Producers : P1_ProducerOK(id)'
  <2>1. p1_i[P1_Consumer] \in 0..P1_Total /\ p1_i[P1_Consumer] # P1_Total /\ P1_Total \in Nat
    BY <1>1, <1>2, P1_Names DEF P1_Inv, P1_ConsumerOK, P1_Step
  <2>2. to \in {"waitItem", "tell"}
    BY DEF p1_round
  <2>3. p1_i'[P1_Consumer] \in 0..P1_Total
    BY <1>17, <2>1
  <2>4. to \in {"tell", "done"} <=> p1_i'[P1_Consumer] = P1_Total
    BY <1>17, <2>1 DEF p1_round
  <2> QED BY <1>2, <1>17, <2>2, <2>3, <2>4, P1_ConsumerPlaces
<1>6. PICK log \in Seq(P1_Producers) : P1_LogOK(log)
  BY DEF P1_Inv
<1> DEFINE n == Len(log)
<1>7. n \in Nat /\ P1_SemValues(n) /\ P1_RingOK(log) /\ P1_CountsOK(log)
  BY <1>2, <1>6 DEF P1_LogOK
<1>8. /\ \A L : P1_Num(L)' = P1_Num(L)
      /\ P1_Done' = P1_Done - (IF from = "done" THEN 1 ELSE 0) + (IF to = "done" THEN 1 ELSE 0)
      /\ P1_Awaited' = P1_Awaited /\ p1_pc'[P1_Main] = p1_pc[P1_Main]
      /\ \A u \in P1_Producers : \A L : P1_In(u, L)' = P1_In(u, L)
  <2>1. p1_i'[P1_Main] = p1_i[P1_Main]
    BY <1>17, P1_Names
  <2> QED BY <1>2, <2>1, P1_ConsumerMoves
<1>9. /\ P1_Claims \in Nat /\ P1_Halfway \in Nat /\ P1_Unsignalled \in Nat
      /\ P1_AtTail \in Nat /\ P1_Done \in Nat /\ P1_Awaited \in Nat
      /\ P1_Claimed \in Nat /\ P1_Given \in Nat /\ P1_Left \in Nat
      /\ p1_i[P1_Consumer] \in Nat
  BY P1_Ints
<1>10. /\ P1_Halfway' = P1_Halfway /\ P1_Unsignalled' = P1_Unsignalled
       /\ P1_Claims' = P1_Claims /\ P1_AtTail' = P1_AtTail /\ P1_Done' = P1_Done
  BY <1>1, <1>8, <1>9 DEF P1_Halfway, P1_Unsignalled, P1_Claims, P1_AtTail
<1>11. /\ P1_Claimed' = P1_Claimed /\ P1_Taken' = P1_Taken /\ P1_Given' = P1_Given
       /\ P1_Left' = P1_Left /\ P1_Taken = p1_i[P1_Consumer] + 1
       /\ p1_pc[P1_Consumer] \in P1_Holding
  <2>1. to \in {"waitItem", "tell"}
    BY DEF p1_round
  <2> QED BY <1>2, <1>9, <1>17, <2>1
          DEF P1_Step, P1_Claimed, P1_Taken, P1_Left, P1_Given, P1_In, P1_Holding
<1>12. /\ p1_ch = log[p1_i[P1_Consumer] + 1] /\ p1_ch \in P1_Producers
       /\ p1_i[P1_Consumer] + 1 \in 1..n
  <2>1. p1_ch = log[p1_i[P1_Consumer] + 1] /\ p1_i[P1_Consumer] + 1 \in 1..n
    BY <1>7, <1>9, <1>11 DEF P1_RingOK
  <2> QED BY <1>6, <2>1
<1>13. P1_RingOK(log)'
  <2>1. p1_pc'[P1_Consumer] \notin P1_Holding
    BY <1>2 DEF P1_Step, P1_Holding, p1_round
  <2> QED BY <1>1, <1>7, <1>10, <1>11, <2>1 DEF P1_RingOK
<1>18. /\ p1_counts' \in [P1_Producers -> Nat]
       /\ \A id \in P1_Producers :
              p1_counts'[id] = p1_counts[id] + (IF p1_ch = id THEN 1 ELSE 0)
  <2>1. p1_counts \in [P1_Producers -> Nat]
    BY DEF P1_Inv, P1_TypeOK
  <2> QED BY <1>12, <2>1
<1>4. P1_TypeOK'
  BY <1>1, <1>2, <1>3, <1>17, <1>18 DEF P1_Inv, P1_TypeOK, P1_Step, SemsOK
<1>14. P1_CountsOK(log)'
  <2>1. ASSUME NEW id \in P1_Producers
        PROVE  p1_counts'[id] = Occurrences(log, p1_i'[P1_Consumer], id)
    <3>1. Occurrences(log, p1_i[P1_Consumer] + 1, id) =
              Occurrences(log, p1_i[P1_Consumer], id) + (IF p1_ch = id THEN 1 ELSE 0)
      BY <1>9, <1>12, OccurrencesNext
    <3>2. p1_counts[id] = Occurrences(log, p1_i[P1_Consumer], id)
      BY <1>7 DEF P1_CountsOK
    <3> QED BY <1>17, <1>18, <3>1, <3>2
  <2>2. \A id \in P1_Producers : p1_i'[id] = p1_i[id]
    BY <1>17, P1_Names
  <2> QED BY <1>7, <1>8, <2>1, <2>2 DEF P1_CountsOK
<1>15. P1_SemValues(n)'
  <2>1. /\ p1_sems["spaceAvail"].value \in Int /\ p1_sems["itemAvail"].value \in Int
        /\ p1_sems["mutTail"].value \in Int /\ p1_sems["waitAll"].value \in Int
    BY P1_SemNames, P1_SemsAre
  <2>2. /\ p1_sems'["spaceAvail"].value = p1_sems["spaceAvail"].value - 0 + 0
        /\ p1_sems'["itemAvail"].value = p1_sems["itemAvail"].value + 0 - 0
        /\ p1_sems'["mutTail"].value = p1_sems["mutTail"].value - 0
        /\ p1_sems'["waitAll"].value = p1_sems["waitAll"].value + 0 - 0
    BY <1>1, <2>1
  <2> HIDE DEF n
  <2>3. /\ n + P1_Claims' = n + P1_Claims + 0 /\ P1_Given' = P1_Given + 0
        /\ n - P1_Halfway' - P1_Unsignalled' = n - P1_Halfway - P1_Unsignalled + 0
        /\ P1_Claimed' = P1_Claimed + 0 /\ P1_AtTail' = P1_AtTail + 0
        /\ P1_Done' = P1_Done + 0 /\ P1_Awaited' = P1_Awaited + 0
    <3>1. P1_Awaited' = P1_Awaited
      BY <1>8
    <3> QED BY SMTT(30), <1>7, <1>9, <1>10, <1>11, <3>1
  <2>4. 0 \in Int
    OBVIOUS
  <2> QED BY <1>7, <2>2, <2>3, <2>4, P1_SemsMoved
<1>16. P1_LogOK(log)'
  BY <1>2, <1>8, <1>13, <1>14, <1>15 DEF P1_LogOK
<1> QED BY <1>1, <1>3, <1>4, <1>5, <1>6, <1>16 DEF P1_Inv

-----------------------------------------------------------------------------
\* The steps of main.

\* Nobody is held who has not just called a wait().
LEMMA P1_Free ==
    ASSUME P1_Inv, NEW t \in P1_Threads,
           p1_pc[t] \notin {"waitTail", "store", "waitHead", "take", "await", "check"}
    PROVE  ~IsBlocked(p1_sems, t)
BY DEF P1_Inv, SemsOK, IsBlocked, P1_At

\* When main is past its last wait(), every thread is done.
LEMMA P1_AllDone ==
    ASSUME P1_Inv, p1_pc[P1_Main] \in {"check", "close"}, ~IsBlocked(p1_sems, P1_Main)
    PROVE  \A t \in P1_Threads \ {P1_Main} : p1_pc[t] = "done"
<1>1. /\ SemsOK(p1_sems, P1_Sems, P1_Threads, P1_At, p1_pc)
      /\ "waitAll" \in P1_Sems
  BY P1_SemsAre, P1_SemNames
<1>2. P1_Main \notin Range(p1_sems["waitAll"].blocked)
  BY <1>1 DEF IsBlocked, SemsOK
<1>3. \A t \in P1_Threads : t \notin Range(p1_sems["waitAll"].blocked)
  <2>1. \A t \in P1_Threads \ {P1_Main} : <<t, p1_pc[t], "waitAll">> \notin P1_At
    BY P1_Names DEF P1_At
  <2> QED BY <1>1, <1>2, <2>1 DEF SemsOK
<1>4. p1_sems["waitAll"].value \in Int /\ p1_sems["waitAll"].value >= 0
  BY <1>1, <1>3, NobodyHeld
<1>5. p1_sems["waitAll"].value = P1_Done - (P1_NUM_PRODUCERS + 1)
  BY DEF P1_Inv, P1_LogOK, P1_SemValues, P1_Awaited
<1> DEFINE T == P1_Threads \ {P1_Main}
<1> DEFINE L == {"done"}
<1>6. IsFiniteSet(T) /\ Cardinality(T) = P1_NUM_PRODUCERS + 1
  <2>1. P1_Main \in P1_Threads /\ IsFiniteSet(P1_Threads)
        /\ Cardinality(P1_Threads) = P1_NUM_PRODUCERS + 2 /\ P1_NUM_PRODUCERS \in Nat
    BY P1_Names
  <2>2. IsFiniteSet(T) /\ Cardinality(T) = Cardinality(P1_Threads) - 1
    BY <2>1, FS_RemoveElement
  <2> QED BY <2>1, <2>2
<1>7. P1_Done = CountIn(p1_pc, T, L)
  <2>1. {t \in P1_Threads : p1_pc[t] \in L} = {t \in T : p1_pc[t] \in L}
    OBVIOUS
  <2> QED BY <2>1 DEF P1_Done, CountIn
<1>8. /\ CountIn(p1_pc, T, L) \in 0..Cardinality(T)
      /\ CountIn(p1_pc, T, L) = Cardinality(T) <=> \A t \in T : p1_pc[t] \in L
  <2> HIDE DEF T, L
  <2> QED BY <1>6, CountBounds
<1>9. P1_NUM_PRODUCERS \in Nat
  BY P1_Names
<1> HIDE DEF T
<1>10. \A t \in T : p1_pc[t] \in L
  BY <1>4, <1>5, <1>6, <1>7, <1>8, <1>9
<1> QED BY <1>10 DEF T

\* The consumer has met every producer as often as it stored its number.
LEMMA P1_AllCounted ==
    ASSUME P1_Inv, \A t \in P1_Threads \ {P1_Main} : p1_pc[t] = "done"
    PROVE  \A id \in P1_Producers : p1_counts[id] = P1_ITEMS_PER_PRODUCER
<1>1. PICK log \in Seq(P1_Producers) : P1_LogOK(log)
  BY DEF P1_Inv
<1>2. p1_pc[P1_Consumer] = "done" /\ \A id \in P1_Producers : p1_pc[id] = "done"
  BY P1_Names
<1>3. /\ p1_i[P1_Consumer] = P1_Total
      /\ \A id \in P1_Producers : p1_i[id] = P1_ITEMS_PER_PRODUCER
  BY <1>2 DEF P1_Inv, P1_ConsumerOK, P1_ProducerOK
<1>4. /\ P1_NUM_PRODUCERS \in Nat /\ P1_ITEMS_PER_PRODUCER \in Nat /\ P1_Total \in Nat
      /\ Len(log) \in Nat
  BY <1>1, P1_Names
<1>5. \A id \in P1_Producers : Occurrences(log, Len(log), id) = P1_ITEMS_PER_PRODUCER
  <2> TAKE id \in P1_Producers
  <2>1. P1_In(id, {"moveTail", "freeTail", "signalItem"}) = 0
    BY <1>2 DEF P1_In
  <2>2. Occurrences(log, Len(log), id) = p1_i[id] + 0
    BY <1>1, <2>1 DEF P1_LogOK, P1_CountsOK
  <2> QED BY <1>3, <1>4, <2>2
<1>6. Len(log) <= P1_Total
  <2>1. log \in Seq(1..P1_NUM_PRODUCERS)
    BY <1>1 DEF P1_Producers
  <2>2. \A id \in 1..P1_NUM_PRODUCERS : Occurrences(log, Len(log), id) <= P1_ITEMS_PER_PRODUCER
    BY <1>4, <1>5 DEF P1_Producers
  <2> QED BY <1>4, <2>1, <2>2, LogIsNoLonger DEF P1_Total
<1>7. P1_Total <= Len(log)
  <2>1. P1_Taken <= Len(log) /\ P1_Taken = p1_i[P1_Consumer] + 0
    BY <1>1, <1>2 DEF P1_LogOK, P1_RingOK, P1_Taken, P1_In, P1_Holding
  <2> QED BY <1>3, <1>4, <2>1
<1>8. p1_i[P1_Consumer] = Len(log)
  BY <1>3, <1>4, <1>6, <1>7
<1> QED BY <1>1, <1>5, <1>8 DEF P1_LogOK, P1_CountsOK

\* A step of main that leaves the semaphores but waitAll, the ring and the counts
\* alone, and creates nobody.
LEMMA P1_MainStep ==
    ASSUME P1_Inv, NEW from, NEW to, P1_Step(P1_Main, from, to),
           from \in {"await", "check", "close"}, to \in {"await", "check", "close", "returned"},
           p1_i' \in [P1_Threads -> Nat], p1_i'[P1_Main] \in 0..P1_NUM_PRODUCERS,
           \A u \in P1_Threads \ {P1_Main} : p1_i'[u] = p1_i[u],
           to = "check" => p1_i'[P1_Main] < P1_NUM_PRODUCERS,
           to = "returned" => \A t \in P1_Threads \ {P1_Main} : p1_pc[t] = "done",
           NEW g \in Int, P1_Awaited' = P1_Awaited + g,
           SemsOK(p1_sems', P1_Sems, P1_Threads, P1_At, p1_pc'),
           \A s \in P1_Sems \ {"waitAll"} : p1_sems'[s] = p1_sems[s],
           p1_sems'["waitAll"].value = p1_sems["waitAll"].value - g,
           UNCHANGED <<p1_ch, p1_ring, p1_counts>>
    PROVE  P1_Inv'
<1>1. /\ \A L : P1_Num(L)' = P1_Num(L)
      /\ P1_Done' = P1_Done
      /\ P1_Claimed' = P1_Claimed /\ P1_Taken' = P1_Taken /\ P1_Left' = P1_Left
      /\ P1_Given' = P1_Given
      /\ \A u \in P1_Threads \ {P1_Main} : p1_pc'[u] = p1_pc[u]
      /\ \A u \in P1_Producers : p1_pc'[u] = p1_pc[u]
      /\ p1_pc'[P1_Consumer] = p1_pc[P1_Consumer]
      /\ \A u \in P1_Producers : \A L : P1_In(u, L)' = P1_In(u, L)
  <2>1. from # "done" /\ to # "done"
    OBVIOUS
  <2>2. p1_i'[P1_Consumer] = p1_i[P1_Consumer]
    BY P1_Names
  <2> QED BY <2>1, <2>2, P1_MainMoves
<1>2. /\ p1_i'[P1_Consumer] = p1_i[P1_Consumer]
      /\ \A id \in P1_Producers : p1_i'[id] = p1_i[id]
      /\ p1_pc'[P1_Main] = to /\ p1_pc[P1_Main] = from
      /\ p1_pc' \in [P1_Threads -> P1_Positions]
  BY P1_Names DEF P1_Step
<1>3. P1_MainOK'
  BY <1>1, <1>2 DEF P1_MainOK
<1>4. P1_ConsumerOK'
  BY <1>1, <1>2 DEF P1_Inv, P1_ConsumerOK
<1>5. ASSUME NEW id \in P1_Producers PROVE P1_ProducerOK(id)'
  BY <1>1, <1>2 DEF P1_Inv, P1_ProducerOK
<1>6. P1_TypeOK'
  BY <1>2 DEF P1_Inv, P1_TypeOK, SemsOK
<1>7. PICK log \in Seq(P1_Producers) : P1_LogOK(log)
  BY DEF P1_Inv
<1> DEFINE n == Len(log)
<1>8. n \in Nat /\ P1_SemValues(n) /\ P1_RingOK(log) /\ P1_CountsOK(log)
  BY <1>2, <1>7 DEF P1_LogOK
<1>9. /\ P1_Halfway' = P1_Halfway /\ P1_Unsignalled' = P1_Unsignalled
      /\ P1_Claims' = P1_Claims /\ P1_AtTail' = P1_AtTail
  BY <1>1 DEF P1_Halfway, P1_Unsignalled, P1_Claims, P1_AtTail
<1>10. P1_RingOK(log)'
  BY <1>1, <1>2, <1>8, <1>9, P1_RingKept
<1>11. P1_CountsOK(log)'
  BY <1>1, <1>2, <1>8 DEF P1_CountsOK
<1>12. P1_SemValues(n)'
  <2>1. /\ P1_Claims \in Nat /\ P1_Halfway \in Nat /\ P1_Unsignalled \in Nat
        /\ P1_AtTail \in Nat /\ P1_Done \in Nat /\ P1_Awaited \in Nat
        /\ P1_Claimed \in Nat /\ P1_Given \in Nat
    BY P1_Ints
  <2>2. /\ p1_sems["spaceAvail"].value \in Int /\ p1_sems["itemAvail"].value \in Int
        /\ p1_sems["mutTail"].value \in Int /\ p1_sems["waitAll"].value \in Int
    BY P1_SemNames, P1_SemsAre
  <2>3. /\ p1_sems'["spaceAvail"].value = p1_sems["spaceAvail"].value - 0 + 0
        /\ p1_sems'["itemAvail"].value = p1_sems["itemAvail"].value + 0 - 0
        /\ p1_sems'["mutTail"].value = p1_sems["mutTail"].value - 0
        /\ p1_sems'["waitAll"].value = p1_sems["waitAll"].value + 0 - g
    <3>1. /\ p1_sems'["spaceAvail"] = p1_sems["spaceAvail"]
          /\ p1_sems'["itemAvail"] = p1_sems["itemAvail"]
          /\ p1_sems'["mutTail"] = p1_sems["mutTail"]
      BY P1_SemNames
    <3>2. p1_sems'["waitAll"].value = p1_sems["waitAll"].value - g
      OBVIOUS
    <3>3. p1_sems'["waitAll"].value = p1_sems["waitAll"].value + 0 - g
      BY <2>2, <3>2
    <3> QED BY SMTT(30), <2>2, <3>1, <3>3
  <2> HIDE DEF n
  <2>4. /\ n + P1_Claims' = n + P1_Claims + 0 /\ P1_Given' = P1_Given + 0
        /\ n - P1_Halfway' - P1_Unsignalled' = n - P1_Halfway - P1_Unsignalled + 0
        /\ P1_Claimed' = P1_Claimed + 0 /\ P1_AtTail' = P1_AtTail + 0
        /\ P1_Done' = P1_Done + 0
    <3>1. P1_Done' = P1_Done /\ P1_Claimed' = P1_Claimed /\ P1_Given' = P1_Given
      BY <1>1
    <3> QED BY <1>8, <1>9, <2>1, <3>1
  <2>5. 0 \in Int
    OBVIOUS
  <2> QED BY <1>8, <2>3, <2>4, <2>5, P1_SemsMoved
<1>13. P1_LogOK(log)'
  BY <1>2, <1>10, <1>11, <1>12 DEF P1_LogOK
<1> QED BY <1>3, <1>4, <1>5, <1>6, <1>7, <1>13 DEF P1_Inv

LEMMA P1_AwaitStep ==
    ASSUME P1_Inv, errorFlag = 0, p1_await
    PROVE  P1_Inv' /\ errorFlag' = 0
<1> DEFINE to == p1_round(P1_Main, P1_NUM_PRODUCERS + 1, "await", "check")
<1>1. /\ p1_goes(P1_Main, "await", to) /\ p1_sems' = sem_wait(p1_sems, "waitAll", P1_Main)
      /\ p1_next(P1_NUM_PRODUCERS + 1)
      /\ UNCHANGED <<p1_ch, p1_ring, p1_counts, errorFlag>>
      /\ to \in {"await", "check"} /\ to \in P1_Positions /\ P1_Main \in P1_Threads
      /\ "waitAll" \in P1_Sems
  BY P1_Names, P1_SemNames DEF p1_await, p1_wait, p1_memory, p1_round, P1_Positions
<1>2. to = IF p1_i[P1_Main] + 1 < P1_NUM_PRODUCERS + 1 THEN "await" ELSE "check"
  BY DEF p1_round
<1>3. /\ p1_i[P1_Main] \in 0..P1_NUM_PRODUCERS /\ P1_NUM_PRODUCERS \in Nat \ {0}
      /\ p1_i \in [P1_Threads -> Nat]
  BY P1_Names DEF P1_Inv, P1_MainOK, P1_TypeOK
<1>4. /\ p1_i' \in [P1_Threads -> Nat]
      /\ p1_i'[P1_Main] = IF p1_i[P1_Main] + 1 < P1_NUM_PRODUCERS + 1 THEN p1_i[P1_Main] + 1 ELSE 0
      /\ \A u \in P1_Threads \ {P1_Main} : p1_i'[u] = p1_i[u]
  BY <1>1, <1>3 DEF p1_next
<1> HIDE DEF to
<1>5. P1_Step(P1_Main, "await", to)
  BY <1>1, P1_Goes
<1>6. /\ SemsOK(p1_sems', P1_Sems, P1_Threads, P1_At, p1_pc')
      /\ p1_sems'["waitAll"].value = p1_sems["waitAll"].value - 1
      /\ \A r \in P1_Sems \ {"waitAll"} : p1_sems'[r] = p1_sems[r]
  <2>1. <<P1_Main, to, "waitAll">> \in P1_At
    BY <1>1 DEF P1_At
  <2> QED BY <1>1, <1>5, <2>1, P1_Waits
<1>7. P1_Awaited' = P1_Awaited + 1
  <2>1. p1_pc[P1_Main] = "await" /\ p1_pc'[P1_Main] = to
    BY <1>5 DEF P1_Step
  <2> QED BY <1>1, <1>2, <1>3, <1>4, <2>1 DEF P1_Awaited
<1>8. /\ p1_i'[P1_Main] \in 0..P1_NUM_PRODUCERS
      /\ to = "check" => p1_i'[P1_Main] < P1_NUM_PRODUCERS
  BY <1>2, <1>3, <1>4
<1>9. 1 \in Int /\ "await" \in {"await", "check", "close"}
      /\ to \in {"await", "check", "close", "returned"} /\ to # "returned"
  BY <1>1
<1> QED BY <1>1, <1>4, <1>5, <1>6, <1>7, <1>8, <1>9, P1_MainStep

LEMMA P1_CheckStep ==
    ASSUME P1_Inv, errorFlag = 0, p1_check
    PROVE  P1_Inv' /\ errorFlag' = 0
<1> DEFINE to == p1_round(P1_Main, P1_NUM_PRODUCERS, "check", "close")
<1>1. /\ p1_goes(P1_Main, "check", to) /\ p1_next(P1_NUM_PRODUCERS)
      /\ UNCHANGED <<p1_ch, p1_sems, p1_ring, p1_counts>>
      /\ check(p1_counts[p1_i[P1_Main] + 1] = P1_ITEMS_PER_PRODUCER)
      /\ to \in {"check", "close"} /\ to \in P1_Positions /\ P1_Main \in P1_Threads
  BY P1_Names DEF p1_check, p1_round, P1_Positions
<1>2. to = IF p1_i[P1_Main] + 1 < P1_NUM_PRODUCERS THEN "check" ELSE "close"
  BY DEF p1_round
<1> HIDE DEF to
<1>3. P1_Step(P1_Main, "check", to)
  BY <1>1, P1_Goes
<1>4. /\ p1_i[P1_Main] \in 0..P1_NUM_PRODUCERS /\ p1_i[P1_Main] < P1_NUM_PRODUCERS
      /\ P1_NUM_PRODUCERS \in Nat \ {0} /\ p1_i \in [P1_Threads -> Nat]
  BY <1>3, P1_Names DEF P1_Inv, P1_MainOK, P1_TypeOK, P1_Step
<1>5. /\ p1_i' \in [P1_Threads -> Nat]
      /\ p1_i'[P1_Main] = IF p1_i[P1_Main] + 1 < P1_NUM_PRODUCERS THEN p1_i[P1_Main] + 1 ELSE 0
      /\ \A u \in P1_Threads \ {P1_Main} : p1_i'[u] = p1_i[u]
  BY <1>1, <1>4 DEF p1_next
<1>6. errorFlag' = 0
  <2>1. \A t \in P1_Threads \ {P1_Main} : p1_pc[t] = "done"
    BY <1>3, P1_AllDone DEF P1_Step
  <2>2. p1_i[P1_Main] + 1 \in P1_Producers
    BY <1>4 DEF P1_Producers
  <2>3. p1_counts[p1_i[P1_Main] + 1] = P1_ITEMS_PER_PRODUCER
    BY <2>1, <2>2, P1_AllCounted
  <2> QED BY <1>1, <2>3 DEF check
<1>7. SemsOK(p1_sems', P1_Sems, P1_Threads, P1_At, p1_pc')
  BY <1>1, <1>3, P1_SemsKept
<1>8. P1_Awaited' = P1_Awaited + 0
  <2>1. p1_pc[P1_Main] = "check" /\ p1_pc'[P1_Main] = to
    BY <1>3 DEF P1_Step
  <2> QED BY <1>1, <1>4, <2>1 DEF P1_Awaited
<1>9. /\ p1_i'[P1_Main] \in 0..P1_NUM_PRODUCERS
      /\ to = "check" => p1_i'[P1_Main] < P1_NUM_PRODUCERS
  BY <1>2, <1>4, <1>5
<1>10. 0 \in Int /\ "check" \in {"await", "check", "close"}
       /\ to \in {"await", "check", "close", "returned"} /\ to # "returned"
  BY <1>1
<1>11. p1_sems'["waitAll"].value = p1_sems["waitAll"].value - 0
       /\ \A s \in P1_Sems \ {"waitAll"} : p1_sems'[s] = p1_sems[s]
  BY <1>1, P1_SemsAre, P1_SemNames
<1> QED BY <1>1, <1>3, <1>5, <1>6, <1>7, <1>8, <1>9, <1>10, <1>11, P1_MainStep

LEMMA P1_CloseStep ==
    ASSUME P1_Inv, errorFlag = 0, p1_close
    PROVE  P1_Inv' /\ errorFlag' = 0
<1>1. /\ p1_goes(P1_Main, "close", "returned") /\ p1_sems' = sem_close(p1_sems)
      /\ UNCHANGED <<p1_i, p1_ch, p1_ring, p1_counts, errorFlag>>
      /\ "returned" \in P1_Positions /\ P1_Main \in P1_Threads
  BY P1_Names DEF p1_close, p1_locals, p1_memory, P1_Positions
<1>2. P1_Step(P1_Main, "close", "returned")
  BY <1>1, P1_Goes
<1>3. \A t \in P1_Threads \ {P1_Main} : p1_pc[t] = "done"
  BY <1>2, P1_AllDone DEF P1_Step
<1>4. p1_sems' = p1_sems
  <2>1. \A t \in P1_Threads : ~IsBlocked(p1_sems, t)
    <3>1. \A t \in P1_Threads \ {P1_Main} : ~IsBlocked(p1_sems, t)
      BY <1>3, P1_Free
    <3> QED BY <1>2, <3>1 DEF P1_Step
  <2> QED BY <1>1, <2>1, P1_SemsAre, SemsClosed
<1>5. SemsOK(p1_sems', P1_Sems, P1_Threads, P1_At, p1_pc')
  BY <1>1, <1>2, <1>4, P1_SemsKept
<1>6. P1_Awaited' = P1_Awaited + 0
  <2>1. p1_pc[P1_Main] = "close" /\ p1_pc'[P1_Main] = "returned"
    BY <1>2 DEF P1_Step
  <2>2. P1_NUM_PRODUCERS \in Nat
    BY P1_Names
  <2> QED BY <2>1, <2>2 DEF P1_Awaited
<1>7. p1_i' \in [P1_Threads -> Nat] /\ p1_i'[P1_Main] \in 0..P1_NUM_PRODUCERS
      /\ \A u \in P1_Threads \ {P1_Main} : p1_i'[u] = p1_i[u]
  BY <1>1 DEF P1_Inv, P1_MainOK, P1_TypeOK
<1>8. p1_sems'["waitAll"].value = p1_sems["waitAll"].value - 0
      /\ \A s \in P1_Sems \ {"waitAll"} : p1_sems'[s] = p1_sems[s]
  BY <1>4, P1_SemsAre, P1_SemNames
<1>9. 0 \in Int
  OBVIOUS
<1> QED BY <1>1, <1>2, <1>3, <1>5, <1>6, <1>7, <1>8, <1>9, P1_MainStep

\* Nobody is at any of the positions that count.
LEMMA P1_NothingYet ==
    ASSUME p1_pc[P1_Main] = "open", p1_i[P1_Consumer] = 0,
           \A t \in P1_Threads \ {P1_Main} : p1_pc[t] = "unborn"
    PROVE  /\ P1_Claims = 0 /\ P1_Halfway = 0 /\ P1_Unsignalled = 0 /\ P1_AtTail = 0
           /\ P1_Done = 0 /\ P1_Awaited = 0
           /\ P1_Claimed = 0 /\ P1_Taken = 0 /\ P1_Left = 0 /\ P1_Given = 0
           /\ \A id \in P1_Producers : P1_In(id, {"moveTail", "freeTail", "signalItem"}) = 0
<1>1. p1_pc[P1_Consumer] = "unborn" /\ \A id \in P1_Producers : p1_pc[id] = "unborn"
  BY P1_Names
<1>2. ASSUME NEW L, "unborn" \notin L PROVE P1_Num(L) = 0
  <2>1. \A id \in P1_Producers : p1_pc[id] \notin L
    BY <1>1, <1>2
  <2> QED BY <2>1, P1_Names, CountBounds DEF P1_Num
<1>3. P1_Claims = 0 /\ P1_Halfway = 0 /\ P1_Unsignalled = 0 /\ P1_AtTail = 0
  <2>1. /\ "unborn" \notin {"waitTail", "store"} /\ "unborn" \notin {"moveTail"}
        /\ "unborn" \notin {"freeTail", "signalItem"}
        /\ "unborn" \notin {"store", "moveTail", "freeTail"}
    OBVIOUS
  <2> QED BY <1>2, <2>1 DEF P1_Claims, P1_Halfway, P1_Unsignalled, P1_AtTail
<1>4. P1_Done = 0
  <2> DEFINE L == {"done"}
  <2>1. \A t \in P1_Threads : p1_pc[t] \notin L
    OBVIOUS
  <2> HIDE DEF L
  <2>2. CountIn(p1_pc, P1_Threads, L) = 0
    BY <2>1, P1_Names, CountBounds
  <2> QED BY <2>2 DEF P1_Done, L
<1>5. P1_Claimed = 0 /\ P1_Taken = 0 /\ P1_Left = 0 /\ P1_Given = 0
  BY <1>1 DEF P1_Claimed, P1_Taken, P1_Left, P1_Given, P1_In, P1_Holding
<1>6. P1_Awaited = 0
  BY DEF P1_Awaited
<1>7. \A id \in P1_Producers : P1_In(id, {"moveTail", "freeTail", "signalItem"}) = 0
  BY <1>1 DEF P1_In
<1> QED BY <1>3, <1>4, <1>5, <1>6, <1>7

LEMMA P1_OpenStep ==
    ASSUME P1_Inv, errorFlag = 0, p1_open
    PROVE  P1_Inv' /\ errorFlag' = 0
<1>1. /\ p1_goes(P1_Main, "open", "create")
      /\ p1_sems' = [itemAvail |-> sem_open(0), spaceAvail |-> sem_open(P1_BUF_CAP),
                     mutHead |-> sem_open(1), mutTail |-> sem_open(1), waitAll |-> sem_open(0)]
      /\ UNCHANGED <<p1_i, p1_ch, p1_ring, p1_counts, errorFlag>>
      /\ "create" \in P1_Positions /\ P1_Main \in P1_Threads
  BY P1_Names DEF p1_open, p1_locals, p1_memory, P1_Positions
<1>2. P1_Step(P1_Main, "open", "create")
  BY <1>1, P1_Goes
<1>3. /\ DOMAIN p1_sems' = P1_Sems
      /\ p1_sems' = [s \in P1_Sems |-> p1_sems'[s]]
      /\ p1_sems'["itemAvail"] = sem_open(0) /\ p1_sems'["spaceAvail"] = sem_open(P1_BUF_CAP)
      /\ p1_sems'["mutHead"] = sem_open(1) /\ p1_sems'["mutTail"] = sem_open(1)
      /\ p1_sems'["waitAll"] = sem_open(0)
  BY <1>1 DEF P1_Sems
<1>4. SemsOK(p1_sems', P1_Sems, P1_Threads, P1_At, p1_pc')
  <2>1. \A s \in P1_Sems : \E n \in Nat : p1_sems'[s] = sem_open(n)
    BY <1>3, P1_Names DEF P1_Sems
  <2> QED BY <1>3, <2>1, SemsOpened
<1>5. /\ p1_pc[P1_Main] = "open" /\ p1_pc'[P1_Main] = "create" /\ p1_i[P1_Main] = 0
      /\ \A t \in P1_Threads \ {P1_Main} : p1_pc[t] = "unborn" /\ p1_pc'[t] = "unborn"
  BY <1>2, P1_Names DEF P1_Inv, P1_MainOK, P1_ConsumerOK, P1_ProducerOK, P1_Step
<1>6. /\ \A L : P1_Num(L)' = P1_Num(L)
      /\ P1_Done' = P1_Done
      /\ P1_Claimed' = P1_Claimed /\ P1_Taken' = P1_Taken /\ P1_Left' = P1_Left
      /\ P1_Given' = P1_Given
      /\ p1_pc'[P1_Consumer] = p1_pc[P1_Consumer]
      /\ \A u \in P1_Producers : p1_pc'[u] = p1_pc[u]
      /\ \A u \in P1_Producers : \A L : P1_In(u, L)' = P1_In(u, L)
  <2>1. p1_i'[P1_Consumer] = p1_i[P1_Consumer] /\ "open" # "done" /\ "create" # "done"
    BY <1>1
  <2> QED BY <1>2, <2>1, P1_MainMoves
<1>7. P1_TypeOK'
  BY <1>1, <1>2, <1>4 DEF P1_Inv, P1_TypeOK, P1_Step, SemsOK
<1>8. P1_MainOK'
  BY <1>1, <1>5 DEF P1_Inv, P1_MainOK
<1>9. P1_ConsumerOK'
  BY <1>1, <1>5, <1>6, P1_Names DEF P1_Inv, P1_ConsumerOK
<1>10. ASSUME NEW id \in P1_Producers PROVE P1_ProducerOK(id)'
  <2>1. id >= p1_i'[P1_Main]
    BY <1>1, <1>5 DEF P1_Producers
  <2>2. p1_pc[id] = "unborn" /\ p1_pc'[id] = "unborn"
    BY <1>5, P1_Names
  <2> QED BY <1>1, <1>5, <2>1, <2>2 DEF P1_Inv, P1_ProducerOK
<1>11. PICK log \in Seq(P1_Producers) : P1_LogOK(log)
  BY DEF P1_Inv
<1>12. log = <<>> /\ Len(log) = 0 /\ p1_i[P1_Consumer] = 0
  BY <1>5, <1>11 DEF P1_LogOK
<1>13. /\ P1_Halfway' = P1_Halfway /\ P1_Unsignalled' = P1_Unsignalled
       /\ P1_Claims' = P1_Claims /\ P1_AtTail' = P1_AtTail
  BY <1>6 DEF P1_Halfway, P1_Unsignalled, P1_Claims, P1_AtTail
<1>14. P1_RingOK(log)' /\ P1_CountsOK(log)'
  <2>1. P1_RingOK(log) /\ P1_CountsOK(log)
    BY <1>11 DEF P1_LogOK
  <2>2. P1_RingOK(log)'
    BY <1>1, <1>6, <1>13, <2>1, P1_RingKept
  <2>3. P1_CountsOK(log)'
    BY <1>1, <1>6, <2>1 DEF P1_CountsOK
  <2> QED BY <2>2, <2>3
<1>15. P1_SemValues(Len(log))'
  <2>1. /\ P1_Claims = 0 /\ P1_Halfway = 0 /\ P1_Unsignalled = 0 /\ P1_AtTail = 0
        /\ P1_Done = 0 /\ P1_Claimed = 0 /\ P1_Given = 0
    BY <1>5, <1>12, P1_NothingYet
  <2>2. P1_Awaited' = 0
    BY <1>5 DEF P1_Awaited
  <2>3. /\ p1_sems'["itemAvail"].value = 0 /\ p1_sems'["spaceAvail"].value = P1_BUF_CAP
        /\ p1_sems'["mutTail"].value = 1 /\ p1_sems'["waitAll"].value = 0
    BY <1>3 DEF sem_open
  <2>4. /\ p1_sems'["spaceAvail"].value = P1_BUF_CAP - (0 + P1_Claims') + P1_Given'
        /\ p1_sems'["itemAvail"].value = 0 - P1_Halfway' - P1_Unsignalled' - P1_Claimed'
        /\ p1_sems'["mutTail"].value = 1 - P1_AtTail'
        /\ p1_sems'["waitAll"].value = P1_Done' - P1_Awaited'
    BY <1>6, <1>13, <2>1, <2>2, <2>3, P1_Names
  <2>5. P1_SemValues(0)'
    BY <2>4 DEF P1_SemValues
  <2> QED BY <1>12, <2>5
<1>16. P1_LogOK(log)'
  BY <1>5, <1>14, <1>15 DEF P1_LogOK
<1> QED BY <1>1, <1>4, <1>7, <1>8, <1>9, <1>10, <1>11, <1>16 DEF P1_Inv

LEMMA P1_CreateStep ==
    ASSUME P1_Inv, errorFlag = 0, p1_create
    PROVE  P1_Inv' /\ errorFlag' = 0
<1> DEFINE t == IF p1_i[P1_Main] = 0 THEN P1_Consumer ELSE p1_i[P1_Main]
<1> DEFINE first == IF p1_i[P1_Main] = 0 THEN "waitItem" ELSE "waitSpace"
<1> DEFINE to == p1_round(P1_Main, P1_NUM_PRODUCERS + 1, "create", "await")
<1>1. /\ p1_pc[P1_Main] = "create"
      /\ p1_pc' = [p1_pc EXCEPT ![P1_Main] = to, ![t] = first]
      /\ p1_next(P1_NUM_PRODUCERS + 1)
      /\ UNCHANGED <<p1_ch, p1_sems, p1_ring, p1_counts, errorFlag>>
      /\ to \in {"create", "await"} /\ to \in P1_Positions /\ first \in P1_Positions
      /\ P1_Main \in P1_Threads /\ p1_pc \in [P1_Threads -> P1_Positions]
  BY P1_Names DEF p1_create, p1_memory, p1_round, P1_Positions, P1_Inv, P1_TypeOK
<1>2. to = IF p1_i[P1_Main] + 1 < P1_NUM_PRODUCERS + 1 THEN "create" ELSE "await"
  BY DEF p1_round
<1>3. /\ p1_i[P1_Main] \in 0..P1_NUM_PRODUCERS /\ P1_NUM_PRODUCERS \in Nat \ {0}
      /\ p1_i \in [P1_Threads -> Nat]
  BY P1_Names DEF P1_Inv, P1_MainOK, P1_TypeOK
<1>4. /\ p1_i' \in [P1_Threads -> Nat]
      /\ p1_i'[P1_Main] = IF p1_i[P1_Main] + 1 < P1_NUM_PRODUCERS + 1 THEN p1_i[P1_Main] + 1 ELSE 0
      /\ \A u \in P1_Threads \ {P1_Main} : p1_i'[u] = p1_i[u]
  BY <1>1, <1>3 DEF p1_next
<1>5. /\ t \in P1_Threads \ {P1_Main}
      /\ p1_i[P1_Main] = 0 => t = P1_Consumer
      /\ p1_i[P1_Main] # 0 => t \in P1_Producers /\ t = p1_i[P1_Main]
  <2>1. p1_i[P1_Main] # 0 => p1_i[P1_Main] \in P1_Producers
    BY <1>3 DEF P1_Producers
  <2> QED BY <2>1, P1_Names
<1> HIDE DEF t, to
<1>6. /\ p1_pc'[P1_Main] = to /\ p1_pc'[t] = first
      /\ \A u \in P1_Threads \ {P1_Main, t} : p1_pc'[u] = p1_pc[u]
      /\ p1_pc' \in [P1_Threads -> P1_Positions]
  BY <1>1, <1>5
<1>7. p1_pc[t] = "unborn"
  <2>1. CASE p1_i[P1_Main] = 0
    BY <1>1, <1>5, <2>1 DEF P1_Inv, P1_ConsumerOK
  <2>2. CASE p1_i[P1_Main] # 0
    <3>1. t \in P1_Producers /\ t >= p1_i[P1_Main]
      BY <1>3, <1>5, <2>2
    <3> QED BY <1>1, <3>1 DEF P1_Inv, P1_ProducerOK
  <2> QED BY <2>1, <2>2
<1>8. SemsOK(p1_sems', P1_Sems, P1_Threads, P1_At, p1_pc')
  <2>1. ~IsBlocked(p1_sems, P1_Main) /\ ~IsBlocked(p1_sems, t)
    BY <1>1, <1>5, <1>7, P1_Free
  <2>2. \A u \in P1_Threads : IsBlocked(p1_sems, u) => p1_pc'[u] = p1_pc[u]
    BY <1>6, <2>1
  <2>3. SemsOK(p1_sems, P1_Sems, P1_Threads, P1_At, p1_pc) /\ p1_sems' = p1_sems
    BY <1>1, P1_SemsAre
  <2> QED BY <2>2, <2>3, SemsSame
<1>9. P1_TypeOK'
  BY <1>1, <1>4, <1>6 DEF P1_Inv, P1_TypeOK
<1>10. P1_MainOK'
  BY <1>1, <1>2, <1>3, <1>4, <1>6 DEF P1_MainOK
<1>11. P1_ConsumerOK'
  <2>1. p1_i'[P1_Consumer] = p1_i[P1_Consumer] /\ P1_Consumer \in P1_Threads \ {P1_Main}
    BY <1>4, P1_Names
  <2>2. CASE p1_i[P1_Main] = 0
    <3>1. p1_pc'[P1_Consumer] = "waitItem" /\ p1_pc[P1_Consumer] = "unborn"
      BY <1>5, <1>6, <1>7, <2>2
    <3>2. ~(p1_pc'[P1_Main] = "create" /\ p1_i'[P1_Main] = 0) /\ p1_pc'[P1_Main] # "open"
      BY <1>1, <1>2, <1>3, <1>4, <1>6
    <3> QED BY <2>1, <3>1, <3>2 DEF P1_Inv, P1_ConsumerOK
  <2>3. CASE p1_i[P1_Main] # 0
    <3>1. p1_pc'[P1_Consumer] = p1_pc[P1_Consumer]
      BY <1>5, <1>6, <2>1, <2>3, P1_Names
    <3>2. ~(p1_pc'[P1_Main] = "create" /\ p1_i'[P1_Main] = 0) /\ p1_pc'[P1_Main] # "open"
      BY <1>1, <1>2, <1>3, <1>4, <1>6
    <3> QED BY <1>1, <2>1, <2>3, <3>1, <3>2 DEF P1_Inv, P1_ConsumerOK
  <2> QED BY <2>2, <2>3
<1>12. ASSUME NEW id \in P1_Producers PROVE P1_ProducerOK(id)'
  <2>1. p1_i'[id] = p1_i[id] /\ id \in P1_Threads \ {P1_Main} /\ id \in 1..P1_NUM_PRODUCERS
    BY <1>4, P1_Names DEF P1_Producers
  <2>2. p1_pc'[P1_Main] # "open" /\ p1_pc[P1_Main] = "create"
    BY <1>1, <1>6
  <2>3. CASE id = t
    <3>1. p1_pc'[id] = "waitSpace" /\ id = p1_i[P1_Main] /\ p1_pc[id] = "unborn"
      BY <1>5, <1>6, <1>7, <2>3, P1_Names
    <3>2. ~(p1_pc'[P1_Main] = "create" /\ id >= p1_i'[P1_Main])
      BY <1>2, <1>3, <1>4, <1>6, <2>1, <3>1
    <3> QED BY <2>1, <2>2, <3>1, <3>2 DEF P1_Inv, P1_ProducerOK
  <2>4. CASE id # t
    <3>1. p1_pc'[id] = p1_pc[id]
      BY <1>6, <2>1, <2>4
    <3>2. id # p1_i[P1_Main]
      BY <1>5, <2>1, <2>4
    <3>3. id >= p1_i[P1_Main] <=> (p1_pc'[P1_Main] = "create" /\ id >= p1_i'[P1_Main])
      BY <1>2, <1>3, <1>4, <1>6, <2>1, <3>2
    <3> QED BY <2>1, <2>2, <3>1, <3>3 DEF P1_Inv, P1_ProducerOK
  <2> QED BY <2>3, <2>4
<1>13. ASSUME NEW L, "unborn" \notin L, first \notin L
       PROVE  /\ P1_Num(L)' = P1_Num(L)
              /\ \A u \in P1_Threads \ {P1_Main} : P1_In(u, L)' = P1_In(u, L)
  <2>1. \A u \in P1_Threads \ {P1_Main} : p1_pc'[u] \in L <=> p1_pc[u] \in L
    BY <1>6, <1>7, <1>13
  <2>2. {u \in P1_Producers : p1_pc'[u] \in L} = {u \in P1_Producers : p1_pc[u] \in L}
    BY <2>1, P1_Names
  <2> QED BY <2>1, <2>2 DEF P1_Num, CountIn, P1_In
<1>14. /\ P1_Halfway' = P1_Halfway /\ P1_Unsignalled' = P1_Unsignalled
       /\ P1_Claims' = P1_Claims /\ P1_AtTail' = P1_AtTail
       /\ \A u \in P1_Threads \ {P1_Main} :
             P1_In(u, {"moveTail", "freeTail", "signalItem"})' =
                 P1_In(u, {"moveTail", "freeTail", "signalItem"})
  <2>1. /\ {"unborn", first} \cap {"waitTail", "store"} = {}
        /\ {"unborn", first} \cap {"moveTail"} = {}
        /\ {"unborn", first} \cap {"freeTail", "signalItem"} = {}
        /\ {"unborn", first} \cap {"store", "moveTail", "freeTail"} = {}
        /\ {"unborn", first} \cap {"moveTail", "freeTail", "signalItem"} = {}
    OBVIOUS
  <2> HIDE DEF first
  <2>2. \A L : {"unborn", first} \cap L = {} =>
               /\ P1_Num(L)' = P1_Num(L)
               /\ \A u \in P1_Threads \ {P1_Main} : P1_In(u, L)' = P1_In(u, L)
    BY <1>13
  <2> QED BY <2>1, <2>2 DEF P1_Halfway, P1_Unsignalled, P1_Claims, P1_AtTail
<1>15. P1_Done' = P1_Done
  <2>1. \A u \in P1_Threads : p1_pc'[u] \in {"done"} <=> p1_pc[u] \in {"done"}
    BY <1>1, <1>6, <1>7
  <2>2. {u \in P1_Threads : p1_pc'[u] \in {"done"}} = {u \in P1_Threads : p1_pc[u] \in {"done"}}
    BY <2>1
  <2> QED BY <2>2 DEF P1_Done, CountIn
<1>16. P1_Awaited' = P1_Awaited
  BY <1>1, <1>2, <1>3, <1>4, <1>6 DEF P1_Awaited
<1>17. /\ P1_Claimed' = P1_Claimed /\ P1_Taken' = P1_Taken /\ P1_Left' = P1_Left
       /\ P1_Given' = P1_Given /\ p1_i'[P1_Consumer] = p1_i[P1_Consumer]
       /\ p1_pc'[P1_Consumer] \in P1_Holding => p1_pc[P1_Consumer] \in P1_Holding
  <2>1. /\ p1_i'[P1_Consumer] = p1_i[P1_Consumer]
        /\ \/ p1_pc'[P1_Consumer] = p1_pc[P1_Consumer]
           \/ p1_pc[P1_Consumer] = "unborn" /\ p1_pc'[P1_Consumer] \in {"waitItem", "waitSpace"}
    BY <1>4, <1>6, <1>7, P1_Names
  <2> QED BY <2>1 DEF P1_Claimed, P1_Taken, P1_Left, P1_Given, P1_In, P1_Holding
<1>18. PICK log \in Seq(P1_Producers) : P1_LogOK(log)
  BY DEF P1_Inv
<1> DEFINE n == Len(log)
<1>19. n \in Nat /\ P1_SemValues(n) /\ P1_RingOK(log) /\ P1_CountsOK(log)
  BY <1>1, <1>18 DEF P1_LogOK
<1>20. P1_RingOK(log)'
  BY <1>1, <1>14, <1>17, <1>19, P1_RingKept
<1>21. P1_CountsOK(log)'
  <2>1. \A id \in P1_Producers : p1_i'[id] = p1_i[id] /\ id \in P1_Threads \ {P1_Main}
    BY <1>4, P1_Names
  <2> QED BY <1>1, <1>14, <1>17, <1>19, <2>1 DEF P1_CountsOK
<1>22. P1_SemValues(n)'
  <2>1. p1_sems' = p1_sems
    BY <1>1
  <2> QED BY <1>14, <1>15, <1>16, <1>17, <1>19, <2>1 DEF P1_SemValues
<1>23. P1_LogOK(log)'
  BY <1>1, <1>6, <1>20, <1>21, <1>22 DEF P1_LogOK
<1> QED BY <1>1, <1>8, <1>9, <1>10, <1>11, <1>12, <1>18, <1>23 DEF P1_Inv

-----------------------------------------------------------------------------
\* The phase as a whole.

LEMMA P1_InvInit == P1_Init => P1_Inv
<1> SUFFICES ASSUME P1_Init PROVE P1_Inv
  OBVIOUS
<1>1. /\ p1_pc \in [P1_Threads -> P1_Positions] /\ p1_i \in [P1_Threads -> Nat]
      /\ p1_pc[P1_Main] = "open" /\ p1_i[P1_Main] = 0 /\ p1_i[P1_Consumer] = 0
      /\ \A t \in P1_Threads \ {P1_Main} : p1_pc[t] = "unborn" /\ p1_i[t] = 0
      /\ p1_ch = 0 /\ \A id \in P1_Producers : p1_counts[id] = 0
      /\ p1_counts \in [P1_Producers -> Nat]
  BY P1_Names DEF P1_Init, P1_Positions
<1>2. SemsOK(p1_sems, P1_Sems, P1_Threads, P1_At, p1_pc)
  <2>1. DOMAIN p1_sems = P1_Sems /\ p1_sems = [s \in P1_Sems |-> p1_sems[s]]
        /\ \A s \in P1_Sems : p1_sems[s] = sem_open(0)
    BY DEF P1_Init
  <2> QED BY <2>1, SemsOpened
<1>3. P1_MainOK
  BY <1>1, P1_Names DEF P1_MainOK
<1>4. P1_ConsumerOK
  BY <1>1, P1_Names DEF P1_ConsumerOK
<1>5. ASSUME NEW id \in P1_Producers PROVE P1_ProducerOK(id)
  BY <1>1, P1_Names DEF P1_ProducerOK
<1> DEFINE log == << >>
<1>6. log \in Seq(P1_Producers) /\ Len(log) = 0
  OBVIOUS
<1>7. /\ P1_Halfway = 0 /\ P1_Taken = 0 /\ P1_Left = 0
      /\ \A id \in P1_Producers : P1_In(id, {"moveTail", "freeTail", "signalItem"}) = 0
  BY <1>1, P1_NothingYet
<1>8. RingHolds(p1_ring, P1_BUF_CAP, 0, 0, 0, log)
  <2>1. p1_ring = EmptyRing(P1_BUF_CAP) /\ P1_BUF_CAP \in Nat \ {0}
    BY P1_Names DEF P1_Init
  <2> HIDE DEF log
  <2> QED BY <2>1, RingEmpty
<1>9. P1_RingOK(log)
  <2>1. p1_pc[P1_Consumer] \notin P1_Holding
    BY <1>1, P1_Names DEF P1_Holding
  <2>2. Len(log) - P1_Halfway = 0
    BY <1>6, <1>7
  <2> HIDE DEF log
  <2> QED BY <1>6, <1>7, <1>8, <2>1, <2>2 DEF P1_RingOK
<1>10. P1_CountsOK(log)
  <2> HIDE DEF log
  <2>1. ASSUME NEW id \in P1_Producers PROVE Occurrences(log, 0, id) = 0
    <3>1. Occurrences(log, 0, id) \in 0..0
      BY OccurrencesNat
    <3> QED BY <3>1
  <2>2. \A id \in P1_Producers : p1_i[id] = 0
    BY <1>1, P1_Names
  <2> QED BY <1>1, <1>6, <1>7, <2>1, <2>2 DEF P1_CountsOK
<1>11. P1_LogOK(log)
  BY <1>1, <1>9, <1>10 DEF P1_LogOK
<1>12. P1_TypeOK
  BY <1>1, <1>2, <1>8 DEF P1_TypeOK, SemsOK, RingHolds
<1> QED BY <1>2, <1>3, <1>4, <1>5, <1>6, <1>11, <1>12 DEF P1_Inv

LEMMA P1_ProducerStep ==
    ASSUME P1_Inv, errorFlag = 0, NEW id \in P1_Producers, p1_producer(id)
    PROVE  P1_Inv' /\ errorFlag' = 0
<1> DEFINE to == p1_round(id, P1_ITEMS_PER_PRODUCER, "waitSpace", "tell")
<1>1. CASE /\ \/ p1_wait(id, "waitSpace", "spaceAvail", "waitTail")
              \/ p1_wait(id, "waitTail", "mutTail", "store")
           /\ UNCHANGED <<p1_locals, p1_memory>>
  BY <1>1, P1_ProducerWaits
<1>2. CASE /\ p1_signal(id, "freeTail", "mutTail", "signalItem")
           /\ UNCHANGED <<p1_locals, p1_memory>>
  <2>1. p1_i' = p1_i /\ UNCHANGED <<p1_ch, p1_memory>>
    BY <1>2 DEF p1_locals
  <2> QED BY <1>2, <2>1, P1_ProducerSignals
<1>3. CASE /\ p1_goes(id, "store", "moveTail") /\ p1_ring' = Stored(p1_ring, id)
           /\ UNCHANGED <<p1_locals, p1_sems, p1_counts, errorFlag>>
  BY <1>3, P1_ProducerStores
<1>4. CASE /\ p1_goes(id, "moveTail", "freeTail") /\ p1_ring' = TailMoved(p1_ring, P1_BUF_CAP)
           /\ UNCHANGED <<p1_locals, p1_sems, p1_counts, errorFlag>>
  BY <1>4, P1_ProducerMovesTail
<1>5. CASE /\ p1_signal(id, "signalItem", "itemAvail", to)
           /\ p1_counted(id) /\ UNCHANGED <<p1_ch, p1_memory>>
  BY <1>5, P1_ProducerSignals
<1>6. CASE p1_tell(id)
  <2>1. p1_i' = p1_i /\ UNCHANGED <<p1_ch, p1_memory>> /\ p1_signal(id, "tell", "waitAll", "done")
    BY <1>6 DEF p1_tell, p1_locals
  <2> QED BY <2>1, P1_ProducerSignals
<1> QED BY <1>1, <1>2, <1>3, <1>4, <1>5, <1>6 DEF p1_producer, p1_bufPut

LEMMA P1_ConsumerStep ==
    ASSUME P1_Inv, errorFlag = 0, p1_consumer
    PROVE  P1_Inv' /\ errorFlag' = 0
<1> DEFINE to == p1_round(P1_Consumer, P1_Total, "waitItem", "tell")
<1>1. CASE /\ \/ p1_wait(P1_Consumer, "waitItem", "itemAvail", "waitHead")
              \/ p1_wait(P1_Consumer, "waitHead", "mutHead", "take")
           /\ UNCHANGED <<p1_locals, p1_memory>>
  BY <1>1, P1_ConsumerWaits
<1>2. CASE /\ \/ p1_signal(P1_Consumer, "freeHead", "mutHead", "signalSpace")
              \/ p1_signal(P1_Consumer, "signalSpace", "spaceAvail", "count")
           /\ UNCHANGED <<p1_locals, p1_memory>>
  BY <1>2, P1_ConsumerSignals
<1>3. CASE /\ p1_goes(P1_Consumer, "take", "moveHead") /\ p1_ch' = Oldest(p1_ring)
           /\ UNCHANGED <<p1_i, p1_sems, p1_memory>>
  BY <1>3, P1_ConsumerTakes
<1>4. CASE /\ p1_goes(P1_Consumer, "moveHead", "freeHead")
           /\ p1_ring' = HeadMoved(p1_ring, P1_BUF_CAP)
           /\ UNCHANGED <<p1_locals, p1_sems, p1_counts, errorFlag>>
  BY <1>4, P1_ConsumerMovesHead
<1>5. CASE /\ p1_goes(P1_Consumer, "count", to)
           /\ p1_counts' = IF p1_ch \in P1_Producers
                           THEN [p1_counts EXCEPT ![p1_ch] = @ + 1] ELSE p1_counts
           /\ p1_counted(P1_Consumer)
           /\ UNCHANGED <<p1_ch, p1_sems, p1_ring, errorFlag>>
  BY <1>5, P1_ConsumerCounts
<1>6. CASE p1_tell(P1_Consumer)
  BY <1>6, P1_ConsumerSignals DEF p1_tell
<1> QED BY <1>1, <1>2, <1>3, <1>4, <1>5, <1>6 DEF p1_consumer, p1_bufGet, P1_Total

LEMMA P1_InvNext == P1_Inv /\ errorFlag = 0 /\ P1_Next => P1_Inv' /\ errorFlag' = 0
BY P1_ProducerStep, P1_ConsumerStep, P1_OpenStep, P1_CreateStep, P1_AwaitStep, P1_CheckStep,
   P1_CloseStep
   DEF P1_Next, runPhase1

LEMMA P1_InvUnchanged == P1_Inv /\ UNCHANGED p1_vars => P1_Inv'
<1> SUFFICES ASSUME P1_Inv, UNCHANGED p1_vars PROVE P1_Inv'
  OBVIOUS
<1>1. UNCHANGED <<p1_pc, p1_i, p1_ch, p1_sems, p1_ring, p1_counts>>
  BY DEF p1_vars, p1_locals
<1> QED
  BY <1>1
     DEF P1_Inv, P1_TypeOK, P1_MainOK, P1_ConsumerOK, P1_ProducerOK, P1_LogOK, P1_RingOK,
         P1_CountsOK, P1_SemValues, P1_In, P1_Num, P1_Claims, P1_Halfway, P1_Unsignalled,
         P1_AtTail, P1_Done, P1_Awaited, P1_Claimed, P1_Taken, P1_Left, P1_Given

LEMMA P1_InvSafe == P1_Inv => P1_TypeOK /\ P1_NothingIsUsedAfterClose
<1> SUFFICES ASSUME P1_Inv PROVE P1_NothingIsUsedAfterClose
  BY DEF P1_Inv
<1>1. p1_pc[P1_Main] = "returned" => \A t \in P1_Threads \ {P1_Main} : p1_pc[t] = "done"
  BY DEF P1_Inv, P1_MainOK
<1>2. p1_pc[P1_Main] = "open" => \A t \in P1_Threads \ {P1_Main} : p1_pc[t] = "unborn"
  BY P1_Names DEF P1_Inv, P1_ConsumerOK, P1_ProducerOK
<1> QED BY <1>1, <1>2 DEF P1_NothingIsUsedAfterClose

-----------------------------------------------------------------------------
\* Phase 1: the ring is a FIFO buffer.

\* Where a producer has stored an item and not signalled it, and where the
\* consumer has waited for one and not taken it.
P1_Busy == {"moveTail", "freeTail", "signalItem"}
P1_Waiting == {"waitHead", "take"}

\* Before main opens the semaphores none has a value.
P1_Early == p1_pc[P1_Main] = "open" => p1_sems["itemAvail"].value = 0

\* What a step makes of the items in the ring.
P1_Puts(v) ==
    /\ Len(p1_contents) < P1_BUF_CAP
    /\ p1_contents' = Append(p1_contents, v)
    /\ p1_ch' = p1_ch
P1_Gets ==
    /\ p1_contents # <<>>
    /\ p1_ch' = Head(p1_contents)
    /\ p1_contents' = Tail(p1_contents)
P1_ShowsNothing == p1_contents' = p1_contents /\ p1_ch' = p1_ch

LEMMA P1_HeldIs ==
    p1_held = p1_sems["itemAvail"].value + P1_Num(P1_Busy) + P1_In(P1_Consumer, P1_Waiting)
BY DEF p1_held, P1_Num, CountIn, P1_Busy, P1_Waiting, P1_In, One

LEMMA P1_HeldThen ==
    p1_held' = p1_sems'["itemAvail"].value + P1_Num(P1_Busy)' + P1_In(P1_Consumer, P1_Waiting)'
BY DEF p1_held, P1_Num, CountIn, P1_Busy, P1_Waiting, P1_In, One

\* What the step lemmas above say of it, for all kinds of steps.
LEMMA P1_Kept ==
    ASSUME P1_Inv,
           p1_sems'["itemAvail"].value = p1_sems["itemAvail"].value,
           P1_Num(P1_Busy)' = P1_Num(P1_Busy),
           p1_pc'[P1_Consumer] \in P1_Waiting <=> p1_pc[P1_Consumer] \in P1_Waiting
    PROVE  p1_held' = p1_held
<1>1. P1_In(P1_Consumer, P1_Waiting)' = P1_In(P1_Consumer, P1_Waiting)
  BY DEF P1_In
<1>2. p1_held' = p1_sems'["itemAvail"].value + P1_Num(P1_Busy)' + P1_In(P1_Consumer, P1_Waiting)'
  BY DEF p1_held, P1_Num, CountIn, P1_Busy, P1_Waiting, P1_In, One
<1> QED BY <1>1, <1>2, P1_HeldIs

LEMMA P1_Quietly ==
    ASSUME p1_held' = p1_held, p1_ring' = p1_ring, p1_ch' = p1_ch,
           p1_pc'[P1_Consumer] = "moveHead" <=> p1_pc[P1_Consumer] = "moveHead"
    PROVE  P1_ShowsNothing
BY DEF P1_ShowsNothing, p1_contents, Contents

\* The items held are those that were stored and not taken.
LEMMA P1_HeldItems ==
    ASSUME P1_Inv, p1_pc[P1_Main] # "open", NEW log, P1_LogOK(log), Len(log) \in Nat
    PROVE  /\ p1_held = Len(log) - P1_Taken /\ p1_held \in Nat
           /\ P1_Taken = P1_Left + One(p1_pc[P1_Consumer] = "moveHead")
           /\ Len(log) <= P1_Left + P1_BUF_CAP
<1> DEFINE n == Len(log)
<1> DEFINE A == {t \in P1_Producers : p1_pc[t] \in {"moveTail"}}
<1> DEFINE B == {t \in P1_Producers : p1_pc[t] \in {"freeTail", "signalItem"}}
<1> DEFINE C == {t \in P1_Producers : p1_pc[t] \in P1_Busy}
<1>1. P1_Num(P1_Busy) = P1_Halfway + P1_Unsignalled
  <2>1. IsFiniteSet(A) /\ IsFiniteSet(B) /\ A \cap B = {} /\ C = A \union B
    BY P1_Names, FS_Subset DEF P1_Busy
  <2> HIDE DEF A, B, C
  <2>2. Cardinality(C) = Cardinality(A) + Cardinality(B) - Cardinality({})
    BY <2>1, FS_Union
  <2>3. Cardinality(A) \in Nat /\ Cardinality(B) \in Nat /\ Cardinality({}) = 0
    BY <2>1, FS_CardinalityType, FS_EmptySet
  <2>4. Cardinality(C) = Cardinality(A) + Cardinality(B)
    BY <2>2, <2>3
  <2> QED BY <2>4 DEF P1_Num, P1_Halfway, P1_Unsignalled, CountIn, A, B, C
<1>2. P1_Claimed = P1_Taken + P1_In(P1_Consumer, P1_Waiting)
  <2>1. p1_i[P1_Consumer] \in Nat
    BY P1_Ints
  <2> QED BY <2>1 DEF P1_Claimed, P1_Taken, P1_In, P1_Waiting, P1_Holding
<1>3. P1_Taken = P1_Left + One(p1_pc[P1_Consumer] = "moveHead")
  <2>1. p1_i[P1_Consumer] \in Nat
    BY P1_Ints
  <2> QED BY <2>1 DEF P1_Left, P1_Taken, P1_In, P1_Holding, One
<1>4. /\ p1_sems["itemAvail"].value = n - P1_Halfway - P1_Unsignalled - P1_Claimed
      /\ P1_Taken <= n /\ n <= P1_Left + P1_BUF_CAP
  BY DEF P1_LogOK, P1_SemValues, P1_RingOK, RingHolds
<1>5. /\ P1_Halfway \in Nat /\ P1_Unsignalled \in Nat /\ P1_Taken \in Nat
      /\ P1_In(P1_Consumer, P1_Waiting) \in Nat
  BY P1_Ints DEF P1_In
<1> HIDE DEF n
<1>6. p1_held = n - P1_Taken /\ p1_held \in Nat
  <2> DEFINE v == p1_sems["itemAvail"].value
  <2> DEFINE w == P1_In(P1_Consumer, P1_Waiting)
  <2>1. p1_held = v + P1_Num(P1_Busy) + w
    BY P1_HeldIs
  <2>2. v = n - P1_Halfway - P1_Unsignalled - P1_Claimed /\ P1_Claimed = P1_Taken + w /\ w \in Nat
    BY <1>2, <1>4, <1>5
  <2>3. n \in Nat
    BY DEF n
  <2> HIDE DEF v, w
  <2> QED BY <1>1, <1>4, <1>5, <2>1, <2>2, <2>3
<1> QED BY <1>3, <1>4, <1>6 DEF n

LEMMA P1_ProducerShows ==
    ASSUME P1_Inv, NEW t \in P1_Producers, p1_producer(t)
    PROVE  (P1_Puts(t) \/ P1_ShowsNothing) /\ p1_pc'[P1_Main] # "open"
<1> DEFINE after == p1_round(t, P1_ITEMS_PER_PRODUCER, "waitSpace", "tell")
<1>1. t \in P1_Threads /\ t # P1_Main /\ t # P1_Consumer /\ P1_BUF_CAP \in Nat \ {0} /\ t \in Int
  BY P1_Names DEF P1_Producers
<1>2. ASSUME NEW from, NEW to \in P1_Positions, p1_goes(t, from, to), from # "unborn",
             p1_i'[P1_Consumer] = p1_i[P1_Consumer], p1_i'[P1_Main] = p1_i[P1_Main]
      PROVE  /\ P1_Step(t, from, to) /\ p1_pc[P1_Main] # "open" /\ p1_pc'[P1_Main] # "open"
             /\ p1_pc'[P1_Consumer] = p1_pc[P1_Consumer]
             /\ P1_Num(P1_Busy)' = P1_Num(P1_Busy) - (IF from \in P1_Busy THEN 1 ELSE 0)
                                                   + (IF to \in P1_Busy THEN 1 ELSE 0)
             /\ p1_pc[t] = from /\ ~IsBlocked(p1_sems, t)
  <2>1. P1_Step(t, from, to) /\ p1_pc[P1_Main] # "open"
    BY <1>1, <1>2, P1_Goes
  <2>2. /\ \A L : P1_Num(L)' = P1_Num(L) - (IF from \in L THEN 1 ELSE 0)
                                        + (IF to \in L THEN 1 ELSE 0)
        /\ p1_pc'[P1_Consumer] = p1_pc[P1_Consumer] /\ p1_pc'[P1_Main] = p1_pc[P1_Main]
    BY <1>2, <2>1, P1_ProducerMoves
  <2>3. P1_Num(P1_Busy)' = P1_Num(P1_Busy) - (IF from \in P1_Busy THEN 1 ELSE 0)
                                           + (IF to \in P1_Busy THEN 1 ELSE 0)
    BY <2>2
  <2> QED BY <2>1, <2>2, <2>3 DEF P1_Step
<1>3. P1_Num(P1_Busy) \in Nat /\ \A s \in P1_Sems : p1_sems[s].value \in Int
  BY P1_Names, CountBounds, P1_SemsAre DEF P1_Num
<1>4. CASE /\ \/ p1_wait(t, "waitSpace", "spaceAvail", "waitTail")
              \/ p1_wait(t, "waitTail", "mutTail", "store")
           /\ UNCHANGED <<p1_locals, p1_memory>>
  <2>1. PICK from, s, to : /\ \/ from = "waitSpace" /\ s = "spaceAvail" /\ to = "waitTail"
                              \/ from = "waitTail" /\ s = "mutTail" /\ to = "store"
                           /\ p1_wait(t, from, s, to)
    BY <1>4
  <2>2. /\ p1_goes(t, from, to) /\ p1_sems' = sem_wait(p1_sems, s, t) /\ to \in P1_Positions
        /\ from \notin P1_Busy /\ to \notin P1_Busy /\ from # "unborn"
        /\ s \in P1_Sems /\ s # "itemAvail" /\ <<t, to, s>> \in P1_At
        /\ p1_i' = p1_i /\ p1_ch' = p1_ch /\ p1_ring' = p1_ring
    BY <1>4, <2>1, P1_SemNames DEF p1_wait, P1_Busy, P1_Positions, p1_locals, p1_memory, P1_At
  <2>3. /\ P1_Step(t, from, to) /\ p1_pc'[P1_Main] # "open"
        /\ p1_pc'[P1_Consumer] = p1_pc[P1_Consumer]
        /\ P1_Num(P1_Busy)' = P1_Num(P1_Busy)
    BY <1>2, <1>3, <2>2
  <2>4. p1_sems'["itemAvail"] = p1_sems["itemAvail"]
    BY <1>1, <2>2, <2>3, P1_Waits, P1_SemNames
  <2> QED BY <2>2, <2>3, <2>4, P1_Kept, P1_Quietly
<1>5. ASSUME NEW from, NEW s, NEW to, p1_signal(t, from, s, to), UNCHANGED <<p1_ch, p1_memory>>,
             p1_i'[P1_Consumer] = p1_i[P1_Consumer], p1_i'[P1_Main] = p1_i[P1_Main],
             \/ from = "freeTail" /\ s = "mutTail" /\ to = "signalItem"
             \/ from = "signalItem" /\ s = "itemAvail" /\ to \in {"waitSpace", "tell"}
             \/ from = "tell" /\ s = "waitAll" /\ to = "done"
      PROVE  P1_ShowsNothing /\ p1_pc'[P1_Main] # "open"
  <2>1. /\ p1_goes(t, from, to) /\ p1_sems' = sem_signal(p1_sems, s) /\ to \in P1_Positions
        /\ from # "unborn" /\ s \in P1_Sems /\ p1_ch' = p1_ch /\ p1_ring' = p1_ring
    BY <1>5, P1_SemNames DEF p1_signal, P1_Positions, p1_memory
  <2>2. /\ P1_Step(t, from, to) /\ p1_pc'[P1_Main] # "open"
        /\ p1_pc'[P1_Consumer] = p1_pc[P1_Consumer]
        /\ P1_Num(P1_Busy)' = P1_Num(P1_Busy) - (IF s = "itemAvail" THEN 1 ELSE 0)
    <3>1. /\ (from \in P1_Busy) = (s # "waitAll") /\ (to \in P1_Busy) = (s = "mutTail")
      BY <1>5 DEF P1_Busy
    <3> QED BY <1>2, <1>3, <1>5, <2>1, <3>1
  <2>3. /\ p1_sems'[s].value = p1_sems[s].value + 1
        /\ \A r \in P1_Sems \ {s} : p1_sems'[r] = p1_sems[r]
    BY <1>1, <2>1, <2>2, P1_Signals
  <2>4. p1_held' = p1_held
    <3>1. CASE s # "itemAvail"
      <4>1. p1_sems'["itemAvail"] = p1_sems["itemAvail"]
        BY <2>3, <3>1, P1_SemNames
      <4>2. P1_Num(P1_Busy)' = P1_Num(P1_Busy)
        BY <1>3, <2>2, <3>1
      <4> QED BY <2>2, <4>1, <4>2, P1_Kept
    <3>2. CASE s = "itemAvail"
      <4> DEFINE v == p1_sems["itemAvail"].value
      <4> DEFINE v2 == p1_sems'["itemAvail"].value
      <4> DEFINE w == P1_In(P1_Consumer, P1_Waiting)
      <4>1. P1_In(P1_Consumer, P1_Waiting)' = w /\ w \in Nat
        BY <2>2 DEF P1_In
      <4>2. v2 = v + 1 /\ v \in Int /\ P1_Num(P1_Busy)' = P1_Num(P1_Busy) - 1
        BY <1>3, <2>2, <2>3, <3>2, P1_SemNames
      <4>3. p1_held = v + P1_Num(P1_Busy) + w
        BY P1_HeldIs
      <4>4. p1_held' = v2 + P1_Num(P1_Busy)' + w
        BY <4>1, P1_HeldThen
      <4> HIDE DEF v, v2, w
      <4> QED BY <1>3, <4>1, <4>2, <4>3, <4>4
    <3> QED BY <3>1, <3>2
  <2> QED BY <2>1, <2>2, <2>4, P1_Quietly
<1>6. CASE /\ p1_goes(t, "store", "moveTail") /\ p1_ring' = Stored(p1_ring, t)
           /\ UNCHANGED <<p1_locals, p1_sems, p1_counts, errorFlag>>
  <2>1. p1_i' = p1_i /\ p1_ch' = p1_ch /\ p1_sems' = p1_sems
    BY <1>6 DEF p1_locals
  <2>2. "moveTail" \in P1_Positions /\ "store" \notin P1_Busy /\ "moveTail" \in P1_Busy
    BY DEF P1_Positions, P1_Busy
  <2>3. /\ p1_pc[P1_Main] # "open" /\ p1_pc'[P1_Main] # "open"
        /\ p1_pc'[P1_Consumer] = p1_pc[P1_Consumer]
        /\ P1_Num(P1_Busy)' = P1_Num(P1_Busy) + 1
        /\ p1_pc[t] = "store" /\ ~IsBlocked(p1_sems, t)
    BY <1>2, <1>3, <1>6, <2>1, <2>2
  <2>4. PICK log \in Seq(P1_Producers) : P1_LogOK(log)
    BY DEF P1_Inv
  <2> DEFINE p == Len(log)
  <2>0. PICK taken \in BOOLEAN : taken = (p1_pc[P1_Consumer] = "moveHead")
    OBVIOUS
  <2>5. p \in Nat /\ P1_SemValues(p) /\ P1_Left \in Nat /\ taken \in BOOLEAN
    BY <2>3, <2>4, P1_Ints DEF P1_LogOK
  <2>6. /\ p1_held = p - P1_Taken /\ p1_held \in Nat
        /\ P1_Taken = P1_Left + One(taken)
    <3>1. /\ p1_held = p - P1_Taken /\ p1_held \in Nat
          /\ P1_Taken = P1_Left + One(p1_pc[P1_Consumer] = "moveHead")
      BY <2>3, <2>4, <2>5, P1_HeldItems
    <3>2. One(p1_pc[P1_Consumer] = "moveHead") = One(taken)
      BY <2>0 DEF One
    <3> QED BY <3>1, <3>2
  <2>7. P1_Halfway = 0
    BY <2>3, P1_AloneAtTail
  <2>8. RingHolds(p1_ring, P1_BUF_CAP, P1_Left, p, p, log)
    <3>1. RingHolds(p1_ring, P1_BUF_CAP, P1_Left, p - P1_Halfway, p, log)
      BY <2>4 DEF P1_LogOK, P1_RingOK
    <3>2. p - P1_Halfway = p
      BY <2>5, <2>7
    <3> QED BY <3>1, <3>2
  <2>9. p + 1 <= P1_Left + P1_BUF_CAP
    BY <2>3, <2>5, P1_RoomForOne
  <2> HIDE DEF p
  <2>10. p1_held + One(taken) = p - P1_Left
    <3>1. One(taken) \in Nat
      BY DEF One
    <3> QED BY <2>5, <2>6, <3>1
  <2> DEFINE n == p1_held
  <2>11. n \in Nat /\ n + One(taken) = p - P1_Left
    BY <2>6, <2>10
  <2> HIDE DEF n
  <2>12. /\ Len(Contents(p1_ring, P1_BUF_CAP, n, taken)) < P1_BUF_CAP
         /\ Contents(Stored(p1_ring, t), P1_BUF_CAP, n + 1, taken) =
                AddedTo(Contents(p1_ring, P1_BUF_CAP, n, taken), t)
    <3> DEFINE g == P1_Left
    <3>1. /\ P1_BUF_CAP \in Nat \ {0} /\ g \in Nat /\ p \in Nat /\ t \in Int /\ taken \in BOOLEAN
          /\ n \in Nat /\ n + One(taken) = p - g /\ p + 1 <= g + P1_BUF_CAP
          /\ RingHolds(p1_ring, P1_BUF_CAP, g, p, p, log)
      BY <1>1, <2>5, <2>8, <2>9, <2>11
    <3> HIDE DEF g
    <3> DEFINE n2 == n + 1
    <3>2. n2 \in Nat /\ n2 = n + 1
      BY <3>1
    <3> HIDE DEF n2
    <3>3. /\ Len(Contents(p1_ring, P1_BUF_CAP, n, taken)) < P1_BUF_CAP
          /\ Contents(Stored(p1_ring, t), P1_BUF_CAP, n2, taken) =
                 AddedTo(Contents(p1_ring, P1_BUF_CAP, n, taken), t)
      BY <3>1, <3>2, ContentsStored
    <3> QED BY <3>3 DEF n2
  <2>13. p1_held' = n + 1
    <3> DEFINE v == p1_sems["itemAvail"].value
    <3> DEFINE w == P1_In(P1_Consumer, P1_Waiting)
    <3>1. P1_In(P1_Consumer, P1_Waiting)' = w /\ w \in Nat /\ v \in Int
      BY <1>3, <2>3, P1_SemNames DEF P1_In
    <3>2. p1_held = v + P1_Num(P1_Busy) + w
      BY P1_HeldIs
    <3>3. p1_held' = v + P1_Num(P1_Busy)' + w
      BY <2>1, <3>1, P1_HeldThen
    <3> HIDE DEF v, w
    <3> QED BY <1>3, <2>3, <3>1, <3>2, <3>3 DEF n
  <2>15. /\ p1_contents = Contents(p1_ring, P1_BUF_CAP, n, taken)
         /\ p1_contents' = Contents(Stored(p1_ring, t), P1_BUF_CAP, n + 1, taken)
    BY <1>6, <2>0, <2>3, <2>13 DEF p1_contents, n, Contents
  <2> QED BY <2>1, <2>3, <2>12, <2>15 DEF P1_Puts, AddedTo
<1>7. CASE /\ p1_goes(t, "moveTail", "freeTail") /\ p1_ring' = TailMoved(p1_ring, P1_BUF_CAP)
           /\ UNCHANGED <<p1_locals, p1_sems, p1_counts, errorFlag>>
  <2>1. p1_i' = p1_i /\ p1_ch' = p1_ch /\ p1_sems' = p1_sems
    BY <1>7 DEF p1_locals
  <2>2. "freeTail" \in P1_Positions /\ "moveTail" \in P1_Busy /\ "freeTail" \in P1_Busy
    BY DEF P1_Positions, P1_Busy
  <2>3. /\ p1_pc'[P1_Main] # "open" /\ p1_pc'[P1_Consumer] = p1_pc[P1_Consumer]
        /\ P1_Num(P1_Busy)' = P1_Num(P1_Busy)
    BY <1>2, <1>3, <1>7, <2>1, <2>2
  <2>4. p1_held' = p1_held
    BY <2>1, <2>3, P1_Kept
  <2>5. p1_ring \in Rings(P1_BUF_CAP)
    BY DEF P1_Inv, P1_TypeOK
  <2>6. p1_ring'.buf = p1_ring.buf /\ p1_ring'.head = p1_ring.head
    BY <1>1, <1>7, <2>5, RingParts DEF TailMoved
  <2>7. p1_contents' = p1_contents
    BY <2>3, <2>4, <2>6 DEF p1_contents, Contents
  <2> QED BY <2>1, <2>3, <2>7 DEF P1_ShowsNothing
<1>8. CASE /\ p1_signal(t, "freeTail", "mutTail", "signalItem")
           /\ UNCHANGED <<p1_locals, p1_memory>>
  BY <1>5, <1>8 DEF p1_locals
<1>9. CASE /\ p1_signal(t, "signalItem", "itemAvail", after)
           /\ p1_counted(t) /\ UNCHANGED <<p1_ch, p1_memory>>
  <2>1. after \in {"waitSpace", "tell"}
    BY DEF p1_round
  <2>2. p1_i'[P1_Consumer] = p1_i[P1_Consumer] /\ p1_i'[P1_Main] = p1_i[P1_Main]
    BY <1>1, <1>9, P1_Names DEF p1_counted, P1_Inv, P1_TypeOK
  <2> HIDE DEF after
  <2> QED BY <1>5, <1>9, <2>1, <2>2
<1>10. CASE p1_tell(t)
  BY <1>5, <1>10 DEF p1_tell, p1_locals
<1> QED BY <1>4, <1>6, <1>7, <1>8, <1>9, <1>10 DEF p1_producer, p1_bufPut

LEMMA P1_ConsumerShows ==
    ASSUME P1_Inv, p1_consumer
    PROVE  (P1_Gets \/ P1_ShowsNothing) /\ p1_pc'[P1_Main] # "open"
<1> DEFINE t == P1_Consumer
<1> DEFINE after == p1_round(t, P1_NUM_PRODUCERS * P1_ITEMS_PER_PRODUCER, "waitItem", "tell")
<1>1. t \in P1_Threads /\ t # P1_Main /\ P1_BUF_CAP \in Nat \ {0}
  BY P1_Names
<1>2. ASSUME NEW from, NEW to \in P1_Positions, p1_goes(t, from, to), from # "unborn",
             p1_i'[P1_Main] = p1_i[P1_Main]
      PROVE  /\ P1_Step(t, from, to) /\ p1_pc[P1_Main] # "open" /\ p1_pc'[P1_Main] # "open"
             /\ P1_Num(P1_Busy)' = P1_Num(P1_Busy)
             /\ p1_pc[t] = from /\ p1_pc'[t] = to
  <2>1. P1_Step(t, from, to) /\ p1_pc[P1_Main] # "open"
    BY <1>1, <1>2, P1_Goes
  <2>2. (\A L : P1_Num(L)' = P1_Num(L)) /\ p1_pc'[P1_Main] = p1_pc[P1_Main]
    BY <1>2, <2>1, P1_ConsumerMoves
  <2> QED BY <2>1, <2>2 DEF P1_Step
<1>3. P1_Num(P1_Busy) \in Nat /\ \A s \in P1_Sems : p1_sems[s].value \in Int
  BY P1_Names, CountBounds, P1_SemsAre DEF P1_Num
<1>4. CASE p1_wait(t, "waitItem", "itemAvail", "waitHead") /\ UNCHANGED <<p1_locals, p1_memory>>
  <2>1. /\ p1_goes(t, "waitItem", "waitHead") /\ p1_sems' = sem_wait(p1_sems, "itemAvail", t)
        /\ "waitHead" \in P1_Positions /\ <<t, "waitHead", "itemAvail">> \in P1_At
        /\ p1_i' = p1_i /\ p1_ch' = p1_ch /\ p1_ring' = p1_ring
    BY <1>4 DEF p1_wait, P1_Positions, p1_locals, p1_memory, P1_At
  <2>2. /\ P1_Step(t, "waitItem", "waitHead") /\ p1_pc'[P1_Main] # "open"
        /\ P1_Num(P1_Busy)' = P1_Num(P1_Busy)
        /\ p1_pc[t] = "waitItem" /\ p1_pc'[t] = "waitHead"
    BY <1>2, <2>1
  <2>3. p1_sems'["itemAvail"].value = p1_sems["itemAvail"].value - 1
    BY <1>1, <2>1, <2>2, P1_Waits, P1_SemNames
  <2>4. p1_held' = p1_held
    <3> DEFINE v == p1_sems["itemAvail"].value
    <3> DEFINE v2 == p1_sems'["itemAvail"].value
    <3>1. P1_In(P1_Consumer, P1_Waiting)' = 1 /\ P1_In(P1_Consumer, P1_Waiting) = 0
      BY <2>2 DEF P1_In, P1_Waiting
    <3>2. p1_held = v + P1_Num(P1_Busy) + 0
      BY <3>1, P1_HeldIs
    <3>3. p1_held' = v2 + P1_Num(P1_Busy) + 1
      BY <2>2, <3>1, P1_HeldThen
    <3>4. v \in Int /\ v2 = v - 1
      BY <1>3, <2>3, P1_SemNames
    <3> HIDE DEF v, v2
    <3> QED BY <1>3, <3>2, <3>3, <3>4
  <2> QED BY <2>1, <2>2, <2>4, P1_Quietly
<1>5. CASE p1_wait(t, "waitHead", "mutHead", "take") /\ UNCHANGED <<p1_locals, p1_memory>>
  <2>1. /\ p1_goes(t, "waitHead", "take") /\ p1_sems' = sem_wait(p1_sems, "mutHead", t)
        /\ "take" \in P1_Positions /\ <<t, "take", "mutHead">> \in P1_At
        /\ p1_i' = p1_i /\ p1_ch' = p1_ch /\ p1_ring' = p1_ring
    BY <1>5 DEF p1_wait, P1_Positions, p1_locals, p1_memory, P1_At
  <2>2. /\ P1_Step(t, "waitHead", "take") /\ p1_pc'[P1_Main] # "open"
        /\ P1_Num(P1_Busy)' = P1_Num(P1_Busy)
        /\ p1_pc[t] = "waitHead" /\ p1_pc'[t] = "take"
    BY <1>2, <2>1
  <2>3. p1_sems'["itemAvail"] = p1_sems["itemAvail"]
    BY <1>1, <2>1, <2>2, P1_Waits, P1_SemNames
  <2>4. p1_pc'[P1_Consumer] \in P1_Waiting /\ p1_pc[P1_Consumer] \in P1_Waiting
    BY <2>2 DEF P1_Waiting
  <2> QED BY <2>1, <2>2, <2>3, <2>4, P1_Kept, P1_Quietly
<1>6. ASSUME NEW from, NEW s, NEW to, p1_signal(t, from, s, to), UNCHANGED <<p1_locals, p1_memory>>,
             \/ from = "freeHead" /\ s = "mutHead" /\ to = "signalSpace"
             \/ from = "signalSpace" /\ s = "spaceAvail" /\ to = "count"
             \/ from = "tell" /\ s = "waitAll" /\ to = "done"
      PROVE  P1_ShowsNothing /\ p1_pc'[P1_Main] # "open"
  <2>1. /\ p1_goes(t, from, to) /\ p1_sems' = sem_signal(p1_sems, s) /\ to \in P1_Positions
        /\ from # "unborn" /\ s \in P1_Sems /\ s # "itemAvail"
        /\ from \notin P1_Waiting /\ to \notin P1_Waiting /\ from # "moveHead" /\ to # "moveHead"
        /\ p1_i' = p1_i /\ p1_ch' = p1_ch /\ p1_ring' = p1_ring
    BY <1>6, P1_SemNames DEF p1_signal, P1_Positions, p1_locals, p1_memory, P1_Waiting
  <2>2. /\ P1_Step(t, from, to) /\ p1_pc'[P1_Main] # "open"
        /\ P1_Num(P1_Busy)' = P1_Num(P1_Busy)
        /\ p1_pc[t] = from /\ p1_pc'[t] = to
    BY <1>2, <2>1
  <2>3. p1_sems'["itemAvail"] = p1_sems["itemAvail"]
    BY <1>1, <2>1, <2>2, P1_Signals, P1_SemNames
  <2> QED BY <2>1, <2>2, <2>3, P1_Kept, P1_Quietly
<1>7. CASE /\ p1_goes(t, "take", "moveHead") /\ p1_ch' = Oldest(p1_ring)
           /\ UNCHANGED <<p1_i, p1_sems, p1_memory>>
  <2>1. p1_i' = p1_i /\ p1_sems' = p1_sems /\ p1_ring' = p1_ring /\ "moveHead" \in P1_Positions
    BY <1>7 DEF p1_memory, P1_Positions
  <2>2. /\ p1_pc[P1_Main] # "open" /\ p1_pc'[P1_Main] # "open"
        /\ P1_Num(P1_Busy)' = P1_Num(P1_Busy)
        /\ p1_pc[t] = "take" /\ p1_pc'[t] = "moveHead"
    BY <1>2, <1>7, <2>1
  <2>3. PICK log \in Seq(P1_Producers) : P1_LogOK(log)
    BY DEF P1_Inv
  <2> DEFINE p == Len(log)
  <2>4. p \in Nat /\ P1_SemValues(p) /\ P1_Left \in Nat /\ P1_Taken \in Nat
    BY <2>2, <2>3, P1_Ints DEF P1_LogOK
  <2>5. /\ p1_held = p - P1_Taken /\ p1_held \in Nat /\ p <= P1_Left + P1_BUF_CAP
        /\ P1_Taken = P1_Left + One(p1_pc[P1_Consumer] = "moveHead")
    BY <2>2, <2>3, <2>4, P1_HeldItems
  <2>6. p1_i[t] + 1 <= p - P1_Halfway
    BY <2>2, <2>4, P1_ItemIsThere
  <2>7. /\ P1_Taken = P1_Left /\ P1_Taken = p1_i[t] + 0
        /\ P1_Halfway \in Nat /\ p1_i[t] \in Nat
    BY <2>2, <2>4, <2>5, P1_Ints DEF P1_Taken, P1_Left, P1_In, P1_Holding
  <2> DEFINE n == p1_held - 1
  <2> HIDE DEF p
  <2>8. n \in Nat /\ n + 1 = p1_held /\ n + 1 <= P1_BUF_CAP
    BY <1>1, <2>4, <2>5, <2>6, <2>7
  <2>9. p1_held' = n
    <3> DEFINE v == p1_sems["itemAvail"].value
    <3>1. P1_In(P1_Consumer, P1_Waiting) = 1 /\ P1_In(P1_Consumer, P1_Waiting)' = 0
      BY <2>2 DEF P1_In, P1_Waiting
    <3>2. p1_held = v + P1_Num(P1_Busy) + 1
      BY <3>1, P1_HeldIs
    <3>3. p1_held' = v + P1_Num(P1_Busy) + 0
      BY <2>1, <2>2, <3>1, P1_HeldThen
    <3>4. v \in Int
      BY <1>3, P1_SemNames
    <3> HIDE DEF v
    <3> QED BY <1>3, <3>2, <3>3, <3>4
  <2>10. p1_ring \in Rings(P1_BUF_CAP)
    BY DEF P1_Inv, P1_TypeOK
  <2> HIDE DEF n
  <2>11. /\ Contents(p1_ring, P1_BUF_CAP, n + 1, FALSE) # <<>>
         /\ Oldest(p1_ring) = Head(Contents(p1_ring, P1_BUF_CAP, n + 1, FALSE))
         /\ Contents(p1_ring, P1_BUF_CAP, n, TRUE) =
                Tail(Contents(p1_ring, P1_BUF_CAP, n + 1, FALSE))
    BY <1>1, <2>8, <2>10, ContentsTaken
  <2>12. /\ p1_contents = Contents(p1_ring, P1_BUF_CAP, n + 1, FALSE)
         /\ p1_contents' = Contents(p1_ring, P1_BUF_CAP, n, TRUE)
    BY <2>1, <2>2, <2>8, <2>9 DEF p1_contents, Contents
  <2> QED BY <1>7, <2>2, <2>11, <2>12 DEF P1_Gets
<1>8. CASE /\ p1_goes(t, "moveHead", "freeHead")
           /\ p1_ring' = HeadMoved(p1_ring, P1_BUF_CAP)
           /\ UNCHANGED <<p1_locals, p1_sems, p1_counts, errorFlag>>
  <2>1. p1_i' = p1_i /\ p1_ch' = p1_ch /\ p1_sems' = p1_sems /\ "freeHead" \in P1_Positions
    BY <1>8 DEF p1_locals, P1_Positions
  <2>2. /\ p1_pc'[P1_Main] # "open" /\ P1_Num(P1_Busy)' = P1_Num(P1_Busy)
        /\ p1_pc[t] = "moveHead" /\ p1_pc'[t] = "freeHead"
    BY <1>2, <1>8, <2>1
  <2>3. p1_pc'[P1_Consumer] \notin P1_Waiting /\ p1_pc[P1_Consumer] \notin P1_Waiting
    BY <2>2 DEF P1_Waiting
  <2>4. p1_held' = p1_held
    BY <2>1, <2>2, <2>3, P1_Kept
  <2>5. p1_ring \in Rings(P1_BUF_CAP)
    BY DEF P1_Inv, P1_TypeOK
  <2>6. p1_ring'.buf = p1_ring.buf /\ p1_ring'.head = Following(p1_ring.head, P1_BUF_CAP)
    BY <1>1, <1>8, <2>5, RingParts DEF HeadMoved
  <2>7. p1_contents' = p1_contents
    BY <2>2, <2>4, <2>6 DEF p1_contents, Contents
  <2> QED BY <2>1, <2>2, <2>7 DEF P1_ShowsNothing
<1>9. CASE /\ p1_goes(t, "count", after) /\ p1_counted(t)
           /\ UNCHANGED <<p1_ch, p1_sems, p1_ring, errorFlag>>
  <2>1. after \in {"waitItem", "tell"} /\ after \in P1_Positions
    BY DEF p1_round, P1_Positions
  <2>2. p1_i'[P1_Main] = p1_i[P1_Main]
    BY <1>1, <1>9, P1_Names DEF p1_counted, P1_Inv, P1_TypeOK
  <2> HIDE DEF after
  <2>3. /\ p1_pc'[P1_Main] # "open" /\ P1_Num(P1_Busy)' = P1_Num(P1_Busy)
        /\ p1_pc[t] = "count" /\ p1_pc'[t] = after
    BY <1>2, <1>9, <2>1, <2>2
  <2>4. p1_pc'[P1_Consumer] \notin P1_Waiting /\ p1_pc[P1_Consumer] \notin P1_Waiting
    BY <2>1, <2>3 DEF P1_Waiting
  <2>5. p1_held' = p1_held
    BY <1>9, <2>3, <2>4, P1_Kept
  <2> QED BY <1>9, <2>1, <2>3, <2>5, P1_Quietly
<1>10. CASE p1_tell(t)
  BY <1>6, <1>10 DEF p1_tell
<1>11. CASE /\ \/ p1_signal(t, "freeHead", "mutHead", "signalSpace")
               \/ p1_signal(t, "signalSpace", "spaceAvail", "count")
            /\ UNCHANGED <<p1_locals, p1_memory>>
  BY <1>6, <1>11
<1> QED BY <1>4, <1>5, <1>7, <1>8, <1>9, <1>10, <1>11 DEF p1_consumer, p1_bufGet

LEMMA P1_MainShows ==
    ASSUME P1_Inv, P1_Early, runPhase1
    PROVE  P1_ShowsNothing /\ p1_pc'[P1_Main] # "open"
<1> DEFINE N == P1_NUM_PRODUCERS
<1>1. /\ P1_Main \in P1_Threads /\ P1_Consumer \in P1_Threads /\ P1_Main # P1_Consumer
      /\ P1_Main \notin P1_Producers /\ P1_Producers \subseteq P1_Threads
      /\ p1_pc \in [P1_Threads -> P1_Positions]
      /\ DOMAIN p1_sems = P1_Sems /\ "itemAvail" \in P1_Sems
  BY P1_Names, P1_SemsAre, P1_SemNames DEF P1_Inv, P1_TypeOK, SemsOK
<1>2. ASSUME NEW to, p1_pc' = [p1_pc EXCEPT ![P1_Main] = to], to # "open",
             p1_sems'["itemAvail"].value = p1_sems["itemAvail"].value,
             p1_ring' = p1_ring, p1_ch' = p1_ch
      PROVE  P1_ShowsNothing /\ p1_pc'[P1_Main] # "open"
  <2>1. /\ p1_pc'[P1_Main] = to /\ p1_pc'[P1_Consumer] = p1_pc[P1_Consumer]
        /\ \A u \in P1_Producers : p1_pc'[u] = p1_pc[u]
    BY <1>1, <1>2
  <2>2. P1_Num(P1_Busy)' = P1_Num(P1_Busy)
    <3>1. {u \in P1_Producers : p1_pc'[u] \in P1_Busy} = {u \in P1_Producers : p1_pc[u] \in P1_Busy}
      BY <2>1
    <3> QED BY <3>1 DEF P1_Num, CountIn
  <2> QED BY <1>2, <2>1, <2>2, P1_Kept, P1_Quietly
<1>3. CASE p1_open
  <2>1. /\ p1_pc' = [p1_pc EXCEPT ![P1_Main] = "create"] /\ p1_pc[P1_Main] = "open"
        /\ p1_sems'["itemAvail"].value = 0 /\ p1_ring' = p1_ring /\ p1_ch' = p1_ch
    BY <1>3 DEF p1_open, p1_goes, sem_open, p1_locals, p1_memory
  <2>2. p1_sems["itemAvail"].value = 0
    BY <2>1 DEF P1_Early
  <2> QED BY <1>2, <2>1, <2>2
<1>4. CASE p1_create
  <2> DEFINE t == IF p1_i[P1_Main] = 0 THEN P1_Consumer ELSE p1_i[P1_Main]
  <2> DEFINE first == IF p1_i[P1_Main] = 0 THEN "waitItem" ELSE "waitSpace"
  <2> DEFINE to == p1_round(P1_Main, N + 1, "create", "await")
  <2>1. /\ p1_pc' = [p1_pc EXCEPT ![P1_Main] = to, ![t] = first]
        /\ p1_pc[P1_Main] = "create" /\ to \in {"create", "await"}
        /\ p1_sems' = p1_sems /\ p1_ring' = p1_ring /\ p1_ch' = p1_ch
    BY <1>4 DEF p1_create, p1_round, p1_memory
  <2>2. /\ t # P1_Main /\ first \in {"waitItem", "waitSpace"}
        /\ t \in P1_Producers => p1_pc[t] = "unborn"
        /\ t = P1_Consumer => p1_pc[t] = "unborn"
    <3>1. p1_i[P1_Main] \in 0..N /\ N \in Nat
      BY P1_Names DEF P1_Inv, P1_MainOK
    <3>2. CASE p1_i[P1_Main] = 0
      BY <1>1, <2>1, <3>2, P1_Names DEF P1_Inv, P1_ConsumerOK
    <3>3. CASE p1_i[P1_Main] # 0
      <4>1. /\ t = p1_i[P1_Main] /\ t \in P1_Producers /\ t >= p1_i[P1_Main]
            /\ first = "waitSpace"
        BY <3>1, <3>3 DEF P1_Producers
      <4> QED BY <1>1, <2>1, <4>1, P1_Names DEF P1_Inv, P1_ProducerOK
    <3> QED BY <3>2, <3>3
  <2> HIDE DEF t, first, to
  <2>3. /\ p1_pc'[P1_Main] = to
        /\ \A u \in P1_Threads \ {P1_Main} : p1_pc'[u] = IF u = t THEN first ELSE p1_pc[u]
    BY <1>1, <2>1, <2>2
  <2>4. P1_Num(P1_Busy)' = P1_Num(P1_Busy)
    <3>1. ASSUME NEW u \in P1_Producers PROVE p1_pc'[u] \in P1_Busy <=> p1_pc[u] \in P1_Busy
      BY <1>1, <2>2, <2>3 DEF P1_Busy
    <3>2. {u \in P1_Producers : p1_pc'[u] \in P1_Busy} = {u \in P1_Producers : p1_pc[u] \in P1_Busy}
      BY <3>1
    <3> QED BY <3>2 DEF P1_Num, CountIn
  <2>5. /\ p1_pc'[P1_Consumer] \in P1_Waiting <=> p1_pc[P1_Consumer] \in P1_Waiting
        /\ p1_pc'[P1_Consumer] = "moveHead" <=> p1_pc[P1_Consumer] = "moveHead"
    BY <1>1, <2>2, <2>3 DEF P1_Waiting
  <2> QED BY <2>1, <2>3, <2>4, <2>5, P1_Kept, P1_Quietly
<1>5. CASE p1_await
  <2> DEFINE to == p1_round(P1_Main, N + 1, "await", "check")
  <2>1. /\ p1_goes(P1_Main, "await", to) /\ to \in {"await", "check"}
        /\ p1_sems' = sem_wait(p1_sems, "waitAll", P1_Main) /\ p1_ring' = p1_ring /\ p1_ch' = p1_ch
        /\ to \in P1_Positions /\ <<P1_Main, to, "waitAll">> \in P1_At
    BY <1>5 DEF p1_await, p1_wait, p1_round, p1_memory, P1_Positions, P1_At
  <2> HIDE DEF to
  <2>2. P1_Step(P1_Main, "await", to)
    BY <1>1, <2>1, P1_Goes
  <2>3. p1_sems'["itemAvail"] = p1_sems["itemAvail"]
    BY <1>1, <2>1, <2>2, P1_Waits, P1_SemNames
  <2> QED BY <1>2, <2>1, <2>3 DEF p1_goes
<1>6. CASE p1_check
  <2>1. PICK to \in {"check", "close"} : p1_pc' = [p1_pc EXCEPT ![P1_Main] = to]
    BY <1>6 DEF p1_check, p1_goes, p1_round
  <2>2. p1_sems' = p1_sems /\ p1_ring' = p1_ring /\ p1_ch' = p1_ch
    BY <1>6 DEF p1_check
  <2> QED BY <1>2, <2>1, <2>2
<1>7. CASE p1_close
  <2>1. /\ p1_pc' = [p1_pc EXCEPT ![P1_Main] = "returned"]
        /\ p1_sems' = sem_close(p1_sems) /\ p1_ring' = p1_ring /\ p1_ch' = p1_ch
    BY <1>7 DEF p1_close, p1_goes, p1_locals, p1_memory
  <2>2. p1_sems'["itemAvail"].value = p1_sems["itemAvail"].value
    <3>1. p1_sems["itemAvail"] \in [value : Int, blocked : Seq(P1_Threads)]
      BY <1>1, P1_SemsAre DEF SemsOK, SemOK
    <3>2. p1_sems'["itemAvail"] = [p1_sems["itemAvail"] EXCEPT !.blocked = <<>>]
      BY <1>1, <2>1 DEF sem_close
    <3> QED BY <3>1, <3>2
  <2> QED BY <1>2, <2>1, <2>2
<1> QED BY <1>3, <1>4, <1>5, <1>6, <1>7 DEF runPhase1

LEMMA P1_EarlyInit == P1_Init => P1_Early /\ p1_contents = <<>> /\ p1_ch = 0
<1> SUFFICES ASSUME P1_Init PROVE P1_Early /\ p1_contents = <<>> /\ p1_ch = 0
  OBVIOUS
<1>1. /\ \A u \in P1_Producers : p1_pc[u] \notin P1_Busy
      /\ p1_pc[P1_Consumer] \notin P1_Waiting
      /\ p1_sems["itemAvail"].value = 0
  BY P1_Names, P1_SemNames DEF P1_Init, P1_Busy, P1_Waiting, sem_open
<1>2. P1_Num(P1_Busy) = 0
  BY <1>1, P1_Names, CountBounds DEF P1_Num
<1>3. P1_In(P1_Consumer, P1_Waiting) = 0
  BY <1>1 DEF P1_In
<1>4. p1_held = 0
  BY <1>1, <1>2, <1>3, P1_HeldIs
<1>5. p1_contents = <<>>
  BY <1>4, ContentsNone DEF p1_contents
<1> QED BY <1>1, <1>5 DEF P1_Early, P1_Init

LEMMA P1_EarlyNext ==
    ASSUME P1_Inv, P1_Early, P1_Next
    PROVE  /\ (\E v \in P1_Producers : P1_Puts(v)) \/ P1_Gets \/ P1_ShowsNothing
           /\ P1_Early'
BY P1_MainShows, P1_ConsumerShows, P1_ProducerShows DEF P1_Next, P1_Early

LEMMA P1_EarlyUnchanged ==
    ASSUME P1_Early, UNCHANGED p1_vars
    PROVE  P1_ShowsNothing /\ P1_Early'
<1>1. UNCHANGED <<p1_pc, p1_i, p1_ch, p1_sems, p1_ring, p1_counts>>
  BY DEF p1_vars, p1_locals
<1> QED BY <1>1 DEF P1_ShowsNothing, P1_Early, p1_contents, p1_held, Contents, One

=============================================================================
