----------------------------- MODULE QueueLemmas -----------------------------
(***************************************************************************)
(* What the operations on queues do to the set of their elements (Range)   *)
(* and to the absence of duplicates (IsInjective).                         *)
(***************************************************************************)
EXTENDS Integers, Sequences, Functions, SequenceTheorems,
        WellFoundedInduction, SleepingQueue, TLAPS

\* Putting an element at the end (List::addLast) adds that element only, and no
\* duplicate if it was not there.
LEMMA LastPut ==
    ASSUME NEW S, NEW q \in Seq(S), NEW t \in S
    PROVE  /\ Append(q, t) \in Seq(S)
           /\ Range(Append(q, t)) = Range(q) \union {t}
           /\ IsInjective(q) /\ t \notin Range(q) => IsInjective(Append(q, t))
<1> DEFINE r == Append(q, t)
<1>1. /\ r \in Seq(S)
      /\ DOMAIN q = 1..Len(q)
      /\ DOMAIN r = 1..(Len(q) + 1)
      /\ \A i \in 1..Len(q) : r[i] = q[i]
      /\ r[Len(q) + 1] = t
      /\ Len(q) \in Nat
  OBVIOUS
<1> HIDE DEF r
<1>2. Range(r) \subseteq Range(q) \union {t}
  BY <1>1 DEF Range
<1>3. Range(q) \union {t} \subseteq Range(r)
  <2>1. \A i \in 1..Len(q) : i \in 1..(Len(q) + 1)
    BY <1>1
  <2>2. Len(q) + 1 \in 1..(Len(q) + 1)
    BY <1>1
  <2> QED BY <1>1, <2>1, <2>2 DEF Range
<1>4. ASSUME IsInjective(q), t \notin Range(q) PROVE IsInjective(r)
  BY <1>1, <1>4 DEF Range, IsInjective
<1> QED BY <1>1, <1>2, <1>3, <1>4 DEF r

\* Taking the first element (List::removeFirst) takes that element only.
LEMMA FirstTaken ==
    ASSUME NEW S, NEW q \in Seq(S), q # <<>>
    PROVE  /\ Head(q) \in S
           /\ Tail(q) \in Seq(S)
           /\ Range(q) = Range(Tail(q)) \union {Head(q)}
           /\ IsInjective(q) => IsInjective(Tail(q)) /\ Head(q) \notin Range(Tail(q))
<1> DEFINE r == Tail(q)
<1> DEFINE h == Head(q)
<1>1. /\ h \in S
      /\ r \in Seq(S)
      /\ DOMAIN q = 1..Len(q)
      /\ DOMAIN r = 1..(Len(q) - 1)
      /\ \A i \in 1..(Len(q) - 1) : r[i] = q[i+1]
      /\ h = q[1]
      /\ Len(q) \in Nat
      /\ Len(q) >= 1
  OBVIOUS
<1> HIDE DEF r, h
<1>2. \A i \in 1..(Len(q) - 1) : i + 1 \in 1..Len(q)
  BY <1>1
<1>3. Range(r) \union {h} \subseteq Range(q)
  BY <1>1, <1>2 DEF Range
<1>4. Range(q) \subseteq Range(r) \union {h}
  <2>1. SUFFICES ASSUME NEW i \in 1..Len(q), i # 1 PROVE q[i] \in Range(r)
    BY <1>1 DEF Range
  <2>2. i - 1 \in 1..(Len(q) - 1) /\ r[i-1] = q[i]
    BY <1>1, <2>1
  <2> QED BY <1>1, <2>2 DEF Range
<1>5. ASSUME IsInjective(q) PROVE IsInjective(r) /\ h \notin Range(r)
  <2>1. \A i \in 1..(Len(q) - 1) : r[i] # h
    <3>1. TAKE i \in 1..(Len(q) - 1)
    <3>2. 1 \in DOMAIN q /\ i + 1 \in DOMAIN q /\ i + 1 # 1
      BY <1>1, <1>2
    <3>3. q[i+1] # q[1]
      BY <1>5, <3>2 DEF IsInjective
    <3> QED BY <1>1, <3>3
  <2>2. \A i, j \in 1..(Len(q) - 1) : r[i] = r[j] => i = j
    <3>1. SUFFICES ASSUME NEW i \in 1..(Len(q) - 1), NEW j \in 1..(Len(q) - 1), r[i] = r[j]
                   PROVE  i = j
      OBVIOUS
    <3>2. q[i+1] = q[j+1] /\ i + 1 \in DOMAIN q /\ j + 1 \in DOMAIN q
      BY <1>1, <1>2, <3>1
    <3>3. i + 1 = j + 1
      BY <1>5, <3>2 DEF IsInjective
    <3> QED BY <3>3
  <2>3. IsInjective(r)
    BY <1>1, <2>2 DEF IsInjective
  <2>4. h \notin Range(r)
    BY <1>1, <2>1 DEF Range
  <2> QED BY <2>3, <2>4
<1> QED BY <1>1, <1>3, <1>4, <1>5 DEF r, h

\* Putting all elements of r behind those of q.
LEMMA AllPut ==
    ASSUME NEW S, NEW q \in Seq(S), NEW r \in Seq(S)
    PROVE  /\ q \o r \in Seq(S)
           /\ Range(q \o r) = Range(q) \union Range(r)
           /\ IsInjective(q) /\ IsInjective(r) /\ Range(q) \intersect Range(r) = {}
                => IsInjective(q \o r)
<1> DEFINE c == q \o r
<1>1. /\ c \in Seq(S)
      /\ DOMAIN q = 1..Len(q)
      /\ DOMAIN r = 1..Len(r)
      /\ DOMAIN c = 1..(Len(q) + Len(r))
      /\ \A i \in 1..Len(q) : c[i] = q[i]
      /\ \A i \in 1..Len(r) : c[Len(q) + i] = r[i]
      /\ \A i \in 1..(Len(q) + Len(r)) : c[i] = IF i <= Len(q) THEN q[i] ELSE r[i - Len(q)]
      /\ Len(q) \in Nat
      /\ Len(r) \in Nat
  OBVIOUS
<1> HIDE DEF c
<1>2. /\ \A i \in 1..Len(q) : i \in 1..(Len(q) + Len(r))
      /\ \A i \in 1..Len(r) : Len(q) + i \in 1..(Len(q) + Len(r))
      /\ \A i \in 1..(Len(q) + Len(r)) : i > Len(q) => i - Len(q) \in 1..Len(r)
      /\ \A i \in 1..(Len(q) + Len(r)) : i <= Len(q) => i \in 1..Len(q)
      /\ \A i \in 1..(Len(q) + Len(r)) : i <= Len(q) \/ i > Len(q)
  BY <1>1
<1>3. Range(c) = Range(q) \union Range(r)
  BY RangeConcatenation DEF c
<1>5. ASSUME IsInjective(q), IsInjective(r), Range(q) \intersect Range(r) = {}
      PROVE  IsInjective(c)
  <2>1. \A i \in 1..Len(q), j \in 1..Len(r) : q[i] # r[j]
    BY <1>1, <1>5 DEF Range
  <2>2. SUFFICES ASSUME NEW i \in 1..(Len(q) + Len(r)), NEW j \in 1..(Len(q) + Len(r)),
                        c[i] = c[j]
                 PROVE  i = j
    BY <1>1 DEF IsInjective
  <2>3. CASE i <= Len(q) /\ j <= Len(q)
    BY <1>1, <1>2, <1>5, <2>2, <2>3 DEF IsInjective
  <2>4. CASE i > Len(q) /\ j > Len(q)
    <3>1. r[i - Len(q)] = r[j - Len(q)]
      BY <1>1, <2>2, <2>4
    <3>2. i - Len(q) \in DOMAIN r /\ j - Len(q) \in DOMAIN r
      BY <1>1, <1>2, <2>4
    <3>3. i - Len(q) = j - Len(q)
      BY <1>5, <3>1, <3>2 DEF IsInjective
    <3> QED BY <1>1, <3>3
  <2>5. CASE i <= Len(q) /\ j > Len(q)
    BY <1>1, <1>2, <2>1, <2>2, <2>5
  <2>6. CASE i > Len(q) /\ j <= Len(q)
    BY <1>1, <1>2, <2>1, <2>2, <2>6
  <2> QED BY <1>2, <2>3, <2>4, <2>5, <2>6
<1> QED BY <1>1, <1>3, <1>5 DEF c

\* A queue cut behind its first n elements.
LEMMA Cut ==
    ASSUME NEW S, NEW q \in Seq(S), NEW n \in 0..Len(q)
    PROVE  /\ SubSeq(q, 1, n) \in Seq(S)
           /\ SubSeq(q, n + 1, Len(q)) \in Seq(S)
           /\ SubSeq(q, 1, n) \o SubSeq(q, n + 1, Len(q)) = q
           /\ Range(q) = Range(SubSeq(q, 1, n)) \union Range(SubSeq(q, n + 1, Len(q)))
           /\ IsInjective(q) =>
                 /\ IsInjective(SubSeq(q, 1, n))
                 /\ IsInjective(SubSeq(q, n + 1, Len(q)))
                 /\ Range(SubSeq(q, 1, n)) \intersect Range(SubSeq(q, n + 1, Len(q))) = {}
<1> DEFINE a == SubSeq(q, 1, n)
<1> DEFINE b == SubSeq(q, n + 1, Len(q))
<1>1. /\ a \in Seq(S)
      /\ b \in Seq(S)
      /\ DOMAIN q = 1..Len(q)
      /\ DOMAIN a = 1..n
      /\ Len(a) = n
      /\ \A i \in 1..n : a[i] = q[i]
      /\ Len(q) \in Nat
      /\ n \in Nat
      /\ n <= Len(q)
  OBVIOUS
<1>2. /\ Len(b) = Len(q) - n
      /\ DOMAIN b = 1..(Len(q) - n)
      /\ \A i \in 1..(Len(q) - n) : b[i] = q[n+i]
  OBVIOUS
<1>3. a \o b = q
  <2>1. a \o b = SubSeq(q, 1, Len(q))
    <3>1. 1 \in 1..(Len(q) + 1) /\ n \in (1 - 1)..Len(q) /\ Len(q) \in n..Len(q)
      BY <1>1
    <3> QED BY <3>1, ConcatAdjacentSubSeq
  <2> QED BY <2>1, SubSeqFull
<1> HIDE DEF a, b
<1>4. Range(q) = Range(a) \union Range(b)
  <2>1. Range(a \o b) = Range(a) \union Range(b)
    BY <1>1, RangeConcatenation
  <2> QED BY <2>1, <1>3
<1>5. /\ \A i \in 1..n : i \in 1..Len(q)
      /\ \A i \in 1..(Len(q) - n) : n + i \in 1..Len(q) /\ n + i > n
  BY <1>1
<1>6. ASSUME IsInjective(q)
      PROVE  IsInjective(a) /\ IsInjective(b) /\ Range(a) \intersect Range(b) = {}
  <2>1. IsInjective(a)
    BY <1>1, <1>5, <1>6 DEF IsInjective
  <2>2. IsInjective(b)
    <3>1. SUFFICES ASSUME NEW i \in 1..(Len(q) - n), NEW j \in 1..(Len(q) - n), b[i] = b[j]
                   PROVE  i = j
      BY <1>2 DEF IsInjective
    <3>2. n + i \in DOMAIN q /\ n + j \in DOMAIN q /\ q[n+i] = q[n+j]
      BY <1>1, <1>2, <1>5, <3>1
    <3>3. n + i = n + j
      BY <1>6, <3>2 DEF IsInjective
    <3> QED BY <1>1, <3>3
  <2>3. \A i \in 1..n, j \in 1..(Len(q) - n) : a[i] # b[j]
    <3>1. TAKE i \in 1..n, j \in 1..(Len(q) - n)
    <3>2. i \in DOMAIN q /\ n + j \in DOMAIN q /\ i # n + j
      BY <1>1, <1>5
    <3>3. q[i] # q[n+j]
      BY <1>6, <3>2 DEF IsInjective
    <3> QED BY <1>1, <1>2, <3>3
  <2>4. Range(a) \intersect Range(b) = {}
    BY <1>1, <1>2, <2>3 DEF Range
  <2> QED BY <2>1, <2>2, <2>4
<1> QED BY <1>1, <1>3, <1>4, <1>6 DEF a, b

\* Cutting off the first element is taking it.
LEMMA CutFirst ==
    ASSUME NEW S, NEW q \in Seq(S), q # <<>>
    PROVE  /\ 1 \in 0..Len(q)
           /\ SubSeq(q, 1, 1) = <<Head(q)>>
           /\ SubSeq(q, 1 + 1, Len(q)) = Tail(q)
           /\ Len(q) > 0
           /\ Len(Tail(q)) = Len(q) - 1
<1>1. Len(q) \in Nat /\ Len(q) > 0 /\ Len(Tail(q)) = Len(q) - 1 /\ Head(q) = q[1]
  OBVIOUS
<1>2. SubSeq(q, 2, Len(q)) = Tail(q)
  BY TailIsSubSeq
<1>3. SubSeq(q, 1, 1) = <<q[1]>>
  <2> DEFINE r == SubSeq(q, 1, 1)
  <2>1. r \in Seq(S) /\ Len(r) = 1 /\ r[1] = q[1]
    BY <1>1
  <2>2. q[1] \in S
    BY <1>1
  <2> HIDE DEF r
  <2>3. r = <<q[1]>>
    BY <2>1, <2>2
  <2> QED BY <2>3 DEF r
<1> QED BY <1>1, <1>2, <1>3

-----------------------------------------------------------------------------
\* The same for the list of sleeping threads, through its sequence of threads.

Entries(T) == [tcb : T, delta : Int]

LEMMA SleeperSeqType ==
    ASSUME NEW T, NEW q \in Seq(Entries(T))
    PROVE  /\ SleeperSeq(q) \in Seq(T)
           /\ Len(SleeperSeq(q)) = Len(q)
           /\ \A i \in 1..Len(q) : SleeperSeq(q)[i] = q[i].tcb
<1>1. \A i \in 1..Len(q) : q[i] \in Entries(T)
  BY ElementOfSeq
<1>2. \A i \in 1..Len(q) : q[i].tcb \in T
  BY <1>1 DEF Entries
<1>3. Len(q) \in Nat
  BY LenProperties
<1>4. SleeperSeq(q) \in Seq(T)
  BY <1>2, <1>3, IsASeq DEF SleeperSeq
<1> QED BY <1>3, <1>4 DEF SleeperSeq

\* Lowering the first delta moves no thread.
LEMMA LoweredSleepers ==
    ASSUME NEW T, NEW q \in Seq(Entries(T)), NEW n \in Int
    PROVE  /\ LowerFirst(q, n) \in Seq(Entries(T))
           /\ Len(LowerFirst(q, n)) = Len(q)
           /\ SleeperSeq(LowerFirst(q, n)) = SleeperSeq(q)
<1>1. CASE q = <<>>
  BY <1>1 DEF LowerFirst
<1>2. CASE q # <<>>
  <2> DEFINE e == [q[1] EXCEPT !.delta = @ - n]
  <2> DEFINE r == [q EXCEPT ![1] = e]
  <2>1. 1 \in 1..Len(q) /\ q[1] \in Entries(T)
    BY <1>2, EmptySeq, LenProperties, ElementOfSeq
  <2>2. e \in Entries(T) /\ e.tcb = q[1].tcb
    BY <2>1 DEF Entries
  <2>3. LowerFirst(q, n) = r
    BY <1>2 DEF LowerFirst
  <2> HIDE DEF e
  <2>4. /\ r \in Seq(Entries(T))
        /\ Len(r) = Len(q)
        /\ \A i \in 1..Len(q) : r[i] = IF i = 1 THEN e ELSE q[i]
    BY <2>1, <2>2, ExceptSeq
  <2>5. \A i \in 1..Len(q) : r[i].tcb = q[i].tcb
    BY <2>2, <2>4
  <2> HIDE DEF r
  <2>6. SleeperSeq(r) = SleeperSeq(q)
    BY <2>4, <2>5 DEF SleeperSeq
  <2> QED BY <2>3, <2>4, <2>6
<1> QED BY <1>1, <1>2

\* The list may be cut or put together before or after taking the threads.
LEMMA SleeperSeqCut ==
    ASSUME NEW T, NEW q \in Seq(Entries(T)), NEW n \in 0..Len(q)
    PROVE  /\ SleeperSeq(SubSeq(q, 1, n)) = SubSeq(SleeperSeq(q), 1, n)
           /\ SleeperSeq(SubSeq(q, n + 1, Len(q))) = SubSeq(SleeperSeq(q), n + 1, Len(q))
<1>1. Len(q) \in Nat /\ n \in Nat /\ n <= Len(q)
  BY LenProperties
<1>2. SleeperSeq(q) \in Seq(T) /\ Len(SleeperSeq(q)) = Len(q)
  BY SleeperSeqType
<1>3. SleeperSeq(SubSeq(q, 1, n)) = SubSeq(SleeperSeq(q), 1, n)
  BY <1>1, <1>2 DEF SleeperSeq
<1>4. SleeperSeq(SubSeq(q, n + 1, Len(q))) = SubSeq(SleeperSeq(q), n + 1, Len(q))
  BY <1>1, <1>2 DEF SleeperSeq
<1> QED BY <1>3, <1>4

LEMMA SleeperSeqConcat ==
    ASSUME NEW T, NEW q \in Seq(Entries(T)), NEW r \in Seq(Entries(T))
    PROVE  SleeperSeq(q \o r) = SleeperSeq(q) \o SleeperSeq(r)
<1> DEFINE a == SleeperSeq(q)
<1> DEFINE b == SleeperSeq(r)
<1> DEFINE c == SleeperSeq(q \o r)
<1>1. /\ q \o r \in Seq(Entries(T))
      /\ Len(q \o r) = Len(q) + Len(r)
      /\ \A i \in 1..(Len(q) + Len(r)) : (q \o r)[i] = IF i <= Len(q) THEN q[i] ELSE r[i - Len(q)]
  BY ConcatProperties
<1>2. /\ a \in Seq(T) /\ Len(a) = Len(q) /\ \A i \in 1..Len(q) : a[i] = q[i].tcb
      /\ b \in Seq(T) /\ Len(b) = Len(r) /\ \A i \in 1..Len(r) : b[i] = r[i].tcb
      /\ c \in Seq(T) /\ Len(c) = Len(q \o r)
      /\ \A i \in 1..Len(q \o r) : c[i] = (q \o r)[i].tcb
  BY <1>1, SleeperSeqType
<1>3. Len(q) \in Nat /\ Len(r) \in Nat
  BY LenProperties
<1> HIDE DEF a, b, c
<1>4. /\ a \o b \in Seq(T)
      /\ Len(a \o b) = Len(a) + Len(b)
      /\ \A i \in 1..(Len(a) + Len(b)) : (a \o b)[i] = IF i <= Len(a) THEN a[i] ELSE b[i - Len(a)]
  <2>1. a \in Seq(T) /\ b \in Seq(T)
    BY <1>2
  <2> QED BY <2>1, ConcatProperties
<1>5. ASSUME NEW i \in 1..(Len(q) + Len(r)) PROVE c[i] = (a \o b)[i]
  <2>1. c[i] = (q \o r)[i].tcb /\ (a \o b)[i] = IF i <= Len(q) THEN a[i] ELSE b[i - Len(q)]
    BY <1>1, <1>2, <1>4
  <2>2. CASE i <= Len(q)
    <3>1. i \in 1..Len(q)
      BY <1>3, <2>2
    <3> QED BY <1>1, <1>2, <2>1, <2>2, <3>1
  <2>3. CASE i > Len(q)
    <3>1. i - Len(q) \in 1..Len(r) /\ ~(i <= Len(q))
      BY <1>3, <2>3
    <3> QED BY <1>1, <1>2, <2>1, <2>3, <3>1
  <2>4. i <= Len(q) \/ i > Len(q)
    BY <1>3
  <2> QED BY <2>2, <2>3, <2>4
<1>6. Len(c) = Len(a \o b) /\ \A i \in 1..Len(c) : c[i] = (a \o b)[i]
  BY <1>1, <1>2, <1>4, <1>5
<1>7. c = a \o b
  BY <1>2, <1>4, <1>6, SeqEqual
<1> QED BY <1>7 DEF a, b, c

\* Induction over the natural numbers, for a set instead of a predicate.
LEMMA SetInduction ==
    ASSUME NEW T \in SUBSET Nat, 0 \in T, \A n \in T : n + 1 \in T
    PROVE  T = Nat
<1> DEFINE R == OpToRel(<, Nat)
<1>1. SUFFICES ASSUME T # Nat PROVE FALSE
  OBVIOUS
<1>2. Nat \ T \subseteq Nat /\ Nat \ T # {}
  BY <1>1
<1>3. IsWellFoundedOn(R, Nat)
  BY NatLessThanWellFounded
<1>h HIDE DEF R
<1>4. PICK x \in Nat \ T : \A y \in Nat \ T : ~(<<y, x>> \in R)
  BY <1>2, <1>3, WFMin
<1>5. x - 1 \in T
  <2>1. x # 0 BY <1>4
  <2>2. x - 1 \in Nat BY <2>1
  <2>3. <<x - 1, x>> \in R
    BY <2>2 DEF OpToRel, R
  <2> QED BY <1>4, <2>2, <2>3
<1>6. x \in T
  BY <1>4, <1>5
<1> QED BY <1>4, <1>6

\* Due is the sequence of the partial sums of the deltas.
LEMMA DueFunction ==
    ASSUME NEW q, NEW n \in Nat, Len(q) = n, \A i \in 1..n : q[i].delta \in Int
    PROVE  /\ Due(q) \in [0..n -> Int]
           /\ Due(q)[0] = 0
           /\ \A i \in 1..n : Due(q)[i] = Due(q)[i-1] + q[i].delta
<1> DEFINE Good(f, m) == /\ f \in [0..m -> Int] /\ f[0] = 0
                         /\ \A i \in 1..m : f[i] = f[i-1] + q[i].delta
<1> DEFINE T == {m \in Nat : m <= n => \E f : Good(f, m)}
<1>1. 0 \in T
  <2> DEFINE f == [i \in 0..0 |-> 0]
  <2>1. Good(f, 0) OBVIOUS
  <2> QED BY <2>1
<1>2. ASSUME NEW m \in T PROVE m + 1 \in T
  <2>1. SUFFICES ASSUME m + 1 <= n PROVE \E g : Good(g, m + 1)
    OBVIOUS
  <2>2. PICK f : Good(f, m)
    <3> HIDE DEF Good
    <3>1. m <= n
      BY <2>1
    <3> QED BY <3>1, Zenon
  <2> DEFINE g == [i \in 0..(m+1) |-> IF i <= m THEN f[i] ELSE f[m] + q[m+1].delta]
  <2>3. f[m] \in Int /\ q[m+1].delta \in Int /\ m \in Nat
    BY <2>1, <2>2
  <2>4. g \in [0..(m+1) -> Int]
    BY <2>2, <2>3
  <2>5. g[0] = 0
    BY <2>2, <2>3
  <2>6. ASSUME NEW i \in 1..(m+1) PROVE g[i] = g[i-1] + q[i].delta
    <3>1. CASE i <= m
      BY <2>2, <2>3, <3>1
    <3>2. CASE i = m + 1
      BY <2>2, <2>3, <3>2
    <3> QED BY <2>3, <3>1, <3>2
  <2> QED BY <2>4, <2>5, <2>6
<1> HIDE DEF T
<1>3. n \in T
  <2>1. T \in SUBSET Nat BY DEF T
  <2> QED BY <1>1, <1>2, <2>1, SetInduction
<1>4. PICK f : Good(f, n)
  <2> HIDE DEF Good
  <2>1. n <= n
    OBVIOUS
  <2> QED BY <1>3, <2>1, Zenon DEF T
<1> DEFINE due == CHOOSE d : d = [i \in 0..Len(q) |-> IF i = 0 THEN 0 ELSE d[i-1] + q[i].delta]
<1>5. f = [i \in 0..Len(q) |-> IF i = 0 THEN 0 ELSE f[i-1] + q[i].delta]
  BY <1>4
<1>6. due = [i \in 0..Len(q) |-> IF i = 0 THEN 0 ELSE due[i-1] + q[i].delta]
  BY <1>5
<1>7. Due(q) = due
  BY DEF Due
<1> HIDE DEF due
<1>8. due[0] = 0 /\ \A i \in 1..n : due[i] = due[i-1] + q[i].delta
  BY <1>6
<1>9. \A i \in 0..n : due[i] \in Int
  <2> DEFINE D == {m \in Nat : m <= n => due[m] \in Int}
  <2>1. 0 \in D BY <1>8
  <2>2. ASSUME NEW m \in D PROVE m + 1 \in D
    BY <1>8
  <2>3. D \in SUBSET Nat OBVIOUS
  <2> HIDE DEF D
  <2>4. D = Nat BY <2>1, <2>2, <2>3, SetInduction
  <2> QED BY <2>4 DEF D
<1>10. due \in [0..n -> Int]
  BY <1>6, <1>9
<1> QED BY <1>7, <1>8, <1>10

LEMMA DueIsInt ==
    ASSUME NEW T, NEW q \in Seq(Entries(T)), NEW pos \in 0..Len(q)
    PROVE  Due(q)[pos] \in Int
<1>1. Len(q) \in Nat
  BY LenProperties
<1>2. \A i \in 1..Len(q) : q[i] \in Entries(T)
  BY ElementOfSeq
<1>3. \A i \in 1..Len(q) : q[i].delta \in Int
  BY <1>2 DEF Entries
<1>4. Due(q) \in [0..Len(q) -> Int]
  BY <1>1, <1>3, DueFunction
<1> QED BY <1>4

\* Insertion adds the thread at one place and keeps the order of all others.
LEMMA InsertedSleeper ==
    ASSUME NEW T, NEW q \in Seq(Entries(T)), NEW t \in T, NEW ticks \in Int,
           NEW pos \in 0..Len(q)
    PROVE  /\ InsertSleeper(q, t, ticks, pos) \in Seq(Entries(T))
           /\ SleeperSeq(InsertSleeper(q, t, ticks, pos))
                = SubSeq(SleeperSeq(q), 1, pos) \o <<t>> \o SubSeq(SleeperSeq(q), pos + 1, Len(q))
<1> DEFINE n == ticks - Due(q)[pos]
<1> DEFINE a == SubSeq(q, 1, pos)
<1> DEFINE m == <<[tcb |-> t, delta |-> n]>>
<1> DEFINE b == SubSeq(q, pos + 1, Len(q))
<1> DEFINE l == LowerFirst(b, n)
<1>1. InsertSleeper(q, t, ticks, pos) = a \o m \o l
  BY DEF InsertSleeper
<1>2. n \in Int
  BY DueIsInt
<1> HIDE DEF n
<1>3. a \in Seq(Entries(T)) /\ b \in Seq(Entries(T))
  BY Cut
<1>4. m \in Seq(Entries(T)) /\ SleeperSeq(m) = <<t>>
  <2>1. [tcb |-> t, delta |-> n] \in Entries(T)
    BY <1>2 DEF Entries
  <2>2. m \in Seq(Entries(T))
    BY <2>1
  <2>3. Len(m) = 1 /\ m[1].tcb = t
    OBVIOUS
  <2> HIDE DEF m
  <2>4. SleeperSeq(m) \in Seq(T) /\ Len(SleeperSeq(m)) = 1 /\ SleeperSeq(m)[1] = t
    BY <2>2, <2>3, SleeperSeqType
  <2>5. SleeperSeq(m) = <<t>>
    BY <2>4
  <2> QED BY <2>2, <2>5
<1>5. SleeperSeq(a) = SubSeq(SleeperSeq(q), 1, pos)
  BY SleeperSeqCut
<1>6. SleeperSeq(b) = SubSeq(SleeperSeq(q), pos + 1, Len(q))
  BY SleeperSeqCut
<1> HIDE DEF a, b, m
<1>7. l \in Seq(Entries(T)) /\ SleeperSeq(l) = SleeperSeq(b)
  BY <1>2, <1>3, LoweredSleepers
<1> HIDE DEF l
<1>8. a \o m \in Seq(Entries(T)) /\ SleeperSeq(a \o m) = SleeperSeq(a) \o SleeperSeq(m)
  BY <1>3, <1>4, SleeperSeqConcat, ConcatProperties
<1>9. a \o m \o l \in Seq(Entries(T)) /\ SleeperSeq(a \o m \o l) = SleeperSeq(a \o m) \o SleeperSeq(l)
  BY <1>7, <1>8, SleeperSeqConcat, ConcatProperties
<1> QED BY <1>1, <1>4, <1>5, <1>6, <1>7, <1>8, <1>9

-----------------------------------------------------------------------------
\* The sums of the deltas under the operations on the list.

\* f holds the partial sums of the n deltas of q.
Sums(f, q, n) ==
    /\ Len(q) = n
    /\ f[0] = 0
    /\ \A i \in 1..n : q[i].delta \in Int /\ f[i] = f[i-1] + q[i].delta

\* Due is the only such function.
LEMMA DueIsTheSum ==
    ASSUME NEW q, NEW n \in Nat, NEW f, Sums(f, q, n)
    PROVE  \A i \in 0..n : Due(q)[i] = f[i]
<1> USE DEF Sums
<1> DEFINE D == {m \in Nat : m <= n => Due(q)[m] = f[m]}
<1>1. Due(q)[0] = 0 /\ \A i \in 1..n : Due(q)[i] = Due(q)[i-1] + q[i].delta
  BY DueFunction
<1>2. 0 \in D
  BY <1>1
<1>3. ASSUME NEW m \in D PROVE m + 1 \in D
  <2>1. m + 1 <= n => m + 1 \in 1..n /\ m <= n /\ (m + 1) - 1 = m
    OBVIOUS
  <2>2. m + 1 <= n => Due(q)[m+1] = f[m+1]
    BY <1>1, <2>1
  <2> QED BY <2>2
<1>4. D \in SUBSET Nat
  OBVIOUS
<1> HIDE DEF D
<1>5. D = Nat
  BY <1>2, <1>3, <1>4, SetInduction
<1> QED BY <1>5 DEF D

\* The entries of a list, and of what is left when its first delta is lowered.
LEMMA EntriesAre ==
    ASSUME NEW T, NEW q \in Seq(Entries(T))
    PROVE  /\ Len(q) \in Nat
           /\ \A i \in 1..Len(q) : q[i].tcb \in T /\ q[i].delta \in Int
<1>1. \A i \in 1..Len(q) : q[i] \in Entries(T)
  BY ElementOfSeq
<1>2. Len(q) \in Nat
  BY LenProperties
<1> QED BY <1>1, <1>2 DEF Entries

LEMMA LoweredEntries ==
    ASSUME NEW T, NEW q \in Seq(Entries(T)), NEW n \in Int
    PROVE  /\ LowerFirst(q, n) \in Seq(Entries(T))
           /\ Len(LowerFirst(q, n)) = Len(q)
           /\ \A i \in 1..Len(q) :
                 /\ LowerFirst(q, n)[i].tcb = q[i].tcb
                 /\ LowerFirst(q, n)[i].delta = IF i = 1 THEN q[i].delta - n ELSE q[i].delta
<1>1. LowerFirst(q, n) \in Seq(Entries(T)) /\ Len(LowerFirst(q, n)) = Len(q)
  BY LoweredSleepers
<1>2. CASE q = <<>>
  BY <1>1, <1>2
<1>3. CASE q # <<>>
  <2> DEFINE e == [q[1] EXCEPT !.delta = @ - n]
  <2>1. 1 \in 1..Len(q) /\ q[1] \in Entries(T)
    BY <1>3, EmptySeq, LenProperties, ElementOfSeq
  <2>2. e \in Entries(T) /\ e.tcb = q[1].tcb /\ e.delta = q[1].delta - n
    BY <2>1 DEF Entries
  <2>3. LowerFirst(q, n) = [q EXCEPT ![1] = e]
    BY <1>3 DEF LowerFirst
  <2> HIDE DEF e
  <2>4. \A i \in 1..Len(q) : [q EXCEPT ![1] = e][i] = IF i = 1 THEN e ELSE q[i]
    BY <2>1, <2>2, ExceptSeq
  <2> QED BY <1>1, <2>2, <2>3, <2>4
<1> QED BY <1>2, <1>3

\* The first delta lowered by one: so is every sum.
LEMMA LoweredDue ==
    ASSUME NEW T, NEW q \in Seq(Entries(T)), NEW i \in 1..Len(q)
    PROVE  Due(LowerFirst(q, 1))[i] = Due(q)[i] - 1
<1> DEFINE r == LowerFirst(q, 1)
<1> DEFINE n == Len(q)
<1> DEFINE f == [j \in 0..n |-> IF j = 0 THEN 0 ELSE Due(q)[j] - 1]
<1>1. /\ n \in Nat /\ Len(r) = n
      /\ \A j \in 1..n : /\ q[j].delta \in Int
                         /\ r[j].delta = IF j = 1 THEN q[j].delta - 1 ELSE q[j].delta
  BY EntriesAre, LoweredEntries
<1>2. /\ Due(q) \in [0..n -> Int]
      /\ Due(q)[0] = 0 /\ \A j \in 1..n : Due(q)[j] = Due(q)[j-1] + q[j].delta
  BY <1>1, DueFunction
<1> HIDE DEF r, n
<1>3. f[0] = 0 /\ \A j \in 1..n : f[j] = Due(q)[j] - 1
  BY <1>1
<1> HIDE DEF f
<1>4. ASSUME NEW j \in 1..n PROVE f[j] = f[j-1] + r[j].delta
  <2>1. /\ Due(q)[j - 1] \in Int /\ q[j].delta \in Int
        /\ Due(q)[j] = Due(q)[j - 1] + q[j].delta
        /\ f[j] = Due(q)[j] - 1
        /\ r[j].delta = IF j = 1 THEN q[j].delta - 1 ELSE q[j].delta
    <3>1. j - 1 \in 0..n
      BY <1>1
    <3> QED BY <1>1, <1>2, <1>3, <3>1
  <2>2. f[j - 1] = IF j = 1 THEN 0 ELSE Due(q)[j - 1] - 1
    <3>1. j # 1 => j - 1 \in 1..n
      BY <1>1
    <3>2. j = 1 => j - 1 = 0
      OBVIOUS
    <3> QED BY <1>3, <3>1, <3>2
  <2>3. j = 1 => Due(q)[j - 1] = 0
    <3>1. j = 1 => j - 1 = 0
      OBVIOUS
    <3> QED BY <1>2, <3>1
  <2> QED BY <2>1, <2>2, <2>3
<1>5. \A j \in 1..n : r[j].delta \in Int
  BY <1>1
<1>6. \A j \in 0..n : Due(r)[j] = f[j]
  <2>1. Sums(f, r, n)
    BY <1>1, <1>3, <1>4, <1>5 DEF Sums
  <2> QED BY <1>1, <2>1, DueIsTheSum
<1>7. i \in 1..n /\ i \in 0..n
  BY DEF n
<1> QED BY <1>3, <1>6, <1>7 DEF r

\* Without its first n entries, whose deltas add up to nothing, a list keeps the
\* sums of the others.
LEMMA CutDue ==
    ASSUME NEW T, NEW q \in Seq(Entries(T)), NEW n \in 0..Len(q), Due(q)[n] = 0,
           NEW i \in 1..(Len(q) - n)
    PROVE  Due(SubSeq(q, n + 1, Len(q)))[i] = Due(q)[n + i]
<1> DEFINE r == SubSeq(q, n + 1, Len(q))
<1> DEFINE m == Len(q) - n
<1> DEFINE f == [j \in 0..m |-> Due(q)[n + j]]
<1>1. /\ Len(q) \in Nat /\ \A j \in 1..Len(q) : q[j].delta \in Int
      /\ m \in Nat /\ Len(r) = m /\ \A j \in 1..m : r[j] = q[n + j]
  BY EntriesAre
<1>2. Due(q) \in [0..Len(q) -> Int] /\ \A j \in 1..Len(q) : Due(q)[j] = Due(q)[j-1] + q[j].delta
  BY <1>1, DueFunction
<1>3. \A j \in 1..m : n + j \in 1..Len(q) /\ j - 1 \in 0..m /\ j \in 0..m /\ (n + j) - 1 = n + (j - 1)
  BY <1>1
<1>4. 0 \in 0..m /\ f[0] = 0
  BY <1>1
<1>5. \A j \in 1..m : f[j] = f[j-1] + r[j].delta /\ r[j].delta \in Int
  BY <1>1, <1>2, <1>3
<1>6. f[i] = Due(q)[n + i] /\ i \in 0..m
  BY <1>3
<1> HIDE DEF r, m, f
<1>7. \A j \in 0..m : Due(r)[j] = f[j]
  <2>1. Sums(f, r, m)
    BY <1>1, <1>4, <1>5 DEF Sums
  <2> QED BY <1>1, <2>1, DueIsTheSum
<1> QED BY <1>6, <1>7 DEF r

\* The entries after an insertion.
LEMMA InsertedEntries ==
    ASSUME NEW T, NEW q \in Seq(Entries(T)), NEW t \in T, NEW ticks \in Int,
           NEW pos \in 0..Len(q)
    PROVE  LET r == InsertSleeper(q, t, ticks, pos)
               d == ticks - Due(q)[pos]
           IN  /\ r \in Seq(Entries(T))
               /\ Len(r) = Len(q) + 1
               /\ \A i \in 1..pos : r[i] = q[i]
               /\ r[pos + 1].tcb = t /\ r[pos + 1].delta = d
               /\ \A i \in (pos + 1)..Len(q) :
                     /\ r[i + 1].tcb = q[i].tcb
                     /\ r[i + 1].delta = IF i = pos + 1 THEN q[i].delta - d ELSE q[i].delta
<1> DEFINE d == ticks - Due(q)[pos]
<1> DEFINE a == SubSeq(q, 1, pos)
<1> DEFINE m == <<[tcb |-> t, delta |-> d]>>
<1> DEFINE b == SubSeq(q, pos + 1, Len(q))
<1> DEFINE l == LowerFirst(b, d)
<1> DEFINE c == a \o m
<1> DEFINE r == c \o l
<1>1. InsertSleeper(q, t, ticks, pos) = r
  BY DEF InsertSleeper
<1>2. d \in Int /\ Len(q) \in Nat
  BY DueIsInt, EntriesAre
<1> HIDE DEF d
<1>3. /\ a \in Seq(Entries(T)) /\ b \in Seq(Entries(T))
      /\ Len(a) = pos /\ \A i \in 1..pos : a[i] = q[i]
      /\ Len(b) = Len(q) - pos /\ \A i \in 1..(Len(q) - pos) : b[i] = q[pos + i]
  <2>1. a \in Seq(Entries(T)) /\ b \in Seq(Entries(T))
    BY Cut
  <2> QED BY <1>2, <2>1
<1>4. /\ m \in Seq(Entries(T)) /\ Len(m) = 1 /\ m[1].tcb = t /\ m[1].delta = d
  <2>1. [tcb |-> t, delta |-> d] \in Entries(T)
    BY <1>2 DEF Entries
  <2> QED BY <2>1
<1> HIDE DEF a, m, b
<1>5. /\ l \in Seq(Entries(T)) /\ Len(l) = Len(b)
      /\ \A i \in 1..Len(b) : /\ l[i].tcb = b[i].tcb
                              /\ l[i].delta = IF i = 1 THEN b[i].delta - d ELSE b[i].delta
  BY <1>2, <1>3, LoweredEntries
<1> HIDE DEF l
<1>6. /\ c \in Seq(Entries(T)) /\ Len(c) = pos + 1
      /\ \A i \in 1..(pos + 1) : c[i] = IF i <= pos THEN a[i] ELSE m[i - pos]
  <2>1. /\ c \in Seq(Entries(T)) /\ Len(c) = Len(a) + Len(m)
        /\ \A i \in 1..(Len(a) + Len(m)) : c[i] = IF i <= Len(a) THEN a[i] ELSE m[i - Len(a)]
    BY <1>3, <1>4, ConcatProperties, ZenonT(60)
  <2> HIDE DEF c
  <2>2. Len(a) = pos /\ Len(m) = 1
    BY <1>3, <1>4
  <2> QED BY <2>1, <2>2
<1> HIDE DEF c
<1>7. /\ r \in Seq(Entries(T)) /\ Len(r) = (pos + 1) + Len(l)
      /\ \A i \in 1..((pos + 1) + Len(l)) : r[i] = IF i <= pos + 1 THEN c[i] ELSE l[i - (pos + 1)]
  <2>1. /\ r \in Seq(Entries(T)) /\ Len(r) = Len(c) + Len(l)
        /\ \A i \in 1..(Len(c) + Len(l)) : r[i] = IF i <= Len(c) THEN c[i] ELSE l[i - Len(c)]
    BY <1>5, <1>6, ConcatProperties
  <2> HIDE DEF r
  <2> QED BY <1>6, <2>1
<1> HIDE DEF r
<1>8. Len(r) = Len(q) + 1
  BY <1>2, <1>3, <1>5, <1>7
<1>9. \A i \in 1..pos : r[i] = q[i]
  <2>1. TAKE i \in 1..pos
  <2>2. i \in 1..(pos + 1) /\ i \in 1..((pos + 1) + Len(l)) /\ i <= pos /\ i <= pos + 1
    BY <1>2, <1>3, <1>5
  <2> QED BY <1>3, <1>6, <1>7, <2>2
<1>10. r[pos + 1] = m[1]
  <2>1. pos + 1 \in 1..(pos + 1) /\ pos + 1 \in 1..((pos + 1) + Len(l)) /\ ~(pos + 1 <= pos)
        /\ (pos + 1) - pos = 1
    BY <1>2, <1>3, <1>5
  <2> QED BY <1>6, <1>7, <2>1
<1>11. ASSUME NEW i \in (pos + 1)..Len(q)
       PROVE  /\ r[i + 1].tcb = q[i].tcb
              /\ r[i + 1].delta = IF i = pos + 1 THEN q[i].delta - d ELSE q[i].delta
  <2> DEFINE j == i - pos
  <2>1. j \in 1..Len(b) /\ pos + j = i /\ (j = 1 <=> i = pos + 1)
    BY <1>2, <1>3
  <2>2. i + 1 \in 1..((pos + 1) + Len(l)) /\ ~(i + 1 <= pos + 1) /\ (i + 1) - (pos + 1) = j
    BY <1>2, <1>3, <1>5
  <2>3. r[i + 1] = l[j]
    BY <1>7, <2>2
  <2>4. b[j] = q[i]
    BY <1>3, <2>1
  <2> HIDE DEF j
  <2> QED BY <1>5, <2>1, <2>3, <2>4
<1> QED BY <1>1, <1>4, <1>7, <1>8, <1>9, <1>10, <1>11 DEF d

\* The new entry is due after its own ticks, the others as before.
LEMMA InsertedDue ==
    ASSUME NEW T, NEW q \in Seq(Entries(T)), NEW t \in T, NEW ticks \in Int,
           NEW pos \in 0..Len(q)
    PROVE  LET r == InsertSleeper(q, t, ticks, pos)
           IN  /\ \A i \in 1..pos : Due(r)[i] = Due(q)[i]
               /\ Due(r)[pos + 1] = ticks
               /\ \A i \in (pos + 1)..Len(q) : Due(r)[i + 1] = Due(q)[i]
<1> DEFINE r == InsertSleeper(q, t, ticks, pos)
<1> DEFINE d == ticks - Due(q)[pos]
<1> DEFINE n == Len(q)
<1> DEFINE f == [i \in 0..(n + 1) |-> IF i <= pos THEN Due(q)[i]
                                      ELSE IF i = pos + 1 THEN ticks ELSE Due(q)[i - 1]]
<1>1. /\ n \in Nat /\ \A j \in 1..n : q[j].delta \in Int
  BY EntriesAre
<1>2. /\ Due(q) \in [0..n -> Int] /\ Due(q)[0] = 0
      /\ \A j \in 1..n : Due(q)[j] = Due(q)[j-1] + q[j].delta
  BY <1>1, DueFunction
<1>3. /\ r \in Seq(Entries(T))
      /\ Len(r) = n + 1
      /\ \A i \in 1..pos : r[i] = q[i]
      /\ r[pos + 1].delta = d
      /\ \A i \in (pos + 1)..n : r[i + 1].delta = IF i = pos + 1 THEN q[i].delta - d ELSE q[i].delta
  BY InsertedEntries
<1>4. d \in Int /\ d = ticks - Due(q)[pos] /\ Due(q)[pos] \in Int
  BY <1>1, <1>2
<1>5. /\ f[0] = 0
      /\ \A i \in 1..pos : f[i] = Due(q)[i] /\ f[i - 1] = Due(q)[i - 1]
      /\ f[pos] = Due(q)[pos] /\ f[pos + 1] = ticks
      /\ \A i \in (pos + 1)..n : f[i + 1] = Due(q)[i]
  BY <1>1, <1>2
<1>6. \A i \in 1..(n + 1) : r[i].delta \in Int
  BY <1>3, EntriesAre
<1> HIDE DEF r, d, f, n
<1>7. ASSUME NEW i \in 1..(n + 1) PROVE f[i] = f[i - 1] + r[i].delta
  <2>1. CASE i <= pos
    <3>1. i \in 1..pos /\ i \in 1..n
      BY <1>1, <2>1 DEF n
    <3> QED BY <1>2, <1>3, <1>5, <3>1
  <2>2. CASE i = pos + 1
    BY <1>3, <1>4, <1>5, <2>2
  <2>3. CASE i = pos + 2
    <3>1. pos + 1 \in (pos + 1)..n /\ pos + 1 \in 1..n /\ i = (pos + 1) + 1 /\ i - 1 = pos + 1
          /\ (pos + 1) - 1 = pos
      BY <1>1, <2>3
    <3>2. /\ f[i] = Due(q)[pos + 1]
          /\ f[i - 1] = ticks
          /\ r[i].delta = q[pos + 1].delta - d
          /\ Due(q)[pos + 1] = Due(q)[pos] + q[pos + 1].delta
          /\ q[pos + 1].delta \in Int
      <4>1. f[i] = Due(q)[pos + 1] /\ f[i - 1] = ticks
        BY <1>5, <3>1
      <4>2. r[i].delta = q[pos + 1].delta - d
        BY <1>3, <3>1
      <4>3. Due(q)[pos + 1] = Due(q)[pos] + q[pos + 1].delta /\ q[pos + 1].delta \in Int
        BY <1>1, <1>2, <3>1
      <4> QED BY <4>1, <4>2, <4>3
    <3>3. ticks + (q[pos + 1].delta - d) = Due(q)[pos] + q[pos + 1].delta
      BY <1>4, <3>2
    <3> QED BY <3>2, <3>3
  <2>4. CASE i > pos + 2
    <3> DEFINE j == i - 1
    <3>1. j \in (pos + 1)..n /\ j - 1 \in (pos + 1)..n /\ j \in 1..n /\ i = j + 1
          /\ j = (j - 1) + 1 /\ j # pos + 1
      BY <1>1, <2>4
    <3>2. f[i] = Due(q)[j] /\ f[j] = Due(q)[j - 1] /\ r[i].delta = q[j].delta
      <4> HIDE DEF j
      <4>1. f[j + 1] = Due(q)[j] /\ r[j + 1].delta = q[j].delta
        BY <1>3, <1>5, <3>1
      <4>2. f[(j - 1) + 1] = Due(q)[j - 1]
        BY <1>5, <3>1
      <4> QED BY <3>1, <4>1, <4>2
    <3>3. Due(q)[j] = Due(q)[j - 1] + q[j].delta
      BY <1>2, <3>1
    <3> QED BY <3>2, <3>3
  <2>5. i <= pos \/ i = pos + 1 \/ i = pos + 2 \/ i > pos + 2
    BY <1>1
  <2> QED BY <2>1, <2>2, <2>3, <2>4, <2>5
<1>8. n + 1 \in Nat /\ Len(r) = n + 1
  BY <1>1, <1>3
<1>9. \A i \in 0..(n + 1) : Due(r)[i] = f[i]
  <2> DEFINE k == n + 1
  <2>1. k \in Nat /\ Len(r) = k /\ (\A i \in 1..k : r[i].delta \in Int)
        /\ \A i \in 1..k : f[i] = f[i - 1] + r[i].delta
    BY <1>6, <1>7, <1>8
  <2> HIDE DEF k
  <2>2. \A i \in 0..k : Due(r)[i] = f[i]
    <3>1. Sums(f, r, k)
      BY <1>5, <2>1 DEF Sums
    <3> QED BY <2>1, <3>1, DueIsTheSum
  <2> QED BY <2>2 DEF k
<1>10. \A i \in 1..pos : Due(r)[i] = Due(q)[i]
  BY <1>1, <1>5, <1>9 DEF n
<1>11. Due(r)[pos + 1] = ticks
  BY <1>1, <1>5, <1>9 DEF n
<1>12. \A i \in (pos + 1)..n : Due(r)[i + 1] = Due(q)[i]
  BY <1>1, <1>5, <1>9 DEF n
<1> QED BY <1>10, <1>11, <1>12 DEF r, n

\* Nobody sleeps for no time: the first delta is positive, and none is negative.
Positive(q) == \A i \in 1..Len(q) : q[i].delta >= IF i = 1 THEN 1 ELSE 0

\* put() keeps the list so, because the walk stops at the right entry.
LEMMA InsertedPositive ==
    ASSUME NEW T, NEW q \in Seq(Entries(T)), NEW t \in T, NEW ticks \in Int,
           NEW pos \in 0..Len(q), Positive(q), ticks > 0, WalkStopsAt(q, ticks, pos)
    PROVE  Positive(InsertSleeper(q, t, ticks, pos))
<1> DEFINE r == InsertSleeper(q, t, ticks, pos)
<1> DEFINE d == ticks - Due(q)[pos]
<1> DEFINE n == Len(q)
<1>1. /\ n \in Nat /\ \A j \in 1..n : q[j].delta \in Int
      /\ \A j \in 1..n : q[j].delta >= IF j = 1 THEN 1 ELSE 0
  BY EntriesAre DEF Positive
<1>2. /\ Due(q) \in [0..n -> Int] /\ Due(q)[0] = 0
      /\ \A j \in 1..n : Due(q)[j] = Due(q)[j-1] + q[j].delta
  BY <1>1, DueFunction
<1>3. /\ Len(r) = n + 1
      /\ \A i \in 1..pos : r[i] = q[i]
      /\ r[pos + 1].delta = d
      /\ \A i \in (pos + 1)..n : r[i + 1].delta = IF i = pos + 1 THEN q[i].delta - d ELSE q[i].delta
  BY InsertedEntries
<1>4. /\ d \in Int /\ d >= 0 /\ (pos = 0 => d >= 1)
      /\ pos < n => q[pos + 1].delta - d > 0
  <2>1. Due(q)[pos] \in Int /\ (pos = 0 => Due(q)[pos] = 0)
    BY <1>1, <1>2
  <2>2. pos # 0 => Due(q)[pos] <= ticks
    BY <1>1 DEF WalkStopsAt
  <2>3. pos < n => ticks < Due(q)[pos + 1] /\ Due(q)[pos + 1] = Due(q)[pos] + q[pos + 1].delta
                   /\ q[pos + 1].delta \in Int
    <3>1. pos < n => pos + 1 \in 1..n /\ (pos + 1) - 1 = pos
      BY <1>1
    <3> QED BY <1>1, <1>2, <3>1 DEF WalkStopsAt
  <2> QED BY <2>1, <2>2, <2>3
<1> HIDE DEF r, d
<1>5. ASSUME NEW i \in 1..(n + 1) PROVE r[i].delta >= IF i = 1 THEN 1 ELSE 0
  <2>1. CASE i \in 1..pos
    <3>1. i \in 1..n
      BY <1>1, <2>1
    <3> QED BY <1>1, <1>3, <2>1, <3>1
  <2>2. CASE i = pos + 1
    BY <1>3, <1>4, <2>2
  <2>3. CASE i - 1 \in (pos + 1)..n
    <3> DEFINE j == i - 1
    <3>1. j \in (pos + 1)..n /\ j \in 1..n /\ i # 1 /\ i = j + 1
      BY <1>1, <2>3
    <3> HIDE DEF j
    <3>2. r[i].delta = IF j = pos + 1 THEN q[j].delta - d ELSE q[j].delta
      BY <1>3, <3>1
    <3>3. q[j].delta >= 0
      BY <1>1, <3>1
    <3>4. j = pos + 1 => q[j].delta - d > 0
      BY <1>4, <3>1
    <3> QED BY <1>1, <1>4, <3>1, <3>2, <3>3, <3>4
  <2>4. i \in 1..pos \/ i = pos + 1 \/ i - 1 \in (pos + 1)..n
    BY <1>1
  <2> QED BY <2>1, <2>2, <2>3, <2>4
<1> QED BY <1>3, <1>5 DEF Positive, r

\* decrement() wakes those that had one tick left and no others.
LEMMA WokenAreDue ==
    ASSUME NEW T, NEW q \in Seq(Entries(T)), NEW n \in 0..Len(q), Positive(q),
           WakesExactly(LowerFirst(q, 1), n)
    PROVE  LET l == LowerFirst(q, 1)
           IN  /\ Due(l)[n] = 0
               /\ \A i \in 1..n : Due(q)[i] = 1
               /\ \A i \in (n + 1)..Len(q) : Due(q)[i] > 1
               /\ Positive(SubSeq(l, n + 1, Len(l)))
<1> DEFINE l == LowerFirst(q, 1)
<1> DEFINE m == Len(q)
<1>1. /\ m \in Nat /\ l \in Seq(Entries(T)) /\ Len(l) = m
      /\ \A j \in 1..m : /\ q[j].delta \in Int
                         /\ q[j].delta >= IF j = 1 THEN 1 ELSE 0
                         /\ l[j].delta = IF j = 1 THEN q[j].delta - 1 ELSE q[j].delta
  BY EntriesAre, LoweredEntries DEF Positive
<1>2. \A i \in 1..m : Due(l)[i] = Due(q)[i] - 1
  BY LoweredDue
<1>3. Due(q) \in [0..m -> Int]
  BY <1>1, DueFunction
<1> HIDE DEF l, m
<1>4. \A j \in 1..m : l[j].delta \in Int /\ l[j].delta >= 0
  BY <1>1
<1>5. /\ Due(l) \in [0..m -> Int]
      /\ Due(l)[0] = 0
      /\ \A j \in 1..m : Due(l)[j] = Due(l)[j-1] + l[j].delta
  BY <1>1, <1>4, DueFunction
<1>6. /\ \A i \in 1..n : l[i].delta = 0
      /\ n < m => l[n+1].delta > 0
      /\ n \in 0..m
  <2>1. (\A i \in 1..n : l[i].delta <= 0) /\ (n < m => l[n+1].delta > 0) /\ n \in 0..m
    BY <1>1 DEF WakesExactly, l, m
  <2>2. \A i \in 1..n : i \in 1..m
    BY <1>1, <2>1
  <2> QED BY <1>4, <2>1, <2>2
<1>7. \A i \in 0..n : Due(l)[i] = 0
  <2> DEFINE D == {k \in Nat : k <= n => Due(l)[k] = 0}
  <2>1. 0 \in D
    BY <1>5
  <2>2. ASSUME NEW k \in D PROVE k + 1 \in D
    <3>1. SUFFICES ASSUME k + 1 <= n PROVE Due(l)[k + 1] = 0
      OBVIOUS
    <3>2. k + 1 \in 1..m /\ k + 1 \in 1..n /\ (k + 1) - 1 = k /\ k <= n
      BY <1>1, <1>6, <3>1
    <3>3. Due(l)[k + 1] = Due(l)[k] + l[k + 1].delta /\ l[k + 1].delta = 0
      BY <1>5, <1>6, <3>2
    <3>4. Due(l)[k] = 0
      BY <3>2
    <3> QED BY <3>3, <3>4
  <2>3. D \in SUBSET Nat
    OBVIOUS
  <2> HIDE DEF D
  <2>4. D = Nat
    BY <2>1, <2>2, <2>3, SetInduction
  <2> QED BY <2>4 DEF D
<1>8. \A i \in (n + 1)..m : Due(l)[i] > 0
  <2> DEFINE D == {k \in Nat : (n + 1) + k <= m => Due(l)[(n + 1) + k] > 0}
  <2>1. 0 \in D
    <3>1. SUFFICES ASSUME n + 1 <= m PROVE Due(l)[n + 1] > 0
      BY <1>6
    <3>2. n + 1 \in 1..m /\ n < m /\ (n + 1) - 1 = n
      BY <1>1, <1>6, <3>1
    <3>3. Due(l)[n + 1] = Due(l)[n] + l[n + 1].delta /\ Due(l)[n] = 0
      BY <1>5, <1>7, <3>2
    <3> QED BY <1>4, <1>6, <3>2, <3>3
  <2>2. ASSUME NEW k \in D PROVE k + 1 \in D
    <3> DEFINE i == (n + 1) + k
    <3>1. SUFFICES ASSUME (n + 1) + (k + 1) <= m PROVE Due(l)[(n + 1) + (k + 1)] > 0
      OBVIOUS
    <3>2. k \in Nat /\ i \in 0..m /\ (n + 1) + (k + 1) = i + 1 /\ i + 1 \in 1..m /\ (i + 1) - 1 = i
      BY <1>1, <1>6, <3>1
    <3>3. Due(l)[i] > 0 /\ Due(l)[i] \in Int
      <4>1. i <= m
        BY <3>2
      <4>2. Due(l)[i] > 0
        BY <4>1
      <4> QED BY <1>5, <3>2, <4>2
    <3> HIDE DEF i
    <3>4. Due(l)[i + 1] = Due(l)[i] + l[i + 1].delta /\ l[i + 1].delta \in Int /\ l[i + 1].delta >= 0
      BY <1>4, <1>5, <3>2
    <3>5. Due(l)[i + 1] > 0
      BY <3>3, <3>4
    <3> QED BY <3>2, <3>5
  <2>3. D \in SUBSET Nat
    OBVIOUS
  <2> HIDE DEF D
  <2>4. D = Nat
    BY <2>1, <2>2, <2>3, SetInduction
  <2>5. TAKE i \in (n + 1)..m
  <2>6. i - (n + 1) \in Nat /\ (n + 1) + (i - (n + 1)) = i /\ i <= m
    BY <1>1, <1>6
  <2>7. i - (n + 1) \in D
    BY <2>4, <2>6
  <2> QED BY <2>6, <2>7 DEF D
<1>9. \A i \in 1..n : Due(q)[i] = 1
  <2>1. TAKE i \in 1..n
  <2>2. i \in 1..m /\ i \in 0..m /\ i \in 0..n
    BY <1>1, <1>6
  <2> QED BY <1>2, <1>3, <1>7, <2>2
<1>10. \A i \in (n + 1)..m : Due(q)[i] > 1
  <2>1. TAKE i \in (n + 1)..m
  <2>2. i \in 1..m /\ i \in 0..m
    BY <1>1, <1>6
  <2> QED BY <1>2, <1>3, <1>8, <2>2
<1>11. Positive(SubSeq(l, n + 1, m))
  <2> DEFINE r == SubSeq(l, n + 1, m)
  <2>1. Len(r) = m - n /\ \A i \in 1..(m - n) : r[i] = l[n + i]
    BY <1>1, <1>6
  <2> HIDE DEF r
  <2>2. ASSUME NEW i \in 1..(m - n) PROVE r[i].delta >= IF i = 1 THEN 1 ELSE 0
    <3>1. n + i \in 1..m /\ (i = 1 => n + i = n + 1 /\ n < m)
      BY <1>1, <1>6
    <3>2. r[i].delta = l[n + i].delta /\ l[n + i].delta \in Int /\ l[n + i].delta >= 0
      BY <1>4, <2>1, <3>1
    <3>3. i = 1 => l[n + i].delta > 0
      BY <1>6, <3>1
    <3> QED BY <3>2, <3>3
  <2> QED BY <2>1, <2>2 DEF Positive, r
<1> QED BY <1>1, <1>6, <1>7, <1>9, <1>10, <1>11 DEF l, m

=============================================================================
