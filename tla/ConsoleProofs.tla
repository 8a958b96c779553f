----------------------------- MODULE ConsoleProofs -----------------------------
(***************************************************************************)
(* Proofs about Console, for every set of threads and characters and every *)
(* capacity of the buffers.                                                *)
(***************************************************************************)
EXTENDS Console, QueueLemmas, SequenceTheorems, FiniteSetTheorems

-----------------------------------------------------------------------------
\* Arithmetic of a ring buffer: places counted modulo its size, and the sequence
\* of the elements it holds.

\* A ring of m places, of which the n from place h on are taken.

\* The count that the code computes from the place h of the first and the place
\* t behind the last one.
LEMMA RingCount ==
    ASSUME NEW m \in Nat \ {0}, NEW h \in 0..(m - 1), NEW t \in 0..(m - 1)
    PROVE  /\ ((t + m) - h) % m = IF h <= t THEN t - h ELSE t - h + m
           /\ (t + 1) % m = IF t + 1 = m THEN 0 ELSE t + 1
           /\ (h + 1) % m = IF h + 1 = m THEN 0 ELSE h + 1
<1>1. (t + m) - h \in 0..(2 * m - 1) /\ t + 1 \in 0..(2 * m - 1) /\ h + 1 \in 0..(2 * m - 1)
  OBVIOUS
<1>2. ((t + m) - h) % m = IF (t + m) - h < m THEN (t + m) - h ELSE (t + m) - h - m
  BY <1>1
<1>3. (t + 1) % m = IF t + 1 < m THEN t + 1 ELSE t + 1 - m
  BY <1>1
<1>4. (h + 1) % m = IF h + 1 < m THEN h + 1 ELSE h + 1 - m
  BY <1>1
<1> QED BY <1>2, <1>3, <1>4

\* The place after place i, and the number of places from h up to t.
After(i, m) == (i + 1) % m
Between(h, t, m) == ((t + m) - h) % m

\* A ring of elements of S.
Rings(m, S) == [0..(m - 1) -> S]

\* The i-th place from place h on, and the elements in n places from there.
Place(h, i, m) == (h + i - 1) % m
Held(f, h, n, m) == [i \in 1..n |-> f[Place(h, i, m)]]

LEMMA BetweenIs ==
    ASSUME NEW m \in Nat \ {0}, NEW h \in 0..(m - 1), NEW t \in 0..(m - 1)
    PROVE  /\ Between(h, t, m) = IF h <= t THEN t - h ELSE t - h + m
           /\ Between(h, t, m) \in 0..(m - 1)
           /\ After(t, m) = IF t + 1 = m THEN 0 ELSE t + 1
           /\ After(t, m) \in 0..(m - 1)
<1> DEFINE n == Between(h, t, m)
<1> DEFINE u == After(t, m)
<1>1. n = IF h <= t THEN t - h ELSE t - h + m
  <2> DEFINE k == (t + m) - h
  <2>1. k \in 0..(2 * m - 1)
    OBVIOUS
  <2>2. n = k % m
    BY DEF Between
  <2>3. k < m <=> ~(h <= t)
    OBVIOUS
  <2>4. k = t + m - h
    OBVIOUS
  <2> HIDE DEF k, n
  <2>5. k % m = IF k < m THEN k ELSE k - m
    BY <2>1
  <2> QED BY <2>2, <2>3, <2>4, <2>5
<1>2. u = IF t + 1 = m THEN 0 ELSE t + 1
  <2>1. (t + 1) % m = IF t + 1 = m THEN 0 ELSE t + 1
    BY RingCount
  <2> QED BY <2>1 DEF After
<1> HIDE DEF n, u
<1>3. n \in 0..(m - 1) /\ u \in 0..(m - 1)
  BY <1>1, <1>2
<1> QED BY <1>1, <1>2, <1>3 DEF n, u

LEMMA PlaceIs ==
    ASSUME NEW m \in Nat \ {0}, NEW h \in 0..(m - 1), NEW i \in 1..m
    PROVE  /\ Place(h, i, m) = IF h + i - 1 < m THEN h + i - 1 ELSE h + i - 1 - m
           /\ Place(h, i, m) \in 0..(m - 1)
<1> DEFINE k == h + i - 1
<1>1. k \in Nat /\ k < 2 * m
  OBVIOUS
<1> HIDE DEF k
<1>2. k % m = IF k < m THEN k ELSE k - m
  BY <1>1
<1>3. Place(h, i, m) = k % m
  BY DEF Place, k
<1>4. k % m \in 0..(m - 1)
  BY <1>1, <1>2
<1> QED BY <1>2, <1>3, <1>4 DEF k

\* Storing behind the last element and going on, with the first one at h.
LEMMA StoreMoves ==
    ASSUME NEW m \in Nat \ {0}, NEW h \in 0..(m - 1), NEW t \in 0..(m - 1)
    PROVE  /\ After(t, m) = h <=> Between(h, t, m) = m - 1
           /\ After(t, m) # h => /\ Between(h, After(t, m), m) = Between(h, t, m) + 1
                                 /\ Between(h, t, m) < m - 1
           /\ Place(h, Between(h, t, m) + 1, m) = t
<1> DEFINE u == After(t, m)
<1> DEFINE n == Between(h, t, m)
<1>1. /\ n = IF h <= t THEN t - h ELSE t - h + m
      /\ u = IF t + 1 = m THEN 0 ELSE t + 1
      /\ u \in 0..(m - 1)
      /\ n \in 0..(m - 1)
  BY BetweenIs
<1> HIDE DEF u, n
<1>2. Between(h, u, m) = IF h <= u THEN u - h ELSE u - h + m
  BY <1>1, BetweenIs
<1>3. u = h <=> n = m - 1
  BY <1>1
<1>4. u # h => Between(h, u, m) = n + 1 /\ n < m - 1
  BY <1>1, <1>2
<1>5. Place(h, n + 1, m) = t
  <2> DEFINE i == n + 1
  <2>1. i \in 1..m
    BY <1>1
  <2> HIDE DEF i
  <2>2. Place(h, i, m) = IF h + i - 1 < m THEN h + i - 1 ELSE h + i - 1 - m
    BY <2>1, PlaceIs
  <2> QED BY <1>1, <2>1, <2>2 DEF i
<1> QED BY <1>3, <1>4, <1>5 DEF u, n

\* Taking the first element and going on, with the last one before t.
LEMMA TakeMovesOn ==
    ASSUME NEW m \in Nat \ {0}, NEW h \in 0..(m - 1), NEW t \in 0..(m - 1),
           Between(h, t, m) > 0
    PROVE  Between(After(h, m), t, m) = Between(h, t, m) - 1
<1> DEFINE g == After(h, m)
<1> DEFINE n == Between(h, t, m)
<1>1. /\ n = IF h <= t THEN t - h ELSE t - h + m
      /\ g = IF h + 1 = m THEN 0 ELSE h + 1
      /\ g \in 0..(m - 1)
      /\ n > 0
  BY BetweenIs
<1> HIDE DEF g, n
<1>2. Between(g, t, m) = IF g <= t THEN t - g ELSE t - g + m
  BY <1>1, BetweenIs
<1>3. Between(g, t, m) = n - 1
  BY <1>1, <1>2
<1> QED BY <1>3 DEF g, n

LEMMA HeldIsSeq ==
    ASSUME NEW S, NEW m \in Nat \ {0}, NEW f \in Rings(m, S),
           NEW h \in 0..(m - 1), NEW n \in 0..(m - 1)
    PROVE  /\ Held(f, h, n, m) \in Seq(S)
           /\ Len(Held(f, h, n, m)) = n
           /\ \A i \in 1..n : Held(f, h, n, m)[i] = f[Place(h, i, m)]
<1>1. \A i \in 1..n : i \in 1..m
  OBVIOUS
<1>2. \A i \in 1..n : f[Place(h, i, m)] \in S
  BY <1>1, PlaceIs DEF Rings
<1>3. n \in Nat
  OBVIOUS
<1> QED BY <1>2, <1>3, IsASeq DEF Held

\* An element stored behind the last one.
LEMMA HeldAppend ==
    ASSUME NEW S, NEW m \in Nat \ {0}, NEW f \in Rings(m, S), NEW c \in S,
           NEW h \in 0..(m - 1), NEW n \in 0..(m - 1), n + 1 <= m - 1
    PROVE  Held([f EXCEPT ![Place(h, n + 1, m)] = c], h, n + 1, m) = Append(Held(f, h, n, m), c)
<1>0. /\ Held(f, h, n, m) \in Seq(S) /\ Len(Held(f, h, n, m)) = n
      /\ \A i \in 1..n : Held(f, h, n, m)[i] = f[Place(h, i, m)]
  BY HeldIsSeq
<1> DEFINE t == Place(h, n + 1, m)
<1> DEFINE g == [f EXCEPT ![t] = c]
<1> DEFINE p == Held(f, h, n, m)
<1> DEFINE q == Held(g, h, n + 1, m)
<1>1. t \in 0..(m - 1) /\ \A i \in 1..n : Place(h, i, m) \in 0..(m - 1) /\ Place(h, i, m) # t
  <2>1. n + 1 \in 1..m /\ n + 1 \in 0..(m - 1) /\ \A i \in 1..n : i \in 1..m
    OBVIOUS
  <2>2. t = IF h + (n + 1) - 1 < m THEN h + (n + 1) - 1 ELSE h + (n + 1) - 1 - m
    BY <2>1, PlaceIs
  <2>3. ASSUME NEW i \in 1..n PROVE Place(h, i, m) \in 0..(m - 1) /\ Place(h, i, m) # t
    <3>1. i \in 1..m
      BY <2>1
    <3>2. Place(h, i, m) = IF h + i - 1 < m THEN h + i - 1 ELSE h + i - 1 - m
      BY <3>1, PlaceIs
    <3> HIDE DEF t
    <3> QED BY <2>2, <3>2
  <2>4. t \in 0..(m - 1)
    BY <2>1, PlaceIs
  <2> QED BY <2>3, <2>4
<1> HIDE DEF t
<1>2. g \in Rings(m, S) /\ g[t] = c /\ \A k \in 0..(m - 1) : k # t => g[k] = f[k]
  BY <1>1 DEF Rings
<1> HIDE DEF g
<1>3. n + 1 \in 0..(m - 1)
  OBVIOUS
<1>4. /\ q \in Seq(S) /\ Len(q) = n + 1
      /\ \A i \in 1..(n + 1) : q[i] = g[Place(h, i, m)]
  <2> DEFINE k == n + 1
  <2>1. k \in 0..(m - 1)
    BY <1>3
  <2> HIDE DEF k
  <2>2. /\ Held(g, h, k, m) \in Seq(S) /\ Len(Held(g, h, k, m)) = k
        /\ \A i \in 1..k : Held(g, h, k, m)[i] = g[Place(h, i, m)]
    BY <1>2, <2>1, HeldIsSeq
  <2> QED BY <2>2 DEF k
<1>5. /\ p \in Seq(S) /\ Len(p) = n
      /\ \A i \in 1..n : p[i] = f[Place(h, i, m)]
  BY <1>0
<1> HIDE DEF p, q
<1>6. \A i \in 1..n : q[i] = p[i]
  BY <1>1, <1>2, <1>4, <1>5
<1>7. q[n + 1] = c
  BY <1>2, <1>4 DEF t
<1>8. /\ Append(p, c) \in Seq(S) /\ Len(Append(p, c)) = n + 1
      /\ \A i \in 1..n : Append(p, c)[i] = p[i]
      /\ Append(p, c)[n + 1] = c
  BY <1>5, AppendProperties
<1>9. \A i \in 1..(n + 1) : q[i] = Append(p, c)[i]
  BY <1>6, <1>7, <1>8
<1>10. q = Append(p, c)
  BY <1>4, <1>8, <1>9, SeqEqual
<1> QED BY <1>10 DEF q, p, g, t

\* The first element taken.
LEMMA HeldTail ==
    ASSUME NEW S, NEW m \in Nat \ {0}, NEW f \in Rings(m, S),
           NEW h \in 0..(m - 1), NEW n \in 1..(m - 1)
    PROVE  /\ Held(f, h, n, m) # <<>>
           /\ Head(Held(f, h, n, m)) = f[h]
           /\ Held(f, After(h, m), n - 1, m) = Tail(Held(f, h, n, m))
<1> DEFINE g == After(h, m)
<1> DEFINE p == Held(f, h, n, m)
<1> DEFINE q == Held(f, g, n - 1, m)
<1>1. g = IF h + 1 = m THEN 0 ELSE h + 1
  BY BetweenIs
<1> HIDE DEF g
<1>2. g \in 0..(m - 1) /\ n \in 0..(m - 1) /\ n - 1 \in 0..(m - 1)
  BY <1>1
<1>3. /\ p \in Seq(S) /\ Len(p) = n
      /\ \A i \in 1..n : p[i] = f[Place(h, i, m)]
  BY <1>2, HeldIsSeq
<1>4. /\ q \in Seq(S) /\ Len(q) = n - 1
      /\ \A i \in 1..(n - 1) : q[i] = f[Place(g, i, m)]
  <2> DEFINE k == n - 1
  <2>1. k \in 0..(m - 1)
    BY <1>2
  <2> HIDE DEF k
  <2>2. /\ Held(f, g, k, m) \in Seq(S) /\ Len(Held(f, g, k, m)) = k
        /\ \A i \in 1..k : Held(f, g, k, m)[i] = f[Place(g, i, m)]
    BY <1>2, <2>1, HeldIsSeq
  <2> QED BY <2>2 DEF k
<1> HIDE DEF p, q
<1>5. ASSUME NEW i \in 1..(n - 1) PROVE i + 1 \in 1..n /\ Place(g, i, m) = Place(h, i + 1, m)
  <2>1. i \in 1..m /\ i + 1 \in 1..m /\ i + 1 \in 1..n
    OBVIOUS
  <2>2. Place(g, i, m) = IF g + i - 1 < m THEN g + i - 1 ELSE g + i - 1 - m
    BY <1>2, <2>1, PlaceIs
  <2>3. Place(h, i + 1, m) = IF h + (i + 1) - 1 < m THEN h + (i + 1) - 1
                             ELSE h + (i + 1) - 1 - m
    BY <2>1, PlaceIs
  <2> QED BY <1>1, <1>2, <2>1, <2>2, <2>3
<1>6. p # <<>> /\ Head(p) = p[1]
  BY <1>3
<1>7. p[1] = f[h]
  <2>1. 1 \in 1..m /\ h + 1 - 1 = h /\ h < m
    OBVIOUS
  <2>2. Place(h, 1, m) = h
    BY <2>1, PlaceIs
  <2> QED BY <1>3, <2>2
<1>8. /\ Tail(p) \in Seq(S) /\ Len(Tail(p)) = n - 1
      /\ \A i \in 1..(n - 1) : Tail(p)[i] = p[i + 1]
  BY <1>3, <1>6, HeadTailProperties
<1>9. \A i \in 1..(n - 1) : q[i] = Tail(p)[i]
  BY <1>3, <1>4, <1>5, <1>8
<1>10. q = Tail(p)
  BY <1>4, <1>8, <1>9, SeqEqual
<1> QED BY <1>6, <1>7, <1>10 DEF q, p, g

-----------------------------------------------------------------------------
\* The inductive invariant.

\* A reader in the blocked queue is there once and inside its getc().
ReadersAreInside ==
    /\ IsFiniteSet(inGetc)
    /\ IsInjective(blocked["ib"])
    /\ Range(blocked["ib"]) \subseteq inGetc

\* From the moment the output thread finds a character until it takes it.
Sending == {"load", "store", "block", "wait", "take"}
SendingHasWork == oPc \in Sending => Cnt("ob") > 0

\* An output thread that cannot be interrupted counts right and never blocks.
CleanSending ==
    ~oSIE => /\ oPc \in {"look", "away", "load", "store"} => value["ob"] = Cnt("ob")
             /\ oPc = "store" => oReg = value["ob"]
             /\ oPc \notin {"block", "wait"}
             /\ oPc = "take" => value["ob"] = Cnt("ob") - 1
             /\ blocked["ob"] = <<>>

IInv ==
    /\ TypeOK
    /\ InputIsAccounted
    /\ ReadersAreInside
    /\ SendingHasWork
    /\ CleanSending

-----------------------------------------------------------------------------
\* What the two halves of the buffers do.

\* The part of TypeOK about the buffers.
BufsOK ==
    /\ DOMAIN buffer = Buffers
    /\ head \in [Buffers -> Nat]
    /\ tail \in [Buffers -> Nat]
    /\ value \in [Buffers -> Int]
    /\ blocked \in [Buffers -> Seq(Threads \union {OThread})]
    /\ last \in [Buffers -> Chars \union {Nothing}]
    /\ \A b \in Buffers :
          /\ buffer[b] \in [0..(Cap(b) - 1) -> Chars]
          /\ head[b] \in 0..(Cap(b) - 1)
          /\ tail[b] \in 0..(Cap(b) - 1)

LEMMA CapIsPositive == \A b \in Buffers : Cap(b) \in Nat \ {0}
  BY ConsoleAssumption DEF Buffers, Cap

\* Buffer b as a ring, as above.
LEMMA BufferIsRing ==
    ASSUME BufsOK, NEW b \in Buffers
    PROVE  /\ Cap(b) \in Nat \ {0}
           /\ buffer[b] \in Rings(Cap(b), Chars)
           /\ head[b] \in 0..(Cap(b) - 1)
           /\ tail[b] \in 0..(Cap(b) - 1)
           /\ Cnt(b) = Between(head[b], tail[b], Cap(b))
           /\ Cnt(b) \in 0..(Cap(b) - 1)
           /\ Contents(b) = Held(buffer[b], head[b], Cnt(b), Cap(b))
           /\ Contents(b) \in Seq(Chars)
           /\ Len(Contents(b)) = Cnt(b)
<1>1. /\ Cap(b) \in Nat \ {0}
      /\ buffer[b] \in Rings(Cap(b), Chars)
      /\ head[b] \in 0..(Cap(b) - 1)
      /\ tail[b] \in 0..(Cap(b) - 1)
  BY CapIsPositive DEF BufsOK, Rings
<1>2. Cnt(b) = Between(head[b], tail[b], Cap(b))
  BY DEF Cnt, Between
<1>3. Cnt(b) \in 0..(Cap(b) - 1)
  <2>1. \A m \in Nat \ {0} : \A h, t \in 0..(m - 1) : Between(h, t, m) \in 0..(m - 1)
    BY BetweenIs
  <2> QED BY <1>1, <1>2, <2>1
<1>4. Contents(b) = Held(buffer[b], head[b], Cnt(b), Cap(b))
  BY DEF Contents, Held, Place
<1>5. Contents(b) \in Seq(Chars) /\ Len(Contents(b)) = Cnt(b)
  BY <1>1, <1>3, <1>4, HeldIsSeq
<1> QED BY <1>1, <1>2, <1>3, <1>4, <1>5

\* putIfNotFull() drops the character, or puts it behind all others and signals.
LEMMA PutMoves ==
    ASSUME BufsOK, NEW b \in Buffers, NEW c \in Chars, PutIfNotFull(b, c)
    PROVE  /\ BufsOK'
           /\ UNCHANGED <<head, last>>
           /\ \A d \in Buffers \ {b} :
                 /\ buffer'[d] = buffer[d] /\ tail'[d] = tail[d]
                 /\ value'[d] = value[d] /\ blocked'[d] = blocked[d]
           /\ \/ UNCHANGED <<buffer, tail, value, blocked>>
              \/ /\ Len(Contents(b)) < Cap(b) - 1
                 /\ Cnt(b)' = Cnt(b) + 1
                 /\ Contents(b)' = Append(Contents(b), c)
                 /\ value'[b] = value[b] + 1
                 /\ blocked'[b] = IF blocked[b] = <<>> THEN blocked[b] ELSE Tail(blocked[b])
<1>1. CASE Full(b)
  <2>1. UNCHANGED <<buffer, tail, value, blocked, head, last>>
    BY <1>1 DEF PutIfNotFull
  <2> QED BY <2>1 DEF BufsOK
<1>2. CASE ~Full(b)
  <2> DEFINE m == Cap(b)
  <2> DEFINE t == tail[b]
  <2> DEFINE h == head[b]
  <2> DEFINE n == Cnt(b)
  <2> DEFINE u == After(t, m)
  <2> DEFINE f == buffer[b]
  <2> DEFINE q == IF blocked[b] = <<>> THEN blocked[b] ELSE Tail(blocked[b])
  <2>1. /\ buffer' = [buffer EXCEPT ![b][t] = c]
        /\ tail' = [tail EXCEPT ![b] = u]
        /\ value' = [value EXCEPT ![b] = @ + 1]
        /\ blocked' = [blocked EXCEPT ![b] = q]
        /\ UNCHANGED <<head, last>>
    BY <1>2 DEF PutIfNotFull, Following, After, BufsOK
  <2>2. /\ m \in Nat \ {0} /\ f \in Rings(m, Chars) /\ h \in 0..(m - 1) /\ t \in 0..(m - 1)
        /\ n = Between(h, t, m) /\ Contents(b) = Held(f, h, n, m) /\ Len(Contents(b)) = n
    BY BufferIsRing
  <2>3. u # h
    BY <1>2 DEF Full, Following, After
  <2>4. blocked[b] \in Seq(Threads \union {OThread})
    BY DEF BufsOK
  <2>5. q \in Seq(Threads \union {OThread})
    BY <2>4, HeadTailProperties
  <2> HIDE DEF q
  <2>6. /\ buffer'[b] = [f EXCEPT ![t] = c]
        /\ tail'[b] = u /\ value'[b] = value[b] + 1 /\ blocked'[b] = q
        /\ DOMAIN buffer' = Buffers
        /\ \A d \in Buffers \ {b} :
              /\ buffer'[d] = buffer[d] /\ tail'[d] = tail[d]
              /\ value'[d] = value[d] /\ blocked'[d] = blocked[d]
    BY <2>1 DEF BufsOK
  <2>7. Cnt(b)' = Between(h, u, m)
    BY <2>1, <2>6 DEF Cnt, Between
  <2>8. Contents(b)' = Held([f EXCEPT ![t] = c], h, Cnt(b)', m)
    BY <2>1, <2>6 DEF Contents, Held, Place
  <2> HIDE DEF m, t, h, n, u, f
  <2>9. n \in 0..(m - 1) /\ u \in 0..(m - 1)
    BY <2>2, BetweenIs DEF u
  <2>10. Cnt(b)' = n + 1 /\ n < m - 1 /\ Place(h, n + 1, m) = t
    BY <2>2, <2>3, <2>7, StoreMoves DEF u
  <2>11. n + 1 <= m - 1
    BY <2>2, <2>9, <2>10
  <2>12. Contents(b)' = Append(Contents(b), c)
    <3>1. Held([f EXCEPT ![Place(h, n + 1, m)] = c], h, n + 1, m) = Append(Held(f, h, n, m), c)
      BY <2>2, <2>9, <2>11, HeldAppend, ZenonT(60)
    <3>2. Contents(b)' = Held([f EXCEPT ![Place(h, n + 1, m)] = c], h, n + 1, m)
      BY <2>8, <2>10
    <3>3. Contents(b) = Held(f, h, n, m)
      BY <2>2
    <3> QED BY <3>1, <3>2, <3>3
  <2>13. BufsOK'
    <3>1. buffer'[b] \in [0..(m - 1) -> Chars]
      BY <2>2, <2>6 DEF Rings
    <3>2. \A d \in Buffers : /\ buffer'[d] \in [0..(Cap(d) - 1) -> Chars]
                             /\ head'[d] \in 0..(Cap(d) - 1)
                             /\ tail'[d] \in 0..(Cap(d) - 1)
      BY <2>1, <2>6, <2>9, <3>1 DEF BufsOK, m
    <3>3. u \in Nat
      BY <2>2, <2>9
    <3>4. value[b] + 1 \in Int
      BY DEF BufsOK
    <3> QED BY <2>1, <2>5, <2>6, <3>2, <3>3, <3>4 DEF BufsOK
  <2> QED BY <2>1, <2>2, <2>6, <2>9, <2>10, <2>12, <2>13 DEF m, n, q
<1> QED BY <1>1, <1>2

\* The second half of get() takes the first character, if there is one.
LEMMA TakeMoves ==
    ASSUME BufsOK, NEW b \in Buffers, Cnt(b) > 0, Take(b), UNCHANGED <<buffer, tail>>
    PROVE  /\ head' \in [Buffers -> Nat]
           /\ last' \in [Buffers -> Chars \union {Nothing}]
           /\ \A d \in Buffers : head'[d] \in 0..(Cap(d) - 1)
           /\ \A d \in Buffers \ {b} : head'[d] = head[d] /\ last'[d] = last[d]
           /\ Cnt(b)' = Cnt(b) - 1
           /\ Contents(b) # <<>>
           /\ last'[b] = Head(Contents(b))
           /\ Contents(b)' = Tail(Contents(b))
<1> DEFINE m == Cap(b)
<1> DEFINE t == tail[b]
<1> DEFINE h == head[b]
<1> DEFINE n == Cnt(b)
<1> DEFINE g == After(h, m)
<1> DEFINE f == buffer[b]
<1>1. /\ head' = [head EXCEPT ![b] = g]
      /\ last' = [last EXCEPT ![b] = f[h]]
  BY DEF Take, Following, After, BufsOK
<1>2. /\ m \in Nat \ {0} /\ f \in Rings(m, Chars) /\ h \in 0..(m - 1) /\ t \in 0..(m - 1)
      /\ n = Between(h, t, m) /\ Contents(b) = Held(f, h, n, m)
  BY BufferIsRing
<1>3. /\ head'[b] = g
      /\ last'[b] = f[h]
      /\ \A d \in Buffers \ {b} : head'[d] = head[d] /\ last'[d] = last[d]
  BY <1>1 DEF BufsOK
<1>4. Cnt(b)' = Between(g, t, m)
  BY <1>3 DEF Cnt, Between
<1>5. Contents(b)' = Held(f, g, Cnt(b)', m)
  BY <1>3 DEF Contents, Held, Place
<1> HIDE DEF m, t, h, n, g, f
<1>6. /\ n \in 0..(m - 1) /\ g \in 0..(m - 1) /\ n > 0
      /\ Cnt(b)' = n - 1
  <2>1. n \in 0..(m - 1) /\ g \in 0..(m - 1)
    BY <1>2, BetweenIs DEF g
  <2>2. n > 0
    BY DEF n
  <2> QED BY <1>2, <1>4, <2>1, <2>2, TakeMovesOn DEF g
<1>7. n \in 1..(m - 1)
  BY <1>2, <1>6
<1>8. /\ Contents(b) # <<>>
      /\ Head(Contents(b)) = f[h]
      /\ Contents(b)' = Tail(Contents(b))
  <2>1. /\ Held(f, h, n, m) # <<>>
        /\ Head(Held(f, h, n, m)) = f[h]
        /\ Held(f, g, n - 1, m) = Tail(Held(f, h, n, m))
    BY <1>2, <1>7, HeldTail DEF g
  <2> QED BY <1>2, <1>5, <1>6, <2>1
<1>9. f[h] \in Chars
  BY <1>2 DEF Rings
<1>10. g \in Nat
  BY <1>2, <1>6
<1>11. \A d \in Buffers : head'[d] \in 0..(Cap(d) - 1)
  BY <1>3, <1>6 DEF BufsOK, m
<1>12. head' \in [Buffers -> Nat] /\ last' \in [Buffers -> Chars \union {Nothing}]
  BY <1>1, <1>9, <1>10 DEF BufsOK
<1> QED BY <1>3, <1>6, <1>8, <1>11, <1>12 DEF n

-----------------------------------------------------------------------------
\* The invariant holds.

\* The rest of TypeOK.
RestOK ==
    /\ inGetc \in SUBSET Threads
    /\ oPc \in {"look", "away", "load", "store", "block", "wait", "take", "done"}
    /\ oReg \in Int
    /\ oSIE \in BOOLEAN
    /\ oThreadStop \in BOOLEAN

LEMMA TypeOKParts == (TypeOK <=> BufsOK /\ RestOK) /\ (TypeOK' <=> BufsOK' /\ RestOK')
  BY DEF TypeOK, BufsOK, RestOK

\* The threads that were woken and have not gone on are finitely many.
LEMMA WokenIsFinite ==
    ASSUME ReadersAreInside
    PROVE  IsFiniteSet(Woken) /\ Cardinality(Woken) \in Nat
<1>1. Woken \subseteq inGetc
  BY DEF Woken
<1> QED BY <1>1, FS_Subset, FS_CardinalityType DEF ReadersAreInside

LEMMA EmptyBuffers ==
    ASSUME Init
    PROVE  BufsOK /\ \A b \in Buffers : Cnt(b) = 0 /\ Contents(b) = <<>>
<1>1. PICK c \in Chars : buffer = [b \in Buffers |-> [i \in 0..(Cap(b) - 1) |-> c]]
  <2>1. AnyChar \in Chars
    BY ConsoleAssumption DEF AnyChar
  <2> QED BY <2>1 DEF Init
<1>2. \A b \in Buffers : 0 \in 0..(Cap(b) - 1)
  BY CapIsPositive
<1>3. BufsOK
  <2>1. DOMAIN buffer = Buffers
    BY <1>1
  <2>2. \A b \in Buffers : buffer[b] \in [0..(Cap(b) - 1) -> Chars]
    BY <1>1
  <2>3. /\ head \in [Buffers -> Nat]
        /\ tail \in [Buffers -> Nat]
        /\ value \in [Buffers -> Int]
        /\ blocked \in [Buffers -> Seq(Threads \union {OThread})]
        /\ last \in [Buffers -> Chars \union {Nothing}]
    BY DEF Init
  <2>4. \A b \in Buffers : head[b] \in 0..(Cap(b) - 1) /\ tail[b] \in 0..(Cap(b) - 1)
    BY <1>2 DEF Init
  <2> QED BY <2>1, <2>2, <2>3, <2>4 DEF BufsOK
<1>4. ASSUME NEW b \in Buffers PROVE Cnt(b) = 0 /\ Contents(b) = <<>>
  <2> DEFINE m == Cap(b)
  <2>1. m \in Nat \ {0} /\ 0 \in 0..(m - 1)
    BY <1>2, CapIsPositive
  <2>2. Cnt(b) = Between(0, 0, m)
    BY DEF Init, Cnt, Between
  <2>3. Cnt(b) = 0
    <3> HIDE DEF m
    <3>1. Between(0, 0, m) = IF 0 <= 0 THEN 0 - 0 ELSE 0 - 0 + m
      BY <2>1, BetweenIs
    <3> QED BY <2>2, <3>1
  <2>4. Contents(b) \in Seq(Chars) /\ Len(Contents(b)) = 0
    BY <1>3, <2>3, BufferIsRing
  <2> QED BY <2>3, <2>4, EmptySeq
<1> QED BY <1>3, <1>4

LEMMA InitHolds == Init => IInv
<1> SUFFICES ASSUME Init PROVE IInv
  OBVIOUS
<1>1. BufsOK /\ Cnt("ib") = 0 /\ Cnt("ob") = 0
  BY EmptyBuffers DEF Buffers
<1>2. RestOK
  <2>1. oSIE \in BOOLEAN /\ oThreadStop \in BOOLEAN
    BY ConsoleAssumption, Zenon DEF Init
  <2>2. inGetc = {} /\ oPc = "look" /\ oReg = 0
    BY DEF Init
  <2> QED BY <2>1, <2>2 DEF RestOK
<1>3. value["ib"] = 0 /\ value["ob"] = 0 /\ blocked["ib"] = <<>> /\ blocked["ob"] = <<>>
  BY DEF Init, Buffers
<1>4. inGetc = {} /\ oPc = "look"
  BY DEF Init
<1>5. Woken = {} /\ Range(blocked["ib"]) = {}
  BY <1>3, <1>4 DEF Woken, Range
<1>6. ReadersAreInside
  BY <1>3, <1>4, <1>5, FS_EmptySet DEF ReadersAreInside, IsInjective
<1>7. InputIsAccounted
  BY <1>1, <1>3, <1>5, FS_EmptySet DEF InputIsAccounted, Permits
<1>8. SendingHasWork /\ CleanSending
  BY <1>1, <1>3, <1>4 DEF SendingHasWork, Sending, CleanSending
<1> QED BY <1>1, <1>2, <1>6, <1>7, <1>8, TypeOKParts DEF IInv

\* What concerns the input buffer stays as it was if that buffer does.
LEMMA InputUntouched ==
    ASSUME InputIsAccounted, ReadersAreInside, UNCHANGED inGetc,
           buffer'["ib"] = buffer["ib"], head'["ib"] = head["ib"], tail'["ib"] = tail["ib"],
           value'["ib"] = value["ib"], blocked'["ib"] = blocked["ib"]
    PROVE  InputIsAccounted' /\ ReadersAreInside'
<1>1. Cnt("ib")' = Cnt("ib") /\ Permits("ib")' = Permits("ib")
  BY DEF Cnt, Permits
<1>2. Woken' = Woken
  BY DEF Woken
<1> QED BY <1>1, <1>2 DEF InputIsAccounted, ReadersAreInside

\* And what concerns the output buffer, if the output thread does not move.
LEMMA OutputUntouched ==
    ASSUME SendingHasWork, CleanSending, UNCHANGED othread,
           buffer'["ob"] = buffer["ob"], head'["ob"] = head["ob"], tail'["ob"] = tail["ob"],
           value'["ob"] = value["ob"], blocked'["ob"] = blocked["ob"]
    PROVE  SendingHasWork' /\ CleanSending'
<1>1. Cnt("ob")' = Cnt("ob")
  BY DEF Cnt
<1> QED BY <1>1 DEF SendingHasWork, CleanSending, othread

\* A character that comes in is free, or is kept for the thread it wakes.
LEMMA InputKeeps ==
    ASSUME IInv, NEW c \in Chars, Input(c)
    PROVE  IInv'
<1> USE DEF IInv
<1>1. BufsOK /\ RestOK /\ "ib" \in Buffers /\ "ob" \in Buffers
  BY TypeOKParts DEF Buffers
<1>2. /\ PutIfNotFull("ib", c)
      /\ UNCHANGED <<inGetc, oPc, oReg, oSIE, oThreadStop>>
  BY DEF Input, othread
<1>3. /\ BufsOK'
      /\ UNCHANGED <<head, last>>
      /\ \A d \in Buffers \ {"ib"} :
            /\ buffer'[d] = buffer[d] /\ tail'[d] = tail[d]
            /\ value'[d] = value[d] /\ blocked'[d] = blocked[d]
      /\ \/ UNCHANGED <<buffer, tail, value, blocked>>
         \/ /\ Len(Contents("ib")) < Cap("ib") - 1
            /\ Cnt("ib")' = Cnt("ib") + 1
            /\ Contents("ib")' = Append(Contents("ib"), c)
            /\ value'["ib"] = value["ib"] + 1
            /\ blocked'["ib"] = IF blocked["ib"] = <<>> THEN blocked["ib"]
                                ELSE Tail(blocked["ib"])
  BY <1>1, <1>2, PutMoves
<1>4. TypeOK'
  <2>1. RestOK'
    BY <1>1, <1>2 DEF RestOK
  <2> QED BY <1>3, <2>1, TypeOKParts
<1>5. SendingHasWork' /\ CleanSending'
  <2>1. "ob" \in Buffers \ {"ib"}
    BY <1>1
  <2> QED BY <1>2, <1>3, <2>1, OutputUntouched DEF othread
<1>6. InputIsAccounted' /\ ReadersAreInside'
  <2>1. CASE UNCHANGED <<buffer, tail, value, blocked>>
    BY <1>2, <1>3, <2>1, InputUntouched
  <2>2. CASE /\ Cnt("ib")' = Cnt("ib") + 1
             /\ value'["ib"] = value["ib"] + 1
             /\ blocked'["ib"] = IF blocked["ib"] = <<>> THEN blocked["ib"]
                                 ELSE Tail(blocked["ib"])
    <3> DEFINE q == blocked["ib"]
    <3> DEFINE v == value["ib"]
    <3>1. /\ q \in Seq(Threads \union {OThread}) /\ v \in Int
          /\ Cnt("ib") = Permits("ib") + Cardinality(Woken)
          /\ Len(q) = IF v < 0 THEN -v ELSE 0
          /\ IsFiniteSet(Woken) /\ Cardinality(Woken) \in Nat
      BY <1>1, WokenIsFinite DEF BufsOK, InputIsAccounted
    <3>2. CASE q = <<>>
      <4>1. v >= 0 /\ v + 1 >= 0 /\ Permits("ib") = v /\ Permits("ib")' = v + 1
        BY <2>2, <3>1, <3>2 DEF Permits
      <4>2. blocked'["ib"] = q /\ Woken' = Woken
        BY <1>2, <2>2, <3>2 DEF Woken
      <4>3. ReadersAreInside'
        BY <1>2, <4>2 DEF ReadersAreInside
      <4> QED BY <2>2, <3>1, <3>2, <4>1, <4>2, <4>3 DEF InputIsAccounted
    <3>3. CASE q # <<>>
      <4> DEFINE w == Head(q)
      <4> DEFINE r == Tail(q)
      <4>1. /\ r \in Seq(Threads \union {OThread}) /\ Len(q) > 0 /\ Len(r) = Len(q) - 1
            /\ Range(q) = Range(r) \union {w}
            /\ IsInjective(r) /\ w \notin Range(r)
        BY <3>1, <3>3, FirstTaken, CutFirst DEF ReadersAreInside
      <4>2. blocked'["ib"] = r
        BY <2>2, <3>3
      <4> HIDE DEF q, r, w
      <4>3. v < 0 /\ Permits("ib") = 0 /\ Permits("ib")' = 0 /\ Len(r) = -(v + 1)
        BY <2>2, <3>1, <4>1 DEF Permits
      <4>4. Woken' = Woken \union {w} /\ w \notin Woken
        BY <1>2, <4>1, <4>2 DEF Woken, ReadersAreInside, q
      <4>5. Cardinality(Woken') = Cardinality(Woken) + 1
        BY <3>1, <4>4, FS_AddElement
      <4>6. ReadersAreInside'
        BY <1>2, <4>1, <4>2 DEF ReadersAreInside, q
      <4>7. Cnt("ib")' = Permits("ib")' + Cardinality(Woken')
        BY <2>2, <3>1, <4>3, <4>5
      <4>8. Len(blocked'["ib"]) = IF value'["ib"] < 0 THEN -value'["ib"] ELSE 0
        <5>1. value'["ib"] = v + 1
          BY <2>2
        <5>2. Len(blocked'["ib"]) = Len(r)
          BY <4>2
        <5> HIDE DEF v
        <5> QED BY <3>1, <4>3, <5>1, <5>2
      <4> QED BY <4>6, <4>7, <4>8 DEF InputIsAccounted
    <3> QED BY <3>2, <3>3
  <2> QED BY <1>3, <2>1, <2>2
<1> QED BY <1>4, <1>5, <1>6

\* A character is added to the output buffer while the output thread is not in
\* the middle of its get(), unless that thread can be interrupted.
LEMMA PutcKeeps ==
    ASSUME IInv, NEW c \in Chars, Putc(c)
    PROVE  IInv'
<1> USE DEF IInv
<1>1. BufsOK /\ RestOK /\ "ib" \in Buffers /\ "ob" \in Buffers
  BY TypeOKParts DEF Buffers
<1>2. /\ PutIfNotFull("ob", c)
      /\ UNCHANGED <<inGetc, oPc, oReg, oSIE, oThreadStop>>
      /\ Interruptible
  BY DEF Putc, othread
<1>3. /\ BufsOK'
      /\ UNCHANGED <<head, last>>
      /\ \A d \in Buffers \ {"ob"} :
            /\ buffer'[d] = buffer[d] /\ tail'[d] = tail[d]
            /\ value'[d] = value[d] /\ blocked'[d] = blocked[d]
      /\ \/ UNCHANGED <<buffer, tail, value, blocked>>
         \/ /\ Len(Contents("ob")) < Cap("ob") - 1
            /\ Cnt("ob")' = Cnt("ob") + 1
            /\ Contents("ob")' = Append(Contents("ob"), c)
            /\ value'["ob"] = value["ob"] + 1
            /\ blocked'["ob"] = IF blocked["ob"] = <<>> THEN blocked["ob"]
                                ELSE Tail(blocked["ob"])
  BY <1>1, <1>2, PutMoves
<1>4. TypeOK'
  <2>1. RestOK'
    BY <1>1, <1>2 DEF RestOK
  <2> QED BY <1>3, <2>1, TypeOKParts
<1>5. InputIsAccounted' /\ ReadersAreInside'
  <2>1. "ib" \in Buffers \ {"ob"}
    BY <1>1
  <2> QED BY <1>2, <1>3, <2>1, InputUntouched
<1>6. SendingHasWork' /\ CleanSending'
  <2>1. CASE UNCHANGED <<buffer, tail, value, blocked>>
    BY <1>2, <1>3, <2>1, OutputUntouched DEF othread
  <2>2. CASE /\ Cnt("ob")' = Cnt("ob") + 1
             /\ value'["ob"] = value["ob"] + 1
             /\ blocked'["ob"] = IF blocked["ob"] = <<>> THEN blocked["ob"]
                                 ELSE Tail(blocked["ob"])
    <3>1. Cnt("ob") \in Nat /\ Cap("ob") \in Nat
      BY <1>1, BufferIsRing
    <3>2. SendingHasWork'
      BY <1>2, <2>2, <3>1 DEF SendingHasWork
    <3>3. CleanSending'
      <4>1. SUFFICES ASSUME ~oSIE PROVE CleanSending'
        BY <1>2 DEF CleanSending
      <4>2. oPc \in {"away", "wait", "done"}
        BY <1>2, <4>1 DEF Interruptible
      <4> QED BY <1>2, <2>2, <4>1, <4>2 DEF CleanSending
    <3> QED BY <3>2, <3>3
  <2> QED BY <1>3, <2>1, <2>2
<1> QED BY <1>4, <1>5, <1>6

\* What Take("ib") leaves alone, when the input buffer is not empty.
LEMMA TakingKeepsTypes ==
    ASSUME BufsOK, NEW b \in Buffers, Cnt(b) > 0, Take(b), UNCHANGED <<buffer, tail, blocked>>,
           value' \in [Buffers -> Int]
    PROVE  BufsOK'
<1>1. /\ head' \in [Buffers -> Nat]
      /\ last' \in [Buffers -> Chars \union {Nothing}]
      /\ \A d \in Buffers : head'[d] \in 0..(Cap(d) - 1)
  BY TakeMoves
<1> QED BY <1>1 DEF BufsOK

\* A reader that blocks is not yet woken; one that does not takes a free character.
LEMMA GetcKeeps ==
    ASSUME IInv, NEW t \in Threads, Getc(t)
    PROVE  IInv'
<1> USE DEF IInv
<1> DEFINE v == value["ib"]
<1> DEFINE q == blocked["ib"]
<1>1. BufsOK /\ RestOK /\ "ib" \in Buffers /\ "ob" \in Buffers
  BY TypeOKParts DEF Buffers
<1>2. /\ t \notin inGetc
      /\ value' = [value EXCEPT !["ib"] = v - 1]
      /\ UNCHANGED <<buffer, tail, oPc, oReg, oSIE, oThreadStop>>
  BY DEF Getc, othread
<1>3. /\ value'["ib"] = v - 1 /\ value'["ob"] = value["ob"]
      /\ value' \in [Buffers -> Int] /\ v \in Int
  BY <1>1, <1>2 DEF BufsOK
<1>4. /\ q \in Seq(Threads \union {OThread})
      /\ Cnt("ib") = Permits("ib") + Cardinality(Woken)
      /\ Len(q) = IF v < 0 THEN -v ELSE 0
      /\ IsFiniteSet(Woken) /\ Cardinality(Woken) \in Nat
  BY <1>1, WokenIsFinite DEF BufsOK, InputIsAccounted
<1>5. CASE v - 1 < 0
  <2>1. /\ blocked' = [blocked EXCEPT !["ib"] = Append(q, t)]
        /\ inGetc' = inGetc \union {t}
        /\ UNCHANGED <<last, head>>
    BY <1>3, <1>5 DEF Getc, Blocks
  <2>2. blocked'["ib"] = Append(q, t) /\ blocked'["ob"] = blocked["ob"]
    BY <1>1, <2>1 DEF BufsOK
  <2>3. t \in Threads \union {OThread}
    OBVIOUS
  <2>4. /\ Append(q, t) \in Seq(Threads \union {OThread})
        /\ Range(Append(q, t)) = Range(q) \union {t}
        /\ IsInjective(Append(q, t))
        /\ Len(Append(q, t)) = Len(q) + 1
    <3>1. t \notin Range(q)
      BY <1>2 DEF ReadersAreInside
    <3> QED BY <1>4, <2>3, <3>1, LastPut, AppendProperties DEF ReadersAreInside
  <2>5. BufsOK' /\ RestOK'
    <3>1. blocked' \in [Buffers -> Seq(Threads \union {OThread})]
      BY <1>1, <2>1, <2>4 DEF BufsOK
    <3>2. BufsOK'
      BY <1>1, <1>2, <1>3, <2>1, <3>1 DEF BufsOK
    <3>3. RestOK'
      BY <1>1, <1>2, <2>1 DEF RestOK
    <3> QED BY <3>2, <3>3
  <2>6. SendingHasWork' /\ CleanSending'
    BY <1>2, <1>3, <2>1, <2>2, OutputUntouched DEF othread
  <2> HIDE DEF q
  <2>7. ReadersAreInside'
    <3>1. IsFiniteSet(inGetc')
      BY <2>1, FS_AddElement DEF ReadersAreInside
    <3>2. Range(blocked["ib"]) \subseteq inGetc
      BY DEF ReadersAreInside
    <3> QED BY <2>1, <2>2, <2>4, <3>1, <3>2 DEF ReadersAreInside, q
  <2>8. Woken' = Woken
    BY <1>2, <2>1, <2>2, <2>4 DEF Woken, q
  <2>9. InputIsAccounted'
    <3>1. Cnt("ib")' = Cnt("ib")
      BY <1>2, <2>1 DEF Cnt
    <3>2. Permits("ib")' = 0 /\ Permits("ib") = 0
      BY <1>3, <1>5 DEF Permits
    <3>3. Len(blocked'["ib"]) = IF value'["ib"] < 0 THEN -value'["ib"] ELSE 0
      <4> HIDE DEF v
      <4>1. Len(blocked'["ib"]) = Len(q) + 1
        BY <2>2, <2>4
      <4> QED BY <1>3, <1>4, <1>5, <4>1
    <3>4. Cnt("ib")' = Permits("ib")' + Cardinality(Woken')
      BY <1>4, <2>8, <3>1, <3>2
    <3> QED BY <3>3, <3>4 DEF InputIsAccounted
  <2> QED BY <2>5, <2>6, <2>7, <2>9, TypeOKParts
<1>6. CASE ~(v - 1 < 0)
  <2>1. Take("ib") /\ UNCHANGED <<blocked, inGetc>>
    BY <1>3, <1>6 DEF Getc, Blocks
  <2>2. Permits("ib") = v /\ Permits("ib")' = v - 1
    BY <1>3, <1>6 DEF Permits
  <2>3. Cnt("ib") > 0
    BY <1>3, <1>4, <1>6, <2>2
  <2>4. /\ Cnt("ib")' = Cnt("ib") - 1
        /\ head'["ob"] = head["ob"]
    BY <1>1, <1>2, <2>1, <2>3, TakeMoves DEF Buffers
  <2>5. BufsOK' /\ RestOK'
    <3>1. BufsOK'
      BY <1>1, <1>2, <1>3, <2>1, <2>3, TakingKeepsTypes
    <3>2. RestOK'
      BY <1>1, <1>2, <2>1 DEF RestOK
    <3> QED BY <3>1, <3>2
  <2>6. SendingHasWork' /\ CleanSending'
    BY <1>2, <1>3, <2>1, <2>4, OutputUntouched DEF othread
  <2>7. ReadersAreInside' /\ Woken' = Woken
    BY <2>1 DEF ReadersAreInside, Woken
  <2>8. InputIsAccounted'
    <3>1. Cnt("ib")' = Permits("ib")' + Cardinality(Woken')
      BY <1>3, <1>4, <2>2, <2>4, <2>7
    <3>2. Len(blocked'["ib"]) = IF value'["ib"] < 0 THEN -value'["ib"] ELSE 0
      BY <1>3, <1>4, <1>6, <2>1
    <3> QED BY <3>1, <3>2 DEF InputIsAccounted
  <2> QED BY <2>5, <2>6, <2>7, <2>8, TypeOKParts
<1> QED BY <1>5, <1>6

\* A woken reader takes the character that was kept for it.
LEMMA GetcEndsKeeps ==
    ASSUME IInv, NEW t \in Threads, GetcEnds(t)
    PROVE  IInv'
<1> USE DEF IInv
<1>1. BufsOK /\ RestOK /\ "ib" \in Buffers /\ "ob" \in Buffers
  BY TypeOKParts DEF Buffers
<1>2. /\ t \in Woken
      /\ Take("ib")
      /\ inGetc' = inGetc \ {t}
      /\ UNCHANGED <<buffer, tail, value, blocked, oPc, oReg, oSIE, oThreadStop>>
  BY DEF GetcEnds, othread
<1>3. /\ value["ib"] \in Int
      /\ Cnt("ib") = Permits("ib") + Cardinality(Woken)
      /\ IsFiniteSet(Woken) /\ Cardinality(Woken) \in Nat
  BY <1>1, WokenIsFinite DEF BufsOK, InputIsAccounted
<1>4. Woken' = Woken \ {t} /\ Cardinality(Woken') = Cardinality(Woken) - 1
  <2>1. Woken' = Woken \ {t}
    BY <1>2 DEF Woken
  <2> QED BY <1>2, <1>3, <2>1, FS_RemoveElement
<1>5. Cnt("ib") > 0
  <2>1. Cardinality(Woken) # 0
    BY <1>2, <1>3, FS_EmptySet
  <2>2. Permits("ib") \in Nat
    BY <1>3 DEF Permits
  <2> QED BY <1>3, <2>1, <2>2
<1>6. /\ Cnt("ib")' = Cnt("ib") - 1
      /\ head'["ob"] = head["ob"]
  BY <1>1, <1>2, <1>5, TakeMoves DEF Buffers
<1>7. BufsOK' /\ RestOK'
  <2>1. BufsOK'
    <3>1. value' \in [Buffers -> Int]
      BY <1>1, <1>2 DEF BufsOK
    <3> QED BY <1>1, <1>2, <1>5, <3>1, TakingKeepsTypes
  <2>2. RestOK'
    BY <1>1, <1>2 DEF RestOK
  <2> QED BY <2>1, <2>2
<1>8. SendingHasWork' /\ CleanSending'
  BY <1>2, <1>6, OutputUntouched DEF othread
<1>9. ReadersAreInside'
  <2>1. IsFiniteSet(inGetc')
    BY <1>2, FS_RemoveElement DEF ReadersAreInside
  <2>2. Range(blocked["ib"]) \subseteq inGetc \ {t}
    BY <1>2 DEF ReadersAreInside, Woken
  <2> QED BY <1>2, <2>1, <2>2 DEF ReadersAreInside
<1>10. InputIsAccounted'
  <2>1. Permits("ib")' = Permits("ib") /\ Permits("ib") \in Nat
    BY <1>2, <1>3 DEF Permits
  <2>2. Cnt("ib")' = Permits("ib")' + Cardinality(Woken')
    BY <1>3, <1>4, <1>6, <2>1
  <2> QED BY <1>2, <2>2 DEF InputIsAccounted
<1> QED BY <1>7, <1>8, <1>9, <1>10, TypeOKParts

\* The output thread.  Only its last step touches a place of a buffer.
LEMMA OutputThreadKeeps ==
    ASSUME IInv, OStep
    PROVE  IInv'
<1> USE DEF IInv
<1>1. BufsOK /\ RestOK /\ "ib" \in Buffers /\ "ob" \in Buffers /\ "ib" # "ob"
  BY TypeOKParts DEF Buffers
<1>2. CASE OLook
  <2>1. /\ UNCHANGED <<buffer, head, tail, value, blocked, last, inGetc, oReg, oSIE, oThreadStop>>
        /\ oPc \in {"look", "away"}
        /\ oPc' \in {"done", "load", "away"}
        /\ oPc' = "load" => Cnt("ob") > 0
    BY <1>2 DEF OLook, bufs
  <2>2. Cnt("ob")' = Cnt("ob")
    BY <2>1 DEF Cnt
  <2>3. BufsOK' /\ RestOK'
    BY <1>1, <2>1 DEF BufsOK, RestOK
  <2>4. SendingHasWork' /\ CleanSending'
    BY <2>1, <2>2 DEF SendingHasWork, Sending, CleanSending
  <2> QED BY <2>1, <2>3, <2>4, InputUntouched, TypeOKParts
<1>3. CASE OLoad
  <2>1. /\ UNCHANGED <<buffer, head, tail, value, blocked, last, inGetc, oSIE, oThreadStop>>
        /\ oPc = "load" /\ oPc' = "store"
        /\ oReg' = value["ob"]
    BY <1>3 DEF OLoad, bufs
  <2>2. Cnt("ob")' = Cnt("ob")
    BY <2>1 DEF Cnt
  <2>3. BufsOK' /\ RestOK'
    BY <1>1, <2>1 DEF BufsOK, RestOK
  <2>4. SendingHasWork' /\ CleanSending'
    BY <2>1, <2>2 DEF SendingHasWork, Sending, CleanSending
  <2> QED BY <2>1, <2>3, <2>4, InputUntouched, TypeOKParts
<1>4. CASE OStore
  <2>1. /\ UNCHANGED <<buffer, head, tail, blocked, last, inGetc, oSIE, oThreadStop>>
        /\ oPc = "store"
        /\ value' = [value EXCEPT !["ob"] = oReg - 1]
        /\ oPc' = IF oReg - 1 < 0 THEN "block" ELSE "take"
        /\ oReg' = 0
    BY <1>4 DEF OStore, Blocks
  <2>2. Cnt("ob")' = Cnt("ob")
    BY <2>1 DEF Cnt
  <2>3. /\ value' \in [Buffers -> Int]
        /\ value'["ob"] = oReg - 1 /\ value'["ib"] = value["ib"] /\ oReg \in Int
    BY <1>1, <2>1 DEF BufsOK, RestOK
  <2>4. BufsOK' /\ RestOK'
    BY <1>1, <2>1, <2>3 DEF BufsOK, RestOK
  <2>5. SendingHasWork'
    BY <2>1, <2>2 DEF SendingHasWork, Sending
  <2>6. CleanSending'
    <3>1. SUFFICES ASSUME ~oSIE PROVE CleanSending'
      BY <2>1 DEF CleanSending
    <3>2. /\ value["ob"] = Cnt("ob") /\ oReg = value["ob"] /\ blocked["ob"] = <<>>
          /\ Cnt("ob") > 0
      BY <2>1, <3>1 DEF CleanSending, SendingHasWork, Sending
    <3>3. Cnt("ob") \in Int /\ ~(oReg - 1 < 0)
      BY <2>3, <3>2
    <3>4. oPc' = "take" /\ blocked'["ob"] = <<>>
      BY <2>1, <3>2, <3>3
    <3>5. value'["ob"] = Cnt("ob")' - 1
      BY <2>1, <2>2, <2>3, <3>2
    <3> QED BY <3>4, <3>5 DEF CleanSending
  <2> QED BY <2>1, <2>3, <2>4, <2>5, <2>6, InputUntouched, TypeOKParts
<1>5. CASE OBlock
  <2>1. /\ UNCHANGED <<buffer, head, tail, value, last, inGetc, oReg, oSIE, oThreadStop>>
        /\ oPc = "block" /\ oPc' = "wait"
        /\ blocked' = [blocked EXCEPT !["ob"] = Append(@, OThread)]
    BY <1>5 DEF OBlock
  <2>2. Cnt("ob")' = Cnt("ob")
    BY <2>1 DEF Cnt
  <2>3. /\ blocked' \in [Buffers -> Seq(Threads \union {OThread})]
        /\ blocked'["ib"] = blocked["ib"]
    <3>1. blocked["ob"] \in Seq(Threads \union {OThread})
          /\ blocked \in [Buffers -> Seq(Threads \union {OThread})]
      BY <1>1 DEF BufsOK
    <3>2. Append(blocked["ob"], OThread) \in Seq(Threads \union {OThread})
      BY <3>1
    <3> QED BY <1>1, <2>1, <3>1, <3>2
  <2>4. BufsOK' /\ RestOK'
    <3>1. BufsOK'
      BY <1>1, <2>1, <2>3 DEF BufsOK
    <3>2. RestOK'
      BY <1>1, <2>1 DEF RestOK
    <3> QED BY <3>1, <3>2
  <2>5. SendingHasWork'
    BY <2>1, <2>2 DEF SendingHasWork, Sending
  <2>6. CleanSending'
    BY <2>1 DEF CleanSending
  <2> QED BY <2>1, <2>3, <2>4, <2>5, <2>6, InputUntouched, TypeOKParts
<1>6. CASE OWake
  <2>1. /\ UNCHANGED <<buffer, head, tail, value, blocked, last, inGetc, oReg, oSIE, oThreadStop>>
        /\ oPc = "wait" /\ oPc' = "take"
    BY <1>6 DEF OWake, bufs
  <2>2. Cnt("ob")' = Cnt("ob")
    BY <2>1 DEF Cnt
  <2>3. BufsOK' /\ RestOK'
    BY <1>1, <2>1 DEF BufsOK, RestOK
  <2>4. SendingHasWork' /\ CleanSending'
    BY <2>1, <2>2 DEF SendingHasWork, Sending, CleanSending
  <2> QED BY <2>1, <2>3, <2>4, InputUntouched, TypeOKParts
<1>7. CASE OTake
  <2>1. /\ UNCHANGED <<buffer, tail, value, blocked, inGetc, oReg, oSIE, oThreadStop>>
        /\ oPc = "take" /\ oPc' = "look"
        /\ Take("ob")
        /\ Cnt("ob") > 0
    BY <1>7 DEF OTake, SendingHasWork, Sending
  <2>2. Cnt("ob")' = Cnt("ob") - 1 /\ head'["ib"] = head["ib"]
    BY <1>1, <2>1, TakeMoves
  <2>3. BufsOK' /\ RestOK'
    <3>1. value' \in [Buffers -> Int]
      BY <1>1, <2>1 DEF BufsOK
    <3>2. BufsOK'
      BY <1>1, <2>1, <3>1, TakingKeepsTypes
    <3>3. RestOK'
      BY <1>1, <2>1 DEF RestOK
    <3> QED BY <3>2, <3>3
  <2>4. SendingHasWork' /\ CleanSending'
    BY <2>1, <2>2 DEF SendingHasWork, Sending, CleanSending
  <2> QED BY <2>1, <2>2, <2>3, <2>4, InputUntouched, TypeOKParts
<1> QED BY <1>2, <1>3, <1>4, <1>5, <1>6, <1>7 DEF OStep

\* A step that changes nothing but the order to stop.
LEMMA StoppingKeeps ==
    ASSUME IInv, UNCHANGED <<bufs, inGetc, othread>>, oThreadStop' \in BOOLEAN
    PROVE  IInv'
<1>1. UNCHANGED <<buffer, head, tail, value, blocked, last, inGetc, oPc, oReg, oSIE>>
  BY DEF bufs, othread
<1>2. BufsOK' /\ RestOK'
  BY <1>1, TypeOKParts DEF IInv, BufsOK, RestOK
<1>3. InputIsAccounted' /\ ReadersAreInside'
  BY <1>1, InputUntouched DEF IInv
<1>4. SendingHasWork' /\ CleanSending'
  BY <1>1, OutputUntouched DEF IInv, othread
<1> QED BY <1>2, <1>3, <1>4, TypeOKParts DEF IInv

LEMMA StepKeeps == IInv /\ [Next]_vars => IInv'
<1> SUFFICES ASSUME IInv, [Next]_vars PROVE IInv'
  OBVIOUS
<1>1. CASE \E c \in Chars : Input(c) \/ Putc(c)
  BY <1>1, InputKeeps, PutcKeeps
<1>2. CASE \E t \in Threads : Getc(t) \/ GetcEnds(t)
  BY <1>2, GetcKeeps, GetcEndsKeeps
<1>3. CASE Stop
  <2>1. UNCHANGED <<bufs, inGetc, othread>> /\ oThreadStop' \in BOOLEAN
    BY <1>3, Zenon DEF Stop
  <2> QED BY <2>1, StoppingKeeps
<1>4. CASE OStep
  BY <1>4, OutputThreadKeeps
<1>5. CASE UNCHANGED vars
  <2>1. UNCHANGED <<bufs, inGetc, othread, oThreadStop>> /\ oThreadStop \in BOOLEAN
    BY <1>5, TypeOKParts DEF vars, IInv, RestOK
  <2>2. oThreadStop' \in BOOLEAN
    BY <2>1, Zenon
  <2> QED BY <2>1, <2>2, StoppingKeeps
<1> QED BY <1>1, <1>2, <1>3, <1>4, <1>5 DEF Next

LEMMA InvHolds == Spec => []IInv
  BY InitHolds, StepKeeps, PTL DEF Spec

-----------------------------------------------------------------------------
\* The results.

\* initBuffers(), the traps and the output thread keep every variable in its
\* type: no place in a buffer is ever outside it.
THEOREM ConsoleIsTyped == Spec => []TypeOK
<1>1. IInv => TypeOK
  BY DEF IInv
<1> QED BY <1>1, InvHolds, PTL

\* Whatever the order of interrupts, getc() calls and wake-ups, the characters
\* of the input buffer are those that are free and those kept for woken readers.
THEOREM InputIsNeverLost == Spec => []InputIsAccounted
<1>1. IInv => InputIsAccounted
  BY DEF IInv
<1> QED BY <1>1, InvHolds, PTL

\* The output thread never sends what is not in the buffer, wherever in its
\* wait() a trap came.
THEOREM OnlyWhatIsThereIsSent == Spec => []SendsWhatIsThere
<1>1. IInv => SendsWhatIsThere
  BY DEF IInv, SendingHasWork, Sending, SendsWhatIsThere
<1> QED BY <1>1, InvHolds, PTL

\* If the output thread runs with interrupts disabled, as wait() expects, the
\* semaphore counts the characters it has to send.
THEOREM CleanOutputIsAccounted == Spec => [](~oSIE => OutputIsAccounted)
<1>1. IInv => (~oSIE => OutputIsAccounted)
  BY DEF IInv, CleanSending, OutputIsAccounted
<1> QED BY <1>1, InvHolds, PTL

-----------------------------------------------------------------------------
\* The ring buffers implement Fifo.

\* What a step does to the queue that is buffer b.
Moves(b) ==
    \/ UNCHANGED <<Contents(b), last[b]>>
    \/ /\ Len(Contents(b)) < Cap(b) - 1
       /\ \E c \in Chars : Contents(b)' = Append(Contents(b), c)
       /\ last'[b] = last[b]
    \/ /\ Contents(b) # <<>>
       /\ last'[b] = Head(Contents(b))
       /\ Contents(b)' = Tail(Contents(b))

LEMMA PutIsAMove ==
    ASSUME BufsOK, NEW b \in Buffers, NEW c \in Chars, PutIfNotFull(b, c)
    PROVE  \A d \in Buffers : Moves(d)
<1>1. /\ UNCHANGED <<head, last>>
      /\ \A d \in Buffers \ {b} : buffer'[d] = buffer[d] /\ tail'[d] = tail[d]
      /\ \/ UNCHANGED <<buffer, tail>>
         \/ /\ Len(Contents(b)) < Cap(b) - 1
            /\ Contents(b)' = Append(Contents(b), c)
  BY PutMoves
<1>2. \A d \in Buffers : buffer'[d] = buffer[d] /\ tail'[d] = tail[d] =>
        Contents(d)' = Contents(d) /\ last'[d] = last[d]
  BY <1>1 DEF Contents, Cnt
<1>3. \A d \in Buffers \ {b} : Moves(d)
  BY <1>1, <1>2 DEF Moves
<1>4. Moves(b)
  BY <1>1, <1>2 DEF Moves
<1> QED BY <1>3, <1>4

LEMMA TakeIsAMove ==
    ASSUME BufsOK, NEW b \in Buffers, Cnt(b) > 0, Take(b), UNCHANGED <<buffer, tail>>
    PROVE  \A d \in Buffers : Moves(d)
<1>1. /\ \A d \in Buffers \ {b} : head'[d] = head[d] /\ last'[d] = last[d]
      /\ Contents(b) # <<>>
      /\ last'[b] = Head(Contents(b))
      /\ Contents(b)' = Tail(Contents(b))
  BY TakeMoves
<1>2. \A d \in Buffers : head'[d] = head[d] => Contents(d)' = Contents(d)
  BY DEF Contents, Cnt
<1>3. \A d \in Buffers \ {b} : Moves(d)
  BY <1>1, <1>2 DEF Moves
<1>4. Moves(b)
  BY <1>1 DEF Moves
<1> QED BY <1>3, <1>4

LEMMA NothingIsAMove ==
    ASSUME UNCHANGED <<buffer, head, tail, last>>
    PROVE  \A d \in Buffers : Moves(d)
  BY DEF Moves, Contents, Cnt

LEMMA StepMoves ==
    ASSUME IInv, [Next]_vars
    PROVE  \A d \in Buffers : Moves(d)
<1>1. BufsOK /\ "ib" \in Buffers /\ "ob" \in Buffers
  BY TypeOKParts DEF Buffers, IInv
<1>2. ASSUME NEW c \in Chars, Input(c) PROVE \A d \in Buffers : Moves(d)
  BY <1>1, <1>2, PutIsAMove DEF Input
<1>3. ASSUME NEW c \in Chars, Putc(c) PROVE \A d \in Buffers : Moves(d)
  BY <1>1, <1>3, PutIsAMove DEF Putc
<1>4. ASSUME NEW t \in Threads, Getc(t) PROVE \A d \in Buffers : Moves(d)
  <2>1. /\ value' = [value EXCEPT !["ib"] = @ - 1]
        /\ UNCHANGED <<buffer, tail>>
        /\ \/ UNCHANGED <<head, last>>
           \/ Take("ib") /\ ~(value'["ib"] < 0)
    BY <1>4 DEF Getc, Blocks
  <2>2. CASE UNCHANGED <<head, last>>
    BY <2>1, <2>2, NothingIsAMove
  <2>3. CASE Take("ib") /\ ~(value'["ib"] < 0)
    <3>1. value["ib"] \in Int /\ value'["ib"] = value["ib"] - 1
      BY <1>1, <2>1 DEF BufsOK
    <3>2. value["ib"] > 0
      BY <2>3, <3>1
    <3>3. Cnt("ib") > 0
      <4>1. Cnt("ib") = value["ib"] + Cardinality(Woken) /\ Cardinality(Woken) \in Nat
        BY <3>2, WokenIsFinite DEF IInv, InputIsAccounted, Permits
      <4> QED BY <3>1, <3>2, <4>1
    <3> QED BY <1>1, <2>1, <2>3, <3>3, TakeIsAMove
  <2> QED BY <2>1, <2>2, <2>3
<1>5. ASSUME NEW t \in Threads, GetcEnds(t) PROVE \A d \in Buffers : Moves(d)
  <2>1. Take("ib") /\ UNCHANGED <<buffer, tail>> /\ t \in Woken
    BY <1>5 DEF GetcEnds
  <2>2. /\ Cnt("ib") = Permits("ib") + Cardinality(Woken)
        /\ IsFiniteSet(Woken) /\ Cardinality(Woken) \in Nat
        /\ value["ib"] \in Int
    BY <1>1, WokenIsFinite DEF IInv, InputIsAccounted, BufsOK
  <2>3. Cardinality(Woken) # 0 /\ Permits("ib") \in Nat
    BY <2>1, <2>2, FS_EmptySet DEF Permits
  <2>4. Cnt("ib") > 0
    BY <2>2, <2>3
  <2> QED BY <1>1, <2>1, <2>4, TakeIsAMove
<1>6. CASE OTake
  <2>1. Take("ob") /\ UNCHANGED <<buffer, tail>> /\ Cnt("ob") > 0
    BY <1>6 DEF OTake, IInv, SendingHasWork, Sending
  <2> QED BY <1>1, <2>1, TakeIsAMove
<1>7. CASE Stop \/ OLook \/ OLoad \/ OStore \/ OBlock \/ OWake \/ UNCHANGED vars
  <2>1. UNCHANGED <<buffer, head, tail, last>>
    BY <1>7 DEF Stop, OLook, OLoad, OStore, OBlock, OWake, vars, bufs
  <2> QED BY <2>1, NothingIsAMove
<1> QED BY <1>2, <1>3, <1>4, <1>5, <1>6, <1>7 DEF Next, OStep

LEMMA InitIsEmpty == Init => InFifo!Init /\ OutFifo!Init
<1> SUFFICES ASSUME Init PROVE InFifo!Init /\ OutFifo!Init
  OBVIOUS
<1>1. Contents("ib") = <<>> /\ Contents("ob") = <<>>
  BY EmptyBuffers DEF Buffers
<1>2. last["ib"] = Nothing /\ last["ob"] = Nothing
  BY DEF Init, Buffers
<1> QED BY <1>1, <1>2 DEF InFifo!Init, OutFifo!Init

LEMMA StepIsFifoStep ==
    IInv /\ [Next]_vars =>
      /\ [InFifo!Next]_<<Contents("ib"), last["ib"]>>
      /\ [OutFifo!Next]_<<Contents("ob"), last["ob"]>>
<1> SUFFICES ASSUME IInv, [Next]_vars
             PROVE  /\ [InFifo!Next]_<<Contents("ib"), last["ib"]>>
                    /\ [OutFifo!Next]_<<Contents("ob"), last["ob"]>>
  OBVIOUS
<1>1. /\ Moves("ib") /\ Moves("ob")
      /\ Cap("ib") = InCap /\ Cap("ob") = OutCap
  BY StepMoves DEF Buffers, Cap
<1>2. [InFifo!Next]_<<Contents("ib"), last["ib"]>>
  BY <1>1 DEF Moves, InFifo!Next, InFifo!Get, InFifo!Put
<1>3. [OutFifo!Next]_<<Contents("ob"), last["ob"]>>
  BY <1>1 DEF Moves, OutFifo!Next, OutFifo!Get, OutFifo!Put
<1> QED BY <1>2, <1>3

\* Each console buffer is a bounded queue: no character that it accepted is lost,
\* repeated or overtaken, though the output thread's get() is not one step.
THEOREM BuffersKeepTheOrder == Spec => BuffersAreFifos
<1>1. Spec => InFifo!Spec
  BY InitIsEmpty, StepIsFifoStep, InvHolds, PTL DEF Spec, InFifo!Spec
<1>2. Spec => OutFifo!Spec
  BY InitIsEmpty, StepIsFifoStep, InvHolds, PTL DEF Spec, OutFifo!Spec
<1> QED BY <1>1, <1>2 DEF BuffersAreFifos

=============================================================================
