--------------------------- MODULE AllocatorProofs ---------------------------
(***************************************************************************)
(* Proofs about Allocator, for every size of the heap and of its blocks    *)
(* and every set of requests that does not overflow: the slabs tile the    *)
(* heap, the list is one circle through the free ones, the counter counts  *)
(* their blocks, grants agree with mem_get_largest_free_block(), and       *)
(* Allocator implements Heap.                                              *)
(***************************************************************************)
EXTENDS Allocator, QueueLemmas, FiniteSetTheorems

-----------------------------------------------------------------------------
\* The inductive invariant.

\* Slabs of the sizes sz tile the heap: each but slab 0 has blocks, ends where
\* another one or nothing begins, and every block is in one of them.
Tiles(sz) ==
    /\ DOMAIN sz \subseteq 0..(Blocks - 1)
    /\ 0 \in DOMAIN sz /\ 1 \in DOMAIN sz
    /\ sz \in [DOMAIN sz -> 0..(Blocks - 1)]
    /\ sz[0] = 0
    /\ \A b \in DOMAIN sz \ {0} : sz[b] > 0 /\ b + sz[b] \in DOMAIN sz \union {Blocks}
    /\ \A b, c \in DOMAIN sz \ {0} : b < c => b + sz[b] <= c
    /\ \A k \in 1..(Blocks - 1) : \E b \in DOMAIN sz : b <= k /\ k < b + sz[b]

\* c goes once round the slabs of free along nx, from slab it back to it.
Circles(c, n, nx, free, it) ==
    /\ n \in Nat \ {0}
    /\ c \in [0..n -> free]
    /\ c[0] = it /\ c[n] = it
    /\ \A i \in 1..n : c[i] = nx[c[i-1]]
    /\ \A b \in free : \E i \in 1..n : c[i] = b
    /\ \A i, j \in 1..n : c[i] = c[j] => i = j

\* The blocks of the slabs of free.
BlocksOf(sz, free) == {k \in 1..(Blocks - 1) : \E b \in free : b <= k /\ k < b + sz[b]}

\* What a running call looks for is what its caller asked for.
CallIsSound ==
    IF pc = "idle" THEN nBytes = 0
    ELSE asked \in Requests /\ need = NeededBlocks(asked)

Rounds(n, nx, free, it) == \E c \in [0..n -> free] : Circles(c, n, nx, free, it)

ListInv ==
    /\ Tiles(size)
    /\ next \in [Slabs -> (0..(Blocks - 1)) \union {Allocated}]
    /\ Rounds(listSize, next, FreeSlabs, iteratorAddress)
    /\ 0 \in FreeSlabs
    /\ totalAvailableBlocks = Cardinality(BlocksOf(size, FreeSlabs))

CallInv ==
    /\ pc \in {"idle", "test", "merge"}
    /\ nBytes \in 0..(Size - 1)
    /\ first \in 0..(Blocks - 1)
    /\ secondTry \in BOOLEAN
    /\ asked \in Nat
    /\ answer \in 1..(Blocks - 1) \union {Null}
    /\ CallIsSound

IInv == ListInv /\ CallInv

-----------------------------------------------------------------------------
\* Numbers.

\* The quotient and the remainder of a number.
LEMMA Division ==
    ASSUME NEW n \in Nat, NEW d \in Nat \ {0}
    PROVE  /\ n \div d \in Nat /\ n % d \in 0..(d - 1)
           /\ n = d * (n \div d) + (n % d)
  OBVIOUS

LEMMA DivisionIs ==
    ASSUME NEW d \in Nat \ {0}, NEW k \in Nat, NEW r \in 0..(d - 1)
    PROVE  (d * k + r) \div d = k /\ (d * k + r) % d = r
  OBVIOUS

LEMMA SmallRemainder ==
    ASSUME NEW d \in Nat \ {0}, NEW n \in 0..(d - 1)
    PROVE  n % d = n
  OBVIOUS

LEMMA NumbersMultiply ==
    ASSUME NEW a \in Nat, NEW b \in Nat, NEW c \in Nat
    PROVE  /\ a * b \in Nat
           /\ a <= b => c * a <= c * b
           /\ a < b => c * a + c <= c * b
           /\ c * (a + 1) = c * a + c
           /\ c > 0 /\ a > 0 => c * (a - 1) = c * a - c
  OBVIOUS

\* neededBlocks() is the least number of blocks that hold n bytes and an MMD, if
\* uint32 can tell it.
LEMMA NeededBlocksIs ==
    ASSUME NEW n \in Nat, n <= BlockSize * (Word - 1) - MMDSize
    PROVE  /\ NeededBlocks(n) \in 1..(Word - 1)
           /\ n + MMDSize <= BlockSize * NeededBlocks(n)
           /\ BlockSize * (NeededBlocks(n) - 1) < n + MMDSize
<1> DEFINE q == n \div BlockSize
<1> DEFINE r == n % BlockSize
<1> DEFINE more == IF r <= BlockSize - MMDSize THEN 1 ELSE 2
<1> DEFINE w == BlockSize * (Word - 1)
<1> DEFINE qs == BlockSize * q
<1>1. BlockSize \in Nat \ {0} /\ MMDSize \in Nat \ {0} /\ MMDSize < BlockSize /\ Word \in Nat /\ Word > 1
  BY HeapAssumption
<1>2. q \in Nat /\ r \in 0..(BlockSize - 1) /\ n = qs + r
  BY <1>1, Division
<1>3. NeededBlocks(n) = ((q % Word) + more) % Word
  BY DEF NeededBlocks
<1>4. n <= w - MMDSize
  OBVIOUS
<1>5. qs \in Nat /\ w \in Nat
  BY <1>1, <1>2
<1>6. q < Word - 1
  <2>1. q >= Word - 1 => qs >= w
    BY <1>1, <1>2, NumbersMultiply
  <2> HIDE DEF q, r, qs, w
  <2> QED BY <1>1, <1>2, <1>4, <1>5, <2>1
<1>7. BlockSize * (q + 1) = qs + BlockSize /\ BlockSize * (q + 2) = qs + BlockSize + BlockSize
  <2> HIDE DEF q
  <2> QED BY <1>1, <1>2
<1>8. BlockSize * (q + 1) <= w
  <2> HIDE DEF q
  <2> QED BY <1>1, <1>2, <1>6, NumbersMultiply
<1>9. q + more \in 1..(Word - 1)
  <2>1. CASE q + 2 < Word
    <3> HIDE DEF q, r
    <3> QED BY <1>1, <1>2, <2>1
  <2>2. CASE ~(q + 2 < Word)
    <3>1. q + 1 = Word - 1
      <4> HIDE DEF q
      <4> QED BY <1>1, <1>2, <1>6, <2>2
    <3>2. w = qs + BlockSize
      BY <1>7, <3>1
    <3>3. r <= BlockSize - MMDSize
      <4> HIDE DEF q, r, qs, w
      <4> QED BY <1>1, <1>2, <1>4, <1>5, <3>2
    <3> HIDE DEF q, r
    <3> QED BY <1>1, <1>2, <3>1, <3>3
  <2> QED BY <2>1, <2>2
<1>10. NeededBlocks(n) = q + more
  <2>1. q % Word = q
    <3> HIDE DEF q
    <3> QED BY <1>1, <1>2, <1>6, SmallRemainder
  <2>2. (q + more) % Word = q + more
    <3> DEFINE s == q + more
    <3>1. s \in 0..(Word - 1)
      BY <1>9
    <3> HIDE DEF s
    <3>2. s % Word = s
      BY <1>1, <3>1, SmallRemainder
    <3> QED BY <3>2 DEF s
  <2> QED BY <1>3, <2>1, <2>2
<1> HIDE DEF q, r, qs
<1>11. CASE more = 1
  <2>1. r <= BlockSize - MMDSize
    BY <1>1, <1>2, <1>11
  <2>2. NeededBlocks(n) = q + 1 /\ NeededBlocks(n) - 1 = q
    BY <1>2, <1>10, <1>11
  <2>3. BlockSize * NeededBlocks(n) = qs + BlockSize /\ BlockSize * (NeededBlocks(n) - 1) = qs
    BY <1>7, <2>2 DEF qs
  <2> QED BY <1>1, <1>2, <1>5, <1>9, <1>10, <2>1, <2>3
<1>12. CASE more = 2
  <2>1. r > BlockSize - MMDSize
    BY <1>1, <1>2, <1>12
  <2>2. NeededBlocks(n) = q + 2 /\ NeededBlocks(n) - 1 = q + 1
    BY <1>2, <1>10, <1>12
  <2>3. /\ BlockSize * NeededBlocks(n) = qs + BlockSize + BlockSize
        /\ BlockSize * (NeededBlocks(n) - 1) = qs + BlockSize
    BY <1>7, <2>2
  <2> QED BY <1>1, <1>2, <1>5, <1>9, <1>10, <2>1, <2>3
<1> QED BY <1>11, <1>12

\* mem_alloc() rounds a request up to whole blocks; allocateBytes() finds the
\* same number of blocks for it.
LEMMA NeededBytesIs ==
    ASSUME NEW k \in 1..(Word - 1)
    PROVE  NeededBytes(k) \in 0..(Size - 1) /\ NeededBlocks(NeededBytes(k)) = k
<1> DEFINE m == BlockSize * (k - 1)
<1> DEFINE w == BlockSize * Word
<1>1. /\ BlockSize \in Nat /\ BlockSize > 1 /\ MMDSize \in Nat \ {0} /\ MMDSize < BlockSize
      /\ Word \in Nat \ {0} /\ Size \in Nat /\ w \in Nat /\ Size >= w
  BY HeapAssumption
<1>2. m \in Nat /\ m + BlockSize <= w
  <2>1. k - 1 \in Nat /\ k - 1 < Word
    BY <1>1
  <2> QED BY <1>1, <2>1, NumbersMultiply
<1>3. (k - 1) * BlockSize + 1 = m + 1
  BY <1>1
<1>4. NeededBytes(k) = m + 1 /\ m + 1 \in 0..(Size - 1)
  <2> DEFINE s == m + 1
  <2>1. s \in 0..(Size - 1) /\ Size \in Nat \ {0}
    <3> HIDE DEF m, w
    <3> QED BY <1>1, <1>2
  <2>2. NeededBytes(k) = s % Size
    BY <1>3 DEF NeededBytes
  <2> HIDE DEF s
  <2>3. s % Size = s
    BY <2>1, SmallRemainder
  <2> QED BY <2>1, <2>2, <2>3 DEF s
<1>5. (m + 1) \div BlockSize = k - 1 /\ (m + 1) % BlockSize = 1
  <2>1. k - 1 \in Nat /\ 1 \in 0..(BlockSize - 1) /\ BlockSize \in Nat \ {0}
    BY <1>1
  <2> QED BY <2>1, DivisionIs
<1>6. (k - 1) % Word = k - 1 /\ k % Word = k
  BY <1>1, SmallRemainder
<1>7. NeededBlocks(m + 1) = ((k - 1) + 1) % Word
  <2>1. 1 <= BlockSize - MMDSize
    BY <1>1
  <2> QED BY <1>5, <1>6, <2>1 DEF NeededBlocks
<1>8. (k - 1) + 1 = k
  BY <1>1
<1> QED BY <1>4, <1>6, <1>7, <1>8

\* Of a request of the model.
LEMMA RequestIsServed ==
    ASSUME NEW n \in Requests
    PROVE  /\ n \in Nat /\ n \in 0..(Size - 1)
           /\ NeededBlocks(n) \in 1..(Word - 1)
           /\ NeededBytes(NeededBlocks(n)) \in 0..(Size - 1)
           /\ NeededBlocks(NeededBytes(NeededBlocks(n))) = NeededBlocks(n)
<1>1. n \in Nat /\ n <= BlockSize * (Word - 1) - MMDSize
  BY RequestsAssumption
<1>2. BlockSize * (Word - 1) <= BlockSize * Word - BlockSize
  BY HeapAssumption
<1>3. n \in 0..(Size - 1)
  <2> DEFINE w == BlockSize * Word
  <2> DEFINE v == BlockSize * (Word - 1)
  <2>1. w \in Int /\ v \in Int /\ v <= w - BlockSize /\ n <= v - MMDSize /\ Size >= w
    BY <1>1, <1>2, HeapAssumption
  <2> HIDE DEF w, v
  <2> QED BY <1>1, <2>1, HeapAssumption
<1>4. NeededBlocks(n) \in 1..(Word - 1)
  BY <1>1, NeededBlocksIs
<1> QED BY <1>1, <1>3, <1>4, NeededBytesIs

-----------------------------------------------------------------------------
\* Slabs.

\* A slab other than slab 0, and the places around it.
LEMMA SlabInHeap ==
    ASSUME NEW sz, Tiles(sz), NEW b \in DOMAIN sz
    PROVE  /\ b \in 0..(Blocks - 1) /\ sz[b] \in 0..(Blocks - 1)
           /\ sz[b] = 0 <=> b = 0
           /\ b # 0 => b + sz[b] \in 1..Blocks /\ b + sz[b] > b
           /\ b # 0 /\ b + sz[b] < Blocks => b + sz[b] \in DOMAIN sz \ {0}
<1>1. Blocks \in Nat
  BY HeapAssumption
<1> QED BY <1>1 DEF Tiles

\* A slab that is cut in two.
LEMMA SplitTiles ==
    ASSUME NEW sz, Tiles(sz), NEW b \in DOMAIN sz, b # 0, NEW n \in 1..(sz[b] - 1),
           NEW c, c = b + n,
           NEW new, DOMAIN new = DOMAIN sz \union {c},
           new = [x \in DOMAIN new |-> new[x]],
           new[b] = n, new[c] = sz[b] - n,
           \A x \in DOMAIN sz \ {b} : new[x] = sz[x]
    PROVE  c \notin DOMAIN sz /\ c \in 1..(Blocks - 1) /\ Tiles(new)
<1>1. Blocks \in Nat
  BY HeapAssumption
<1>2. b \in 1..(Blocks - 1) /\ sz[b] \in 1..(Blocks - 1) /\ b + sz[b] <= Blocks
  BY SlabInHeap
<1>3. c \in 1..(Blocks - 1) /\ b < c /\ c < b + sz[b] /\ c + new[c] = b + sz[b] /\ b + new[b] = c
  BY <1>1, <1>2
<1>4. c \notin DOMAIN sz
  <2>1. SUFFICES ASSUME c \in DOMAIN sz PROVE FALSE
    OBVIOUS
  <2>2. c \in DOMAIN sz \ {0} /\ b \in DOMAIN sz \ {0}
    BY <1>3, <2>1
  <2>3. b + sz[b] <= c
    BY <1>3, <2>2 DEF Tiles
  <2> QED BY <1>2, <1>3, <2>3
<1>5. /\ DOMAIN new \subseteq 0..(Blocks - 1)
      /\ 0 \in DOMAIN new /\ 1 \in DOMAIN new /\ new[0] = 0
  BY <1>3 DEF Tiles
<1>6. ASSUME NEW x \in DOMAIN new PROVE new[x] \in 0..(Blocks - 1)
  BY <1>1, <1>2, SlabInHeap
<1>7. ASSUME NEW x \in DOMAIN new, x # 0
      PROVE  new[x] > 0 /\ x + new[x] \in DOMAIN new \union {Blocks}
  <2>1. CASE x = b \/ x = c
    BY <1>1, <1>2, <1>3, <2>1 DEF Tiles
  <2>2. CASE x # b /\ x # c
    BY <2>2, <1>7 DEF Tiles
  <2> QED BY <2>1, <2>2
<1>8. ASSUME NEW x \in DOMAIN new, NEW y \in DOMAIN new, x # 0, y # 0, x < y
      PROVE  x + new[x] <= y
  <2>1. \A z \in DOMAIN sz \ {0} : /\ z \in 1..(Blocks - 1) /\ sz[z] \in 1..(Blocks - 1)
                                   /\ z < b => z + sz[z] <= b
                                   /\ b < z => b + sz[b] <= z
    BY <1>2, SlabInHeap DEF Tiles
  <2>2. CASE x = b
    BY <1>1, <1>2, <1>3, <1>8, <2>1, <2>2
  <2>3. CASE x = c
    BY <1>1, <1>2, <1>3, <1>8, <2>1, <2>3
  <2>4. CASE x # b /\ x # c
    <3>1. x \in DOMAIN sz \ {0} /\ new[x] = sz[x]
      BY <1>8, <2>4
    <3>2. CASE y = c
      BY <1>1, <1>2, <1>3, <1>8, <2>1, <2>4, <3>1, <3>2
    <3>3. CASE y # c
      <4>1. y \in DOMAIN sz \ {0}
        BY <1>8, <3>3
      <4> QED BY <1>8, <3>1, <4>1 DEF Tiles
    <3> QED BY <3>2, <3>3
  <2> QED BY <2>2, <2>3, <2>4
<1>9. ASSUME NEW k \in 1..(Blocks - 1)
      PROVE  \E x \in DOMAIN new : x <= k /\ k < x + new[x]
  <2>1. PICK x \in DOMAIN sz : x <= k /\ k < x + sz[x]
    BY DEF Tiles
  <2>2. CASE x # b
    BY <2>1, <2>2
  <2>3. CASE x = b
    BY <1>1, <1>2, <1>3, <2>1, <2>3
  <2> QED BY <2>2, <2>3
<1>10. new \in [DOMAIN new -> 0..(Blocks - 1)]
  BY <1>6
<1> QED BY <1>3, <1>4, <1>5, <1>7, <1>8, <1>9, <1>10 DEF Tiles

\* A slab that takes in the one above it.
LEMMA MergeTiles ==
    ASSUME NEW sz, Tiles(sz), NEW b \in DOMAIN sz, b # 0,
           NEW a, a = b + sz[b], a < Blocks,
           NEW new, DOMAIN new = DOMAIN sz \ {a},
           new = [x \in DOMAIN new |-> new[x]],
           new[b] = sz[b] + sz[a],
           \A x \in DOMAIN sz \ {a, b} : new[x] = sz[x]
    PROVE  a \in DOMAIN sz \ {0, 1, b} /\ Tiles(new)
<1>1. Blocks \in Nat
  BY HeapAssumption
<1>2. b \in 1..(Blocks - 1) /\ sz[b] \in 1..(Blocks - 1)
  BY SlabInHeap
<1>3. a \in DOMAIN sz \ {0, 1, b} /\ a > b
  BY <1>1, <1>2, SlabInHeap
<1>4. a \in 1..(Blocks - 1) /\ sz[a] \in 1..(Blocks - 1) /\ a + sz[a] <= Blocks
  BY <1>3, SlabInHeap
<1>5. b + new[b] = a + sz[a] /\ b \in DOMAIN new
  BY <1>2, <1>3, <1>4
<1>6. /\ DOMAIN new \subseteq 0..(Blocks - 1)
      /\ 0 \in DOMAIN new /\ 1 \in DOMAIN new /\ new[0] = 0
  BY <1>3 DEF Tiles
<1>7. ASSUME NEW x \in DOMAIN new PROVE new[x] \in 0..(Blocks - 1)
  <2>1. CASE x = b
    BY <1>1, <1>2, <1>4, <2>1
  <2>2. CASE x # b
    BY <2>2, SlabInHeap
  <2> QED BY <2>1, <2>2
<1>8. ASSUME NEW x \in DOMAIN new, x # 0
      PROVE  new[x] > 0 /\ x + new[x] \in DOMAIN new \union {Blocks}
  <2>1. CASE x = b
    <3>1. a + sz[a] \in DOMAIN sz \union {Blocks} /\ a + sz[a] # a
      BY <1>3, <1>4 DEF Tiles
    <3> QED BY <1>2, <1>4, <1>5, <2>1, <3>1
  <2>2. CASE x # b
    <3>1. new[x] = sz[x] /\ x \in DOMAIN sz \ {0} /\ b \in DOMAIN sz \ {0}
      BY <1>2, <1>8, <2>2
    <3>2. x \in 1..(Blocks - 1) /\ sz[x] \in 1..(Blocks - 1)
      BY <3>1, SlabInHeap
    <3>3. (x < b => x + sz[x] <= b) /\ (b < x => a <= x) /\ x # a
      BY <3>1 DEF Tiles
    <3>4. x + sz[x] # a
      BY <1>2, <1>3, <2>2, <3>2, <3>3
    <3> QED BY <3>1, <3>4 DEF Tiles
  <2> QED BY <2>1, <2>2
<1>9. ASSUME NEW x \in DOMAIN new, NEW y \in DOMAIN new, x # 0, y # 0, x < y
      PROVE  x + new[x] <= y
  <2>1. x \in DOMAIN sz \ {0} /\ y \in DOMAIN sz \ {0} /\ a \in DOMAIN sz \ {0} /\ y # a
    BY <1>3, <1>9
  <2>2. x + sz[x] <= y
    BY <1>9, <2>1 DEF Tiles
  <2>3. CASE x = b
    <3>1. a < y /\ y \in Nat
      BY <1>4, <2>1, <2>2, <2>3, SlabInHeap
    <3> QED BY <1>5, <2>1, <2>3, <3>1 DEF Tiles
  <2>4. CASE x # b
    BY <2>1, <2>2, <2>4
  <2> QED BY <2>3, <2>4
<1>10. ASSUME NEW k \in 1..(Blocks - 1)
      PROVE  \E x \in DOMAIN new : x <= k /\ k < x + new[x]
  <2>1. PICK x \in DOMAIN sz : x <= k /\ k < x + sz[x]
    BY DEF Tiles
  <2>2. CASE x # b /\ x # a
    BY <2>1, <2>2
  <2>3. CASE x = b \/ x = a
    <3>1. b <= k /\ k < b + new[b]
      BY <1>1, <1>2, <1>3, <1>4, <1>5, <2>1, <2>3
    <3> QED BY <1>5, <3>1
  <2> QED BY <2>2, <2>3
<1>11. new \in [DOMAIN new -> 0..(Blocks - 1)]
  BY <1>7
<1> QED BY <1>3, <1>6, <1>8, <1>9, <1>10, <1>11 DEF Tiles

-----------------------------------------------------------------------------
\* The list.

LEMMA CircleSteps ==
    ASSUME NEW c, NEW n, NEW nx, NEW F, NEW it, Circles(c, n, nx, F, it)
    PROVE  /\ it \in F
           /\ \A b \in F : nx[b] \in F
           /\ \A a, b \in F : nx[a] = nx[b] => a = b
           /\ \A b \in F : nx[b] = b => F = {b}
<1>1. /\ n \in Nat \ {0} /\ c \in [0..n -> F] /\ c[0] = it /\ c[n] = it
      /\ \A i \in 1..n : c[i] = nx[c[i-1]]
      /\ \A b \in F : \E i \in 1..n : c[i] = b
      /\ \A i, j \in 1..n : c[i] = c[j] => i = j
  BY DEF Circles
<1>2. ASSUME NEW b \in F
      PROVE  \E i \in 1..n : b = c[i-1] /\ nx[b] = c[i]
  <2>1. PICK i \in 1..n : c[i] = b
    BY <1>1
  <2>2. CASE i = n
    <3>1. 1 \in 1..n /\ c[1-1] = b
      BY <1>1, <2>1, <2>2
    <3> QED BY <1>1, <3>1
  <2>3. CASE i # n
    <3>1. i + 1 \in 1..n /\ c[(i+1)-1] = b
      BY <1>1, <2>1, <2>3
    <3> QED BY <1>1, <3>1
  <2> QED BY <2>2, <2>3
<1>3. \A i \in 1..n : c[i] \in F
  BY <1>1
<1>4. it \in F /\ \A b \in F : nx[b] \in F
  <2>1. n \in 1..n
    BY <1>1
  <2>2. it \in F
    BY <1>1, <1>3, <2>1
  <2>3. ASSUME NEW b \in F PROVE nx[b] \in F
    <3>1. PICK i \in 1..n : nx[b] = c[i]
      BY <1>2
    <3> QED BY <1>3, <3>1
  <2> QED BY <2>2, <2>3
<1>5. ASSUME NEW a \in F, NEW b \in F, nx[a] = nx[b] PROVE a = b
  <2>1. PICK i \in 1..n : a = c[i-1] /\ nx[a] = c[i]
    BY <1>2
  <2>2. PICK j \in 1..n : b = c[j-1] /\ nx[b] = c[j]
    BY <1>2
  <2>3. i = j
    BY <1>1, <1>5, <2>1, <2>2
  <2> QED BY <2>1, <2>2, <2>3
<1>6. ASSUME NEW b \in F, nx[b] = b PROVE F = {b}
  <2>1. PICK i \in 1..n : b = c[i-1] /\ nx[b] = c[i]
    BY <1>2
  <2>2. i = 1
    <3>1. CASE i - 1 \in 1..n
      <4>1. c[i-1] = c[i]
        BY <1>6, <2>1
      <4>2. i - 1 = i
        BY <1>1, <3>1, <4>1
      <4> QED BY <4>2
    <3>2. CASE i - 1 \notin 1..n
      BY <1>1, <3>2
    <3> QED BY <3>1, <3>2
  <2>3. n = 1
    <3>1. c[1] = c[n] /\ 1 \in 1..n /\ n \in 1..n
      BY <1>1, <1>6, <2>1, <2>2
    <3> QED BY <1>1, <3>1
  <2>4. \A x \in F : x = c[1]
    BY <1>1, <2>3
  <2>5. b = c[1]
    BY <2>4
  <2> QED BY <2>4, <2>5
<1> QED BY <1>4, <1>5, <1>6

\* Whatever contains a slab of the list and the next of each of its slabs
\* contains them all.
LEMMA CircleIsAll ==
    ASSUME NEW c, NEW n, NEW nx, NEW F, NEW it, Circles(c, n, nx, F, it),
           NEW P \in SUBSET F, it \in P, \A b \in P : nx[b] \in P
    PROVE  P = F
<1>1. /\ n \in Nat \ {0} /\ c \in [0..n -> F] /\ c[0] = it
      /\ \A i \in 1..n : c[i] = nx[c[i-1]]
      /\ \A b \in F : \E i \in 1..n : c[i] = b
  BY DEF Circles
<1> DEFINE T == {i \in Nat : i <= n => c[i] \in P}
<1>2. 0 \in T
  BY <1>1
<1>3. ASSUME NEW i \in T PROVE i + 1 \in T
  <2>1. CASE i + 1 <= n
    <3>1. i + 1 \in 1..n /\ (i + 1) - 1 = i /\ c[i] \in P
      BY <1>1, <2>1
    <3>2. c[i+1] = nx[c[i]]
      BY <1>1, <3>1
    <3> QED BY <3>1, <3>2
  <2>2. CASE ~(i + 1 <= n)
    BY <2>2
  <2> QED BY <2>1, <2>2
<1>4. T \in SUBSET Nat
  OBVIOUS
<1> HIDE DEF T
<1>5. T = Nat
  BY <1>2, <1>3, <1>4, SetInduction
<1>6. ASSUME NEW i \in 1..n PROVE c[i] \in P
  <2>1. i \in T /\ i <= n
    BY <1>1, <1>5
  <2> QED BY <2>1 DEF T
<1>7. ASSUME NEW b \in F PROVE b \in P
  <2>1. PICK i \in 1..n : c[i] = b
    BY <1>1
  <2> QED BY <1>6, <2>1
<1> QED BY <1>7

LEMMA CircleCounts ==
    ASSUME NEW c, NEW n, NEW nx, NEW F, NEW it, Circles(c, n, nx, F, it)
    PROVE  IsFiniteSet(F) /\ Cardinality(F) = n
<1>1. /\ n \in Nat \ {0} /\ c \in [0..n -> F]
      /\ \A b \in F : \E i \in 1..n : c[i] = b
      /\ \A i, j \in 1..n : c[i] = c[j] => i = j
  BY DEF Circles
<1> DEFINE f == [i \in 1..n |-> c[i]]
<1>2. f \in [1..n -> F]
  BY <1>1
<1>3. f \in Injection(1..n, F)
  BY <1>1, <1>2 DEF Injection, IsInjective
<1>4. f \in Surjection(1..n, F)
  BY <1>1, <1>2 DEF Surjection
<1>5. ExistsBijection(1..n, F)
  BY <1>3, <1>4 DEF ExistsBijection, Bijection
<1>6. IsFiniteSet(1..n) /\ Cardinality(1..n) = n
  BY <1>1, FS_Interval
<1> QED BY <1>5, <1>6, FS_Bijection

LEMMA CircleAdvances ==
    ASSUME NEW c, NEW n, NEW nx, NEW F, NEW it, Circles(c, n, nx, F, it)
    PROVE  \E d \in [0..n -> F] : Circles(d, n, nx, F, nx[it])
<1>1. /\ n \in Nat \ {0} /\ c \in [0..n -> F] /\ c[0] = it /\ c[n] = it
      /\ \A i \in 1..n : c[i] = nx[c[i-1]]
      /\ \A b \in F : \E i \in 1..n : c[i] = b
      /\ \A i, j \in 1..n : c[i] = c[j] => i = j
  BY DEF Circles
<1>2. c[1] = nx[it] /\ 1 \in 0..n
  BY <1>1
<1> DEFINE d == [i \in 0..n |-> IF i = n THEN c[1] ELSE c[i+1]]
<1>3. \A i \in 0..(n-1) : d[i] = c[i+1] /\ i + 1 \in 1..n /\ i \in 0..n
  BY <1>1
<1>4. d[n] = c[1] /\ d[0] = c[1]
  <2>1. CASE n = 1
    BY <1>1, <2>1
  <2>2. CASE n # 1
    BY <1>1, <2>2
  <2> QED BY <2>1, <2>2
<1>5. d \in [0..n -> F]
  BY <1>1
<1> HIDE DEF d
<1>6. ASSUME NEW i \in 1..n PROVE d[i] = nx[d[i-1]]
  <2>1. i - 1 \in 0..(n-1) /\ (i - 1) + 1 = i
    BY <1>1
  <2>2. d[i-1] = c[i]
    BY <1>3, <2>1
  <2>3. CASE i = n
    BY <1>1, <1>2, <1>4, <2>2, <2>3
  <2>4. CASE i # n
    <3>1. i \in 0..(n-1) /\ i + 1 \in 1..n /\ (i + 1) - 1 = i
      BY <1>1, <2>4
    <3>2. d[i] = c[i+1]
      BY <1>3, <3>1
    <3>3. c[i+1] = nx[c[i]]
      BY <1>1, <3>1
    <3> QED BY <2>2, <3>2, <3>3
  <2> QED BY <2>3, <2>4
<1>7. ASSUME NEW b \in F PROVE \E i \in 1..n : d[i] = b
  <2>1. PICK i \in 1..n : c[i] = b
    BY <1>1
  <2>2. CASE i = 1
    <3>1. n \in 1..n
      BY <1>1
    <3> QED BY <1>4, <2>1, <2>2, <3>1
  <2>3. CASE i # 1
    <3>1. i - 1 \in 1..n /\ i - 1 \in 0..(n-1) /\ (i - 1) + 1 = i
      BY <1>1, <2>3
    <3>2. d[i-1] = c[(i - 1) + 1]
      BY <1>3, <3>1
    <3> QED BY <2>1, <3>1, <3>2
  <2> QED BY <2>2, <2>3
<1>8. ASSUME NEW i \in 1..n, NEW j \in 1..n, d[i] = d[j] PROVE i = j
  <2> DEFINE At == [k \in 1..n |-> IF k = n THEN 1 ELSE k + 1]
  <2>1. \A k \in 1..n : d[k] = c[At[k]] /\ At[k] \in 1..n
    <3>1. ASSUME NEW k \in 1..n PROVE d[k] = c[At[k]] /\ At[k] \in 1..n
      <4>1. CASE k = n
        BY <1>1, <1>4, <4>1
      <4>2. CASE k # n
        <5>1. k \in 0..(n - 1) /\ k + 1 \in 1..n
          BY <1>1, <4>2
        <5> QED BY <1>3, <4>2, <5>1
      <4> QED BY <4>1, <4>2
    <3> QED BY <3>1
  <2>2. At[i] = At[j]
    <3> HIDE DEF At
    <3>1. d[i] = c[At[i]] /\ d[j] = c[At[j]] /\ At[i] \in 1..n /\ At[j] \in 1..n
      BY <2>1
    <3>2. c[At[i]] = c[At[j]]
      BY <1>8, <3>1
    <3> QED BY <1>1, <3>1, <3>2
  <2> QED BY <1>1, <2>2
<1> QED BY <1>1, <1>2, <1>4, <1>5, <1>6, <1>7, <1>8 DEF Circles

\* Slab a leaves the list.
LEMMA CircleDrops ==
    ASSUME NEW c, NEW n, NEW nx, NEW F, NEW it, Circles(c, n, nx, F, it),
           NEW a \in F, a # it, NEW new,
           \A b \in F \ {a} : new[b] = IF nx[b] = a THEN nx[a] ELSE nx[b]
    PROVE  \E d \in [0..(n-1) -> F \ {a}] : Circles(d, n - 1, new, F \ {a}, it)
<1>1. /\ n \in Nat \ {0} /\ c \in [0..n -> F] /\ c[0] = it /\ c[n] = it
      /\ \A i \in 1..n : c[i] = nx[c[i-1]]
      /\ \A b \in F : \E i \in 1..n : c[i] = b
      /\ \A i, j \in 1..n : c[i] = c[j] => i = j
  BY DEF Circles
<1>n. n \in Nat \ {0}
  BY <1>1
<1>2. PICK k \in 1..n : c[k] = a
  BY <1>1
<1>3. k < n /\ k \in Nat /\ k >= 1
  BY <1>1, <1>2
<1>4. \A i \in 0..n : c[i] = a => i = k
  BY <1>1, <1>2
<1> DEFINE From(i) == IF i < k THEN i ELSE i + 1
<1> DEFINE d == [i \in 0..(n-1) |-> c[From(i)]]
<1>5. ASSUME NEW i \in 0..(n-1)
      PROVE  From(i) \in 0..n /\ From(i) # k /\ d[i] = c[From(i)] /\ d[i] \in F \ {a}
  <2>1. From(i) \in 0..n /\ From(i) # k /\ d[i] = c[From(i)]
    BY <1>n, <1>3
  <2> HIDE DEF From, d
  <2> QED BY <1>1, <1>4, <2>1
<1>6. d \in [0..(n-1) -> F \ {a}]
  BY <1>5
<1>7. d[0] = it /\ d[n-1] = it
  <2>1. 0 \in 0..(n-1) /\ n - 1 \in 0..(n-1) /\ From(0) = 0 /\ From(n-1) = n
    BY <1>n, <1>3
  <2> HIDE DEF From, d
  <2> QED BY <1>1, <1>5, <2>1
<1>8. ASSUME NEW i \in 1..(n-1) PROVE d[i] = new[d[i-1]]
  <2>1. i \in 0..(n-1) /\ i - 1 \in 0..(n-1) /\ From(i) \in 1..n
    BY <1>n, <1>3
  <2>2. d[i] = c[From(i)] /\ d[i-1] = c[From(i-1)] /\ d[i-1] \in F \ {a} /\ From(i-1) \in 0..n
    <3> HIDE DEF From, d
    <3> QED BY <1>5, <2>1
  <2>3. CASE i = k
    <3>1. From(i) = k + 1 /\ From(i-1) = k - 1 /\ k + 1 \in 1..n /\ (k + 1) - 1 = k /\ k \in 1..n
      BY <1>n, <1>3, <2>3
    <3> HIDE DEF From, d
    <3>2. c[k] = nx[c[k-1]] /\ c[k+1] = nx[c[k]]
      <4>1. c[k] = nx[c[k-1]]
        BY <1>1, <3>1
      <4>2. c[k+1] = nx[c[(k+1)-1]]
        BY <1>1, <3>1
      <4> QED BY <3>1, <4>1, <4>2
    <3>3. nx[d[i-1]] = a /\ d[i] = nx[a]
      BY <1>2, <2>2, <3>1, <3>2
    <3> QED BY <2>2, <3>3
  <2>4. CASE i # k
    <3>1. From(i-1) = From(i) - 1
      BY <1>n, <1>3, <2>4
    <3> HIDE DEF From, d
    <3>2. c[From(i)] = nx[c[From(i) - 1]]
      BY <1>1, <2>1
    <3>3. nx[d[i-1]] = d[i] /\ d[i] # a
      BY <1>5, <2>1, <2>2, <3>1, <3>2
    <3> QED BY <2>2, <3>3
  <2> QED BY <2>3, <2>4
<1>9. ASSUME NEW b \in F \ {a} PROVE \E i \in 1..(n-1) : d[i] = b
  <2>1. PICK j \in 1..n : c[j] = b
    BY <1>1
  <2> DEFINE i == IF j < k THEN j ELSE j - 1
  <2>2. j # k
    BY <1>2, <2>1
  <2>3. i \in 1..(n-1) /\ i \in 0..(n-1) /\ From(i) = j
    BY <1>n, <1>3, <2>2
  <2> HIDE DEF From, d, i
  <2> QED BY <1>5, <2>1, <2>3
<1>10. ASSUME NEW i \in 1..(n-1), NEW j \in 1..(n-1), d[i] = d[j] PROVE i = j
  <2>1. i \in 0..(n-1) /\ j \in 0..(n-1) /\ From(i) \in 1..n /\ From(j) \in 1..n
    BY <1>n, <1>3
  <2>2. From(i) = From(j)
    <3> HIDE DEF From, d
    <3>1. c[From(i)] = c[From(j)]
      BY <1>5, <1>10, <2>1
    <3> QED BY <1>1, <2>1, <3>1
  <2> QED BY <1>n, <1>3, <2>2
<1>11. n - 1 \in Nat \ {0}
  BY <1>1, <1>3
<1> HIDE DEF d
<1> QED BY <1>6, <1>7, <1>8, <1>9, <1>10, <1>11 DEF Circles

\* Slab e takes the place of a.
LEMMA CircleReplaces ==
    ASSUME NEW c, NEW n, NEW nx, NEW F, NEW it, Circles(c, n, nx, F, it),
           NEW a \in F, a # it, NEW e, e \notin F, NEW G, G = (F \ {a}) \union {e},
           NEW new, new[e] = nx[a],
           \A b \in F \ {a} : new[b] = IF nx[b] = a THEN e ELSE nx[b]
    PROVE  \E d \in [0..n -> G] : Circles(d, n, new, G, it)
<1>1. /\ n \in Nat \ {0} /\ c \in [0..n -> F] /\ c[0] = it /\ c[n] = it
      /\ \A i \in 1..n : c[i] = nx[c[i-1]]
      /\ \A b \in F : \E i \in 1..n : c[i] = b
      /\ \A i, j \in 1..n : c[i] = c[j] => i = j
  BY DEF Circles
<1>n. n \in Nat \ {0}
  BY <1>1
<1>2. PICK k \in 1..n : c[k] = a
  BY <1>1
<1>3. k < n /\ k \in Nat /\ k >= 1
  BY <1>1, <1>2
<1>4. \A i \in 0..n : c[i] = a => i = k
  BY <1>1, <1>2
<1> DEFINE d == [i \in 0..n |-> IF i = k THEN e ELSE c[i]]
<1>5. \A i \in 0..n : d[i] = (IF i = k THEN e ELSE c[i]) /\ d[i] \in G
  BY <1>1, <1>4
<1>6. d \in [0..n -> G]
  BY <1>5
<1> HIDE DEF d
<1>7. d[0] = it /\ d[n] = it
  <2>1. 0 \in 0..n /\ n \in 0..n /\ 0 # k /\ n # k
    BY <1>n, <1>3
  <2> QED BY <1>1, <1>5, <2>1
<1>8. ASSUME NEW i \in 1..n PROVE d[i] = new[d[i-1]]
  <2>1. i \in 0..n /\ i - 1 \in 0..n /\ c[i] = nx[c[i-1]]
    <3>1. i \in 0..n /\ i - 1 \in 0..n
      BY <1>n
    <3> QED BY <1>1, <3>1
  <2>2. CASE i = k
    <3>1. i - 1 # k
      BY <1>3, <2>2
    <3>2. d[i] = e /\ d[i-1] = c[i-1] /\ c[i-1] \in F \ {a}
      BY <1>1, <1>4, <1>5, <2>1, <2>2, <3>1
    <3> QED BY <1>2, <2>1, <2>2, <3>2
  <2>3. CASE i - 1 = k
    <3>1. i # k
      BY <1>3, <2>3
    <3> QED BY <1>2, <1>5, <2>1, <2>3, <3>1
  <2>4. CASE i # k /\ i - 1 # k
    <3>1. d[i] = c[i] /\ d[i-1] = c[i-1] /\ c[i-1] \in F \ {a} /\ c[i] # a
      BY <1>1, <1>4, <1>5, <2>1, <2>4
    <3> QED BY <2>1, <3>1
  <2> QED BY <2>2, <2>3, <2>4
<1>9. ASSUME NEW b \in G PROVE \E i \in 1..n : d[i] = b
  <2>1. CASE b = e
    BY <1>3, <1>5, <2>1
  <2>2. CASE b # e
    <3>1. b \in F \ {a}
      BY <2>2
    <3>2. PICK i \in 1..n : c[i] = b
      BY <1>1, <3>1
    <3>3. i # k /\ i \in 0..n
      BY <1>1, <1>2, <3>1, <3>2
    <3> QED BY <1>5, <3>2, <3>3
  <2> QED BY <2>1, <2>2
<1>10. ASSUME NEW i \in 1..n, NEW j \in 1..n, d[i] = d[j] PROVE i = j
  <2>1. i \in 0..n /\ j \in 0..n
    BY <1>1
  <2>2. c[i] \in F /\ c[j] \in F /\ (c[i] = c[j] => i = j)
    BY <1>1, <2>1
  <2>3. d[i] = (IF i = k THEN e ELSE c[i]) /\ d[j] = (IF j = k THEN e ELSE c[j])
    BY <1>5, <2>1
  <2> QED BY <1>10, <2>2, <2>3
<1> QED BY <1>1, <1>6, <1>7, <1>8, <1>9, <1>10 DEF Circles

\* Slab e is put behind the iterator.
LEMMA CircleInserts ==
    ASSUME NEW c, NEW n, NEW nx, NEW F, NEW it, Circles(c, n, nx, F, it),
           NEW e, e \notin F, NEW G, G = F \union {e},
           NEW new, new[e] = nx[it], new[it] = e, \A b \in F \ {it} : new[b] = nx[b]
    PROVE  \E d \in [0..(n+1) -> G] : Circles(d, n + 1, new, G, it)
<1>1. /\ n \in Nat \ {0} /\ c \in [0..n -> F] /\ c[0] = it /\ c[n] = it
      /\ \A i \in 1..n : c[i] = nx[c[i-1]]
      /\ \A b \in F : \E i \in 1..n : c[i] = b
      /\ \A i, j \in 1..n : c[i] = c[j] => i = j
  BY DEF Circles
<1> DEFINE d == [i \in 0..(n+1) |-> IF i = 0 THEN it ELSE IF i = 1 THEN e ELSE c[i-1]]
<1>2. d[0] = it /\ d[1] = e /\ \A i \in 2..(n+1) : d[i] = c[i-1] /\ i - 1 \in 1..n
  BY <1>1
<1>3. \A i \in 1..n : c[i] \in F
  BY <1>1
<1>4. it \in F
  <2>1. n \in 1..n
    BY <1>1
  <2> QED BY <1>1, <1>3, <2>1
<1>5. d \in [0..(n+1) -> G]
  <2>1. ASSUME NEW i \in 0..(n+1) PROVE d[i] \in G
    <3>1. CASE i \in 2..(n+1)
      <4> HIDE DEF d
      <4> QED BY <1>2, <1>3, <3>1
    <3>2. CASE i = 0 \/ i = 1
      <4> HIDE DEF d
      <4> QED BY <1>2, <1>4, <3>2
    <3> QED BY <1>1, <3>1, <3>2
  <2> QED BY <2>1
<1> HIDE DEF d
<1>6. d[n+1] = it
  <2>1. n + 1 \in 2..(n+1) /\ (n + 1) - 1 = n
    BY <1>1
  <2> QED BY <1>1, <1>2, <2>1
<1>7. ASSUME NEW i \in 1..(n+1) PROVE d[i] = new[d[i-1]]
  <2>1. CASE i = 1
    BY <1>2, <2>1
  <2>2. CASE i = 2
    <3>1. 2 \in 2..(n+1) /\ 2 - 1 = 1 /\ 1 \in 1..n /\ 1 - 1 = 0
      BY <1>1
    <3>2. d[2] = c[1]
      BY <1>2, <3>1
    <3>3. c[1] = nx[it]
      BY <1>1, <3>1
    <3> QED BY <1>2, <2>2, <3>1, <3>2, <3>3
  <2>3. CASE i # 1 /\ i # 2
    <3>1. /\ i \in 2..(n+1) /\ i - 1 \in 2..(n+1) /\ i - 1 \in 1..n /\ (i - 1) - 1 \in 1..n
          /\ (i - 1) - 1 # n /\ n \in 1..n
      <4>1. n \in Nat /\ n > 0 /\ i \in Nat /\ 3 <= i /\ i <= n + 1
        BY <1>1, <2>3
      <4> QED BY <4>1
    <3>2. d[i] = c[i-1] /\ d[i-1] = c[(i-1)-1] /\ c[i-1] = nx[c[(i-1)-1]]
      BY <1>1, <1>2, <3>1
    <3>3. c[(i-1)-1] \in F \ {it}
      BY <1>1, <1>3, <3>1
    <3> QED BY <3>2, <3>3
  <2> QED BY <2>1, <2>2, <2>3
<1>8. ASSUME NEW b \in G PROVE \E i \in 1..(n+1) : d[i] = b
  <2>1. CASE b = e
    <3>1. 1 \in 1..(n+1)
      BY <1>1
    <3> QED BY <1>2, <2>1, <3>1
  <2>2. CASE b # e
    <3>1. PICK i \in 1..n : c[i] = b
      BY <1>1, <2>2
    <3>2. i + 1 \in 2..(n+1) /\ (i + 1) - 1 = i /\ i + 1 \in 1..(n+1)
      BY <1>1
    <3> QED BY <1>2, <3>1, <3>2
  <2> QED BY <2>1, <2>2
<1>9. ASSUME NEW i \in 1..(n+1), NEW j \in 1..(n+1), d[i] = d[j] PROVE i = j
  <2>1. \A k \in 1..(n+1) : k = 1 \/ (k \in 2..(n+1) /\ d[k] = c[k-1] /\ k - 1 \in 1..n)
    BY <1>1, <1>2
  <2>2. CASE i = 1 \/ j = 1
    BY <1>2, <1>3, <1>9, <2>1, <2>2
  <2>3. CASE i # 1 /\ j # 1
    <3>1. c[i-1] = c[j-1] /\ i - 1 \in 1..n /\ j - 1 \in 1..n
      BY <1>9, <2>1, <2>3
    <3>2. i - 1 = j - 1
      BY <1>1, <3>1
    <3> QED BY <1>1, <3>2
  <2> QED BY <2>2, <2>3
<1>10. n + 1 \in Nat \ {0}
  BY <1>1
<1> QED BY <1>2, <1>5, <1>6, <1>7, <1>8, <1>9, <1>10 DEF Circles

-----------------------------------------------------------------------------
\* The blocks of the free slabs.

LEMMA IntervalOut ==
    ASSUME NEW S, IsFiniteSet(S), NEW b \in Int, NEW n \in Nat, b..(b + n - 1) \subseteq S
    PROVE  Cardinality(S \ (b..(b + n - 1))) = Cardinality(S) - n /\ n <= Cardinality(S)
<1> DEFINE T == b..(b + n - 1)
<1>1. IsFiniteSet(T) /\ Cardinality(T) = n
  <2>1. b + n - 1 \in Int /\ (IF b > b + n - 1 THEN 0 ELSE (b + n - 1) - b + 1) = n
    OBVIOUS
  <2> QED BY <2>1, FS_Interval
<1> HIDE DEF T
<1>2. T \subseteq S
  BY DEF T
<1>3. IsFiniteSet(S \ T) /\ Cardinality(S \ T) \in Nat /\ Cardinality(S) \in Nat
  BY FS_Subset, FS_CardinalityType
<1>4. (S \ T) \union T = S /\ (S \ T) \intersect T = {}
  BY <1>2
<1>5. Cardinality(S) = Cardinality(S \ T) + n - 0
  BY <1>1, <1>3, <1>4, FS_Union, FS_EmptySet
<1> QED BY <1>3, <1>5 DEF T

LEMMA IntervalIn ==
    ASSUME NEW S, IsFiniteSet(S), NEW b \in Int, NEW n \in Nat,
           S \intersect (b..(b + n - 1)) = {}
    PROVE  Cardinality(S \union (b..(b + n - 1))) = Cardinality(S) + n
<1> DEFINE T == b..(b + n - 1)
<1>1. IsFiniteSet(T) /\ Cardinality(T) = n
  <2>1. b + n - 1 \in Int /\ (IF b > b + n - 1 THEN 0 ELSE (b + n - 1) - b + 1) = n
    OBVIOUS
  <2> QED BY <2>1, FS_Interval
<1> HIDE DEF T
<1>2. S \intersect T = {} /\ Cardinality(S) \in Nat
  BY FS_CardinalityType DEF T
<1>3. Cardinality(S \union T) = Cardinality(S) + n - 0
  <2>1. Cardinality(S \union T) = Cardinality(S) + Cardinality(T) - Cardinality(S \intersect T)
    BY <1>1, FS_Union
  <2> QED BY <1>1, <1>2, <2>1, FS_EmptySet
<1> QED BY <1>2, <1>3 DEF T

LEMMA BlocksCount ==
    ASSUME NEW sz, Tiles(sz), NEW F \in SUBSET DOMAIN sz
    PROVE  /\ IsFiniteSet(BlocksOf(sz, F))
           /\ Cardinality(BlocksOf(sz, F)) \in 0..(Blocks - 1)
<1>1. Blocks \in Nat /\ Blocks > 1 /\ 1 \in Int /\ Blocks - 1 \in Int
  BY HeapAssumption
<1>2. IsFiniteSet(1..(Blocks - 1)) /\ Cardinality(1..(Blocks - 1)) = Blocks - 1
  <2>1. (IF 1 > Blocks - 1 THEN 0 ELSE (Blocks - 1) - 1 + 1) = Blocks - 1
    BY <1>1
  <2> QED BY <1>1, <2>1, FS_Interval
<1>3. BlocksOf(sz, F) \in SUBSET (1..(Blocks - 1))
  BY DEF BlocksOf
<1>4. IsFiniteSet(BlocksOf(sz, F)) /\ Cardinality(BlocksOf(sz, F)) <= Blocks - 1
  <2> DEFINE U == 1..(Blocks - 1)
  <2> DEFINE W == BlocksOf(sz, F)
  <2>1. IsFiniteSet(U) /\ W \in SUBSET U /\ Cardinality(U) = Blocks - 1
    BY <1>2, <1>3
  <2> HIDE DEF U, W
  <2>2. IsFiniteSet(W) /\ Cardinality(W) <= Cardinality(U)
    BY <2>1, FS_Subset
  <2> QED BY <2>1, <2>2 DEF W
<1>5. Cardinality(BlocksOf(sz, F)) \in Nat
  BY <1>4, FS_CardinalityType
<1> QED BY <1>1, <1>4, <1>5

\* No block is in two slabs.
LEMMA OneSlab ==
    ASSUME NEW sz, Tiles(sz), NEW k \in Int, NEW x \in DOMAIN sz, NEW y \in DOMAIN sz,
           x <= k, k < x + sz[x], y <= k, k < y + sz[y]
    PROVE  x = y
<1>1. /\ x \in 0..(Blocks - 1) /\ sz[x] \in 0..(Blocks - 1)
      /\ y \in 0..(Blocks - 1) /\ sz[y] \in 0..(Blocks - 1) /\ Blocks \in Nat
  BY SlabInHeap, HeapAssumption
<1>2. x # 0 /\ y # 0
  BY <1>1 DEF Tiles
<1>3. (x < y => x + sz[x] <= y) /\ (y < x => y + sz[y] <= x)
  BY <1>2 DEF Tiles
<1> QED BY <1>1, <1>3

\* Inside a slab no other one begins.
LEMMA InsideSlab ==
    ASSUME NEW sz, Tiles(sz), NEW b \in DOMAIN sz, NEW c \in Int,
           b <= c, c < b + sz[b], b # c
    PROVE  c \notin DOMAIN sz
<1>1. SUFFICES ASSUME c \in DOMAIN sz PROVE FALSE
  OBVIOUS
<1>2. b \in 0..(Blocks - 1) /\ sz[b] \in 0..(Blocks - 1) /\ (sz[b] = 0 <=> b = 0)
      /\ c \in 0..(Blocks - 1) /\ sz[c] \in 0..(Blocks - 1) /\ (sz[c] = 0 <=> c = 0)
  BY <1>1, SlabInHeap
<1>3. c <= c /\ c < c + sz[c]
  BY <1>2
<1> QED BY <1>1, <1>3, OneSlab

LEMMA BlocksTaken ==
    ASSUME NEW sz, Tiles(sz), NEW F \in SUBSET DOMAIN sz, NEW b \in F, NEW n \in 1..sz[b],
           NEW new, NEW G,
           \A x \in F \ {b} : new[x] = sz[x],
           \/ n = sz[b] /\ G = F \ {b}
           \/ n < sz[b] /\ G = (F \ {b}) \union {b + n} /\ new[b + n] = sz[b] - n
              /\ b + n \notin DOMAIN sz
    PROVE  /\ Cardinality(BlocksOf(new, G)) = Cardinality(BlocksOf(sz, F)) - n
           /\ n <= Cardinality(BlocksOf(sz, F))
<1> DEFINE T == b..(b + n - 1)
<1>1. /\ b \in 1..(Blocks - 1) /\ sz[b] \in 1..(Blocks - 1) /\ n \in Nat /\ b + sz[b] <= Blocks
      /\ Blocks \in Nat /\ b \in DOMAIN sz
  BY SlabInHeap, HeapAssumption
<1>2. \A x \in F : x \in DOMAIN sz /\ x \in 0..(Blocks - 1) /\ sz[x] \in 0..(Blocks - 1)
  BY SlabInHeap
<1>3. T \subseteq BlocksOf(sz, F)
  <2>1. ASSUME NEW k \in T PROVE k \in 1..(Blocks - 1) /\ b <= k /\ k < b + sz[b]
    BY <1>1
  <2> QED BY <2>1 DEF BlocksOf
<1>4. ASSUME NEW k \in 1..(Blocks - 1)
      PROVE  k \in BlocksOf(new, G) <=> k \in BlocksOf(sz, F) \ T
  <2>1. ASSUME NEW x \in G, x <= k, k < x + new[x] PROVE k \in BlocksOf(sz, F) \ T
    <3>1. CASE x \in F \ {b}
      <4>1. k < x + sz[x]
        BY <2>1, <3>1
      <4>2. k \in T => x = b
        <5>1. k \in T => b <= k /\ k < b + sz[b]
          BY <1>1
        <5> QED BY <1>1, <1>2, <2>1, <3>1, <4>1, <5>1, OneSlab
      <4> QED BY <2>1, <3>1, <4>1, <4>2 DEF BlocksOf
    <3>2. CASE x \notin F \ {b}
      <4>1. x = b + n /\ new[x] = sz[b] - n /\ n < sz[b]
        BY <3>2
      <4>2. b <= k /\ k < b + sz[b] /\ k \notin T
        BY <1>1, <2>1, <4>1
      <4> QED BY <4>2 DEF BlocksOf
    <3> QED BY <3>1, <3>2
  <2>2. ASSUME NEW x \in F, x <= k, k < x + sz[x], k \notin T
        PROVE  \E y \in G : y <= k /\ k < y + new[y]
    <3>1. CASE x # b
      BY <2>2, <3>1
    <3>2. CASE x = b
      <4>1. b + n <= k /\ n < sz[b] /\ k < (b + n) + (sz[b] - n)
        BY <1>1, <2>2, <3>2
      <4> QED BY <1>1, <4>1
    <3> QED BY <3>1, <3>2
  <2> QED BY <2>1, <2>2 DEF BlocksOf
<1>5. BlocksOf(new, G) \subseteq 1..(Blocks - 1) /\ BlocksOf(sz, F) \subseteq 1..(Blocks - 1)
  BY DEF BlocksOf
<1> HIDE DEF T
<1>6. BlocksOf(new, G) = BlocksOf(sz, F) \ T
  BY <1>4, <1>5
<1> DEFINE S == BlocksOf(sz, F)
<1>7. IsFiniteSet(S) /\ b..(b + n - 1) \subseteq S /\ b \in Int
  BY <1>1, <1>3, BlocksCount DEF T
<1>8. BlocksOf(new, G) = S \ (b..(b + n - 1))
  BY <1>6 DEF T
<1> HIDE DEF S
<1>9. Cardinality(S \ (b..(b + n - 1))) = Cardinality(S) - n /\ n <= Cardinality(S)
  BY <1>1, <1>7, IntervalOut
<1> QED BY <1>8, <1>9 DEF S

LEMMA BlocksMerged ==
    ASSUME NEW sz, Tiles(sz), NEW F \in SUBSET DOMAIN sz, NEW b \in F, b # 0,
           NEW a \in F, a = b + sz[b],
           NEW new, new[b] = sz[b] + sz[a], \A x \in F \ {a, b} : new[x] = sz[x]
    PROVE  BlocksOf(new, F \ {a}) = BlocksOf(sz, F)
<1>1. /\ b \in 1..(Blocks - 1) /\ sz[b] \in 1..(Blocks - 1)
      /\ a \in 0..(Blocks - 1) /\ sz[a] \in 0..(Blocks - 1) /\ Blocks \in Nat /\ a # b
  BY SlabInHeap, HeapAssumption
<1>2. ASSUME NEW k \in 1..(Blocks - 1)
      PROVE  k \in BlocksOf(new, F \ {a}) <=> k \in BlocksOf(sz, F)
  <2>1. b <= k /\ k < b + new[b] <=> (b <= k /\ k < b + sz[b]) \/ (a <= k /\ k < a + sz[a])
    BY <1>1
  <2>2. ASSUME NEW x \in F \ {a}, x <= k, k < x + new[x] PROVE k \in BlocksOf(sz, F)
    <3>1. CASE x = b
      BY <2>1, <2>2, <3>1 DEF BlocksOf
    <3>2. CASE x # b
      BY <2>2, <3>2 DEF BlocksOf
    <3> QED BY <3>1, <3>2
  <2>3. ASSUME NEW x \in F, x <= k, k < x + sz[x] PROVE k \in BlocksOf(new, F \ {a})
    <3>1. CASE x = b \/ x = a
      BY <1>1, <2>1, <2>3, <3>1 DEF BlocksOf
    <3>2. CASE x # b /\ x # a
      BY <2>3, <3>2 DEF BlocksOf
    <3> QED BY <3>1, <3>2
  <2> QED BY <2>2, <2>3 DEF BlocksOf
<1> QED BY <1>2 DEF BlocksOf

LEMMA BlocksFreed ==
    ASSUME NEW sz, Tiles(sz), NEW F \in SUBSET DOMAIN sz, NEW b \in DOMAIN sz \ F, b # 0
    PROVE  Cardinality(BlocksOf(sz, F \union {b})) = Cardinality(BlocksOf(sz, F)) + sz[b]
<1> DEFINE T == b..(b + sz[b] - 1)
<1>1. /\ b \in 1..(Blocks - 1) /\ sz[b] \in 1..(Blocks - 1) /\ b + sz[b] <= Blocks
      /\ Blocks \in Nat
  BY SlabInHeap, HeapAssumption
<1>2. ASSUME NEW k \in Int
      PROVE  k \in T <=> k \in 1..(Blocks - 1) /\ b <= k /\ k < b + sz[b]
  BY <1>1
<1> HIDE DEF T
<1>3. T \subseteq Int
  BY <1>1 DEF T
<1>4. BlocksOf(sz, F) \intersect T = {}
  <2>1. SUFFICES ASSUME NEW k \in 1..(Blocks - 1), b <= k, k < b + sz[b],
                        NEW x \in F, x <= k, k < x + sz[x]
                 PROVE  FALSE
    BY <1>2 DEF BlocksOf
  <2>2. x \in DOMAIN sz /\ b \in DOMAIN sz /\ k \in Int
    OBVIOUS
  <2>3. x = b
    BY <2>1, <2>2, OneSlab
  <2> QED BY <2>3
<1> DEFINE S == BlocksOf(sz, F)
<1>5. BlocksOf(sz, F \union {b}) = S \union T
  <2>1. ASSUME NEW k \in Int
        PROVE  k \in BlocksOf(sz, F \union {b}) <=> k \in S \union T
    BY <1>2 DEF BlocksOf
  <2>2. BlocksOf(sz, F \union {b}) \subseteq Int /\ S \subseteq Int
    BY DEF BlocksOf
  <2> HIDE DEF S
  <2> QED BY <1>3, <2>1, <2>2
<1>6. IsFiniteSet(S) /\ S \intersect (b..(b + sz[b] - 1)) = {} /\ b \in Int /\ sz[b] \in Nat
  BY <1>1, <1>4, BlocksCount DEF T
<1>7. BlocksOf(sz, F \union {b}) = S \union (b..(b + sz[b] - 1))
  BY <1>5 DEF T
<1> HIDE DEF S
<1>8. Cardinality(S \union (b..(b + sz[b] - 1))) = Cardinality(S) + sz[b]
  BY <1>6, IntervalIn
<1> QED BY <1>7, <1>8 DEF S

-----------------------------------------------------------------------------
\* What the invariant says of the list.

LEMMA ListIs ==
    ASSUME ListInv
    PROVE  /\ FreeSlabs \in SUBSET Slabs
           /\ iteratorAddress \in FreeSlabs
           /\ \A b \in FreeSlabs : next[b] \in FreeSlabs
           /\ \A a, b \in FreeSlabs : next[a] = next[b] => a = b
           /\ \A b \in FreeSlabs : next[b] = b => b = 0
           /\ listSize \in 1..Blocks /\ Cardinality(FreeSlabs) = listSize
           /\ Slabs \subseteq 0..(Blocks - 1)
           /\ totalAvailableBlocks \in 0..(Blocks - 1)
<1>1. Tiles(size) /\ Rounds(listSize, next, FreeSlabs, iteratorAddress) /\ 0 \in FreeSlabs
  BY DEF ListInv
<1>2. FreeSlabs \in SUBSET Slabs /\ Slabs \subseteq 0..(Blocks - 1)
  BY <1>1 DEF FreeSlabs, Tiles, Slabs
<1>3. PICK c \in [0..listSize -> FreeSlabs] :
         Circles(c, listSize, next, FreeSlabs, iteratorAddress)
  BY <1>1 DEF Rounds
<1>4. /\ iteratorAddress \in FreeSlabs
      /\ \A b \in FreeSlabs : next[b] \in FreeSlabs
      /\ \A a, b \in FreeSlabs : next[a] = next[b] => a = b
      /\ \A b \in FreeSlabs : next[b] = b => FreeSlabs = {b}
  BY <1>3, CircleSteps
<1>5. listSize \in Nat \ {0} /\ Cardinality(FreeSlabs) = listSize
  <2>1. listSize \in Nat \ {0}
    BY <1>3 DEF Circles
  <2>2. Cardinality(FreeSlabs) = listSize
    BY <1>3, CircleCounts
  <2> QED BY <2>1, <2>2
<1>6. listSize <= Blocks
  <2>1. 0 \in Int /\ Blocks - 1 \in Int /\ (IF 0 > Blocks - 1 THEN 0 ELSE (Blocks - 1) - 0 + 1) = Blocks
    BY HeapAssumption
  <2>2. IsFiniteSet(0..(Blocks - 1)) /\ Cardinality(0..(Blocks - 1)) = Blocks
    BY <2>1, FS_Interval
  <2>3. FreeSlabs \in SUBSET (0..(Blocks - 1))
    BY <1>2
  <2> QED BY <1>5, <2>2, <2>3, FS_Subset
<1>7. totalAvailableBlocks \in 0..(Blocks - 1)
  BY <1>1, <1>2, BlocksCount DEF ListInv, Slabs
<1>8. \A b \in FreeSlabs : next[b] = b => b = 0
  BY <1>1, <1>4
<1> QED BY <1>2, <1>4, <1>5, <1>6, <1>7, <1>8, HeapAssumption

LEMMA TypesAre == IInv => TypeOK
<1> SUFFICES ASSUME IInv PROVE TypeOK
  OBVIOUS
<1>1. /\ Slabs \subseteq 0..(Blocks - 1) /\ iteratorAddress \in FreeSlabs
      /\ listSize \in 1..Blocks /\ totalAvailableBlocks \in 0..(Blocks - 1)
  BY ListIs DEF IInv
<1>2. size \in [Slabs -> 0..(Blocks - 1)]
  BY DEF IInv, ListInv, Tiles, Slabs
<1> QED BY <1>1, <1>2 DEF IInv, ListInv, CallInv, TypeOK

LEMMA InitIsSound == Init => IInv
<1> SUFFICES ASSUME Init PROVE IInv
  OBVIOUS
<1>1. Blocks \in Nat /\ Blocks > 1 /\ Size \in Nat /\ Size > 0 /\ Allocated \notin Nat
  <2>1. BlockSize * Word \in Nat \ {0}
    BY HeapAssumption
  <2> QED BY <2>1, HeapAssumption
<1>2. /\ Slabs = {0, 1} /\ size = [b \in {0, 1} |-> IF b = 0 THEN 0 ELSE Blocks - 1]
      /\ size[0] = 0 /\ size[1] = Blocks - 1 /\ DOMAIN size = {0, 1}
      /\ next = [b \in {0, 1} |-> 1 - b] /\ next[0] = 1 /\ next[1] = 0
  BY DEF Init, Slabs
<1>3. FreeSlabs = {0, 1}
  BY <1>1, <1>2 DEF FreeSlabs
<1>4. Tiles(size)
  <2>1. DOMAIN size \subseteq 0..(Blocks - 1) /\ size \in [DOMAIN size -> 0..(Blocks - 1)]
    BY <1>1, <1>2
  <2>2. \A b \in DOMAIN size \ {0} : b = 1
    BY <1>2
  <2>3. \A b \in DOMAIN size \ {0} : size[b] > 0 /\ b + size[b] \in DOMAIN size \union {Blocks}
    BY <1>1, <1>2, <2>2
  <2>4. \A k \in 1..(Blocks - 1) : 1 <= k /\ k < 1 + size[1]
    BY <1>1, <1>2
  <2> QED BY <1>1, <1>2, <2>1, <2>2, <2>3, <2>4 DEF Tiles
<1>5. next \in [Slabs -> (0..(Blocks - 1)) \union {Allocated}]
  BY <1>1, <1>2
<1>6. Rounds(2, next, {0, 1}, 1)
  <2> DEFINE c == [i \in 0..2 |-> IF i = 1 THEN 0 ELSE 1]
  <2>1. c \in [0..2 -> {0, 1}] /\ c[0] = 1 /\ c[1] = 0 /\ c[2] = 1
    OBVIOUS
  <2>2. 1..2 = {1, 2} /\ 1 - 1 = 0 /\ 2 - 1 = 1 /\ 2 \in Nat \ {0}
    OBVIOUS
  <2> HIDE DEF c
  <2>3. Circles(c, 2, next, {0, 1}, 1)
    <3>1. \A i \in {1, 2} : c[i] = next[c[i-1]]
      BY <1>2, <2>1, <2>2
    <3>2. \A b \in {0, 1} : \E i \in {1, 2} : c[i] = b
      BY <2>1
    <3>3. \A i, j \in {1, 2} : c[i] = c[j] => i = j
      BY <2>1
    <3> QED BY <2>1, <2>2, <3>1, <3>2, <3>3 DEF Circles
  <2> QED BY <2>1, <2>3 DEF Rounds
<1>7. totalAvailableBlocks = Cardinality(BlocksOf(size, FreeSlabs))
  <2>1. BlocksOf(size, FreeSlabs) = 1..(Blocks - 1)
    <3>1. \A k \in 1..(Blocks - 1) : 1 <= k /\ k < 1 + size[1]
      BY <1>1, <1>2
    <3> QED BY <1>3, <3>1 DEF BlocksOf
  <2>2. 1 \in Int /\ Blocks - 1 \in Int /\ (IF 1 > Blocks - 1 THEN 0 ELSE (Blocks - 1) - 1 + 1) = Blocks - 1
    BY <1>1
  <2>3. Cardinality(1..(Blocks - 1)) = Blocks - 1
    BY <2>2, FS_Interval
  <2> QED BY <2>1, <2>3 DEF Init
<1>8. ListInv
  BY <1>3, <1>4, <1>5, <1>6, <1>7 DEF ListInv, Init
<1>9. CallInv
  <2>1. /\ pc = "idle" /\ nBytes = 0 /\ first = 0 /\ secondTry = FALSE /\ asked = 0
        /\ answer = Null
    BY DEF Init
  <2>2. CallIsSound
    BY <2>1 DEF CallIsSound
  <2>3. /\ pc \in {"idle", "test", "merge"} /\ secondTry \in BOOLEAN
        /\ nBytes \in 0..(Size - 1) /\ first \in 0..(Blocks - 1) /\ asked \in Nat
    <3>1. 0 \in 0..(Size - 1) /\ 0 \in 0..(Blocks - 1) /\ 0 \in Nat
      BY <1>1
    <3>2. nBytes \in 0..(Size - 1) /\ first \in 0..(Blocks - 1) /\ asked \in Nat
      BY <2>1, <3>1, Zenon
    <3>3. pc \in {"idle", "test", "merge"} /\ secondTry \in BOOLEAN
      BY <2>1, Zenon
    <3> QED BY <3>2, <3>3
  <2> QED BY <2>1, <2>2, <2>3 DEF CallInv
<1> QED BY <1>8, <1>9 DEF IInv

-----------------------------------------------------------------------------
\* The steps.

LEMMA BeginKeeps ==
    ASSUME IInv, NEW n \in Requests, AllocateBytes(n) \/ MemAlloc(n)
    PROVE  CallInv'
<1>1. /\ n \in Nat /\ n \in 0..(Size - 1)
      /\ NeededBytes(NeededBlocks(n)) \in 0..(Size - 1)
      /\ NeededBlocks(NeededBytes(NeededBlocks(n))) = NeededBlocks(n)
  BY RequestIsServed
<1>2. /\ nBytes' \in 0..(Size - 1) /\ NeededBlocks(nBytes') = NeededBlocks(n)
      /\ pc' = "test" /\ asked' = n /\ first' = iteratorAddress /\ secondTry' = FALSE
      /\ answer' = answer
  BY <1>1 DEF AllocateBytes, MemAlloc, Begin
<1>3. iteratorAddress \in 0..(Blocks - 1)
  BY ListIs DEF IInv
<1>4. CallIsSound'
  BY <1>1, <1>2 DEF CallIsSound, need
<1> QED BY <1>1, <1>2, <1>3, <1>4 DEF CallInv, IInv

LEMMA ReturnKeeps ==
    ASSUME IInv, NEW b \in 1..(Blocks - 1) \union {Null}, Return(b)
    PROVE  CallInv'
<1>1. Size \in Nat \ {0} /\ Blocks \in Nat \ {0}
  <2>1. BlockSize * Word \in Nat \ {0}
    BY HeapAssumption
  <2> QED BY <2>1, HeapAssumption
<1>2. /\ pc' = "idle" /\ nBytes' = 0 /\ first' = 0 /\ secondTry' = FALSE /\ asked' = 0
      /\ answer' = b
  BY DEF Return
<1>3. CallIsSound'
  BY <1>2 DEF CallIsSound
<1>4. /\ pc' \in {"idle", "test", "merge"} /\ secondTry' \in BOOLEAN
      /\ nBytes' \in 0..(Size - 1) /\ first' \in 0..(Blocks - 1) /\ asked' \in Nat
  <2>1. nBytes' \in 0..(Size - 1) /\ first' \in 0..(Blocks - 1) /\ asked' \in Nat
    <3>1. 0 \in 0..(Size - 1) /\ 0 \in 0..(Blocks - 1) /\ 0 \in Nat
      BY <1>1
    <3> QED BY <1>2, <3>1, Zenon
  <2>2. pc' \in {"idle", "test", "merge"} /\ secondTry' \in BOOLEAN
    BY <1>2, Zenon
  <2> QED BY <2>1, <2>2
<1> QED BY <1>2, <1>3, <1>4 DEF CallInv

LEMMA SameList == ListInv /\ UNCHANGED list => ListInv'
<1> SUFFICES ASSUME ListInv, UNCHANGED list PROVE ListInv'
  OBVIOUS
<1>1. /\ size' = size /\ next' = next /\ iteratorAddress' = iteratorAddress
      /\ totalAvailableBlocks' = totalAvailableBlocks /\ listSize' = listSize
  BY DEF list
<1>2. Slabs' = Slabs /\ FreeSlabs' = FreeSlabs
  BY <1>1 DEF Slabs, FreeSlabs
<1> QED BY <1>1, <1>2 DEF ListInv

LEMMA SameCall ==
    ASSUME CallInv, pc' # "idle" <=> pc # "idle", pc' \in {"idle", "test", "merge"},
           nBytes' = nBytes, first' = first, secondTry' \in BOOLEAN, asked' = asked,
           answer' = answer
    PROVE  CallInv'
<1>1. CallIsSound'
  BY DEF CallInv, CallIsSound, need
<1> QED BY <1>1 DEF CallInv

\* The blocks that a running call looks for.
LEMMA NeedIs ==
    ASSUME CallInv, pc # "idle"
    PROVE  /\ need \in 1..(Word - 1) /\ asked \in Requests
           /\ need = NeededBlocks(asked)
<1>1. asked \in Requests /\ need = NeededBlocks(asked)
  BY DEF CallInv, CallIsSound
<1> QED BY <1>1, RequestIsServed

\* The slab that a search finds.
LEMMA TakenIs ==
    ASSUME IInv, Take
    PROVE  /\ cmmd \in FreeSlabs /\ cmmd # iteratorAddress /\ cmmd \in 1..(Blocks - 1)
           /\ cmmd \in Slabs
           /\ size[cmmd] \in 1..(Blocks - 1) /\ need \in 1..size[cmmd]
           /\ need \in Nat /\ need > 0
<1>1. need \in 1..(Word - 1) /\ need <= size[cmmd] /\ Word \in Nat
  BY NeedIs, HeapAssumption DEF IInv, Take, SlabGood
<1>2. cmmd \in FreeSlabs /\ cmmd \in Slabs
  BY ListIs DEF IInv, cmmd
<1>3. cmmd \in 0..(Blocks - 1) /\ size[cmmd] \in 0..(Blocks - 1) /\ (size[cmmd] = 0 <=> cmmd = 0)
  BY <1>2, SlabInHeap DEF IInv, ListInv, Slabs
<1>4. cmmd # 0
  BY <1>1, <1>3
<1>5. cmmd # iteratorAddress
  BY <1>4, ListIs DEF IInv, cmmd
<1> QED BY <1>1, <1>2, <1>3, <1>4, <1>5, HeapAssumption

LEMMA RejectKeeps ==
    ASSUME IInv, Reject
    PROVE  IInv'
<1>1. ListInv'
  BY SameList DEF IInv, Reject
<1>2. secondTry' \in BOOLEAN
  BY DEF IInv, CallInv, Reject
<1>3. CallInv'
  BY <1>2, SameCall DEF IInv, Reject
<1> QED BY <1>1, <1>3 DEF IInv

LEMMA AdvanceKeeps ==
    ASSUME IInv, Advance
    PROVE  IInv'
<1>1. /\ size' = size /\ next' = next /\ listSize' = listSize
      /\ totalAvailableBlocks' = totalAvailableBlocks /\ iteratorAddress' = next[iteratorAddress]
  BY DEF Advance
<1>2. Slabs' = Slabs /\ FreeSlabs' = FreeSlabs
  BY <1>1 DEF Slabs, FreeSlabs
<1>3. Rounds(listSize, next, FreeSlabs, next[iteratorAddress])
  BY CircleAdvances DEF IInv, ListInv, Rounds
<1>4. ListInv'
  BY <1>1, <1>2, <1>3 DEF IInv, ListInv
<1>5. CallInv'
  BY SameCall DEF IInv, CallInv, Advance
<1> QED BY <1>4, <1>5 DEF IInv

LEMMA TakeKeepsList ==
    ASSUME IInv, Take
    PROVE  ListInv'
<1> DEFINE m == cmmd
<1> DEFINE n == need
<1> DEFINE it == iteratorAddress
<1> DEFINE F == FreeSlabs
<1> DEFINE sm == m + n
<1>1. /\ m \in F /\ m # it /\ m \in 1..(Blocks - 1) /\ m \in Slabs
      /\ size[m] \in 1..(Blocks - 1) /\ n \in 1..size[m] /\ n \in Nat /\ n > 0
  BY TakenIs
<1>2. /\ Tiles(size) /\ next \in [Slabs -> (0..(Blocks - 1)) \union {Allocated}]
      /\ Rounds(listSize, next, F, it) /\ 0 \in F /\ totalAvailableBlocks = Cardinality(BlocksOf(size, F))
  BY DEF IInv, ListInv
<1>3. /\ F \in SUBSET Slabs /\ it \in F /\ next[it] = m
      /\ \A b \in F : next[b] \in F
      /\ \A a, b \in F : next[a] = next[b] => a = b
      /\ totalAvailableBlocks \in 0..(Blocks - 1)
  BY ListIs DEF IInv, cmmd
<1>4. \A b \in F : next[b] = m <=> b = it
  BY <1>3
<1>5. /\ iteratorAddress' = it
      /\ totalAvailableBlocks' = (totalAvailableBlocks - n) % Word
  BY DEF Take
<1>6. F = {b \in Slabs : next[b] # Allocated} /\ DOMAIN size = Slabs /\ DOMAIN next = Slabs
      /\ Allocated \notin Nat /\ F \subseteq Nat /\ Blocks \in Nat /\ next[m] \in F
      /\ size = [b \in Slabs |-> size[b]]
  BY <1>1, <1>2, <1>3, HeapAssumption DEF FreeSlabs, Slabs, Tiles
<1> HIDE DEF m, n, it, F
<1>7. CASE n = size[m]
  <2>1. /\ DOMAIN size' = Slabs /\ size' = [b \in Slabs |-> size'[b]] /\ \A b \in Slabs : size'[b] = size[b]
        /\ DOMAIN next' = Slabs /\ next' = [b \in Slabs |-> next'[b]]
        /\ next'[m] = Allocated /\ next'[it] = next[m] /\ \A b \in Slabs \ {m, it} : next'[b] = next[b]
        /\ listSize' = listSize - 1
    BY <1>1, <1>3, <1>7 DEF Take, GrantedSize, m, n, it
  <2>2. size' = size /\ Slabs' = Slabs
    BY <1>6, <2>1 DEF Slabs
  <2>3. FreeSlabs' = F \ {m}
    BY <1>1, <1>3, <1>6, <2>1, <2>2 DEF FreeSlabs
  <2>4. next' \in [Slabs -> (0..(Blocks - 1)) \union {Allocated}]
    BY <1>1, <1>2, <1>3, <2>1
  <2>5. \A b \in F \ {m} : next'[b] = IF next[b] = m THEN next[m] ELSE next[b]
    BY <1>3, <1>4, <2>1
  <2>6. Rounds(listSize - 1, next', F \ {m}, it)
    <3>1. PICK c \in [0..listSize -> F] : Circles(c, listSize, next, F, it)
      BY <1>2 DEF Rounds
    <3> QED BY <1>1, <2>5, <3>1, CircleDrops DEF Rounds
  <2>7. Cardinality(BlocksOf(size', F \ {m})) = Cardinality(BlocksOf(size, F)) - n
        /\ n <= Cardinality(BlocksOf(size, F))
    <3> DEFINE G == F \ {m}
    <3>1. \A x \in F \ {m} : size'[x] = size[x]
      BY <2>2
    <3>2. F \in SUBSET DOMAIN size /\ m \in F /\ n \in 1..size[m] /\ n = size[m] /\ G = F \ {m}
      BY <1>1, <1>3, <1>6, <1>7
    <3> HIDE DEF G
    <3>3. Cardinality(BlocksOf(size', G)) = Cardinality(BlocksOf(size, F)) - n
          /\ n <= Cardinality(BlocksOf(size, F))
      BY <1>2, <3>1, <3>2, BlocksTaken
    <3> QED BY <3>3 DEF G
  <2>8. totalAvailableBlocks' = totalAvailableBlocks - n
    <3> DEFINE k == totalAvailableBlocks - n
    <3>1. Word \in Nat \ {0} /\ Word > Blocks
      BY HeapAssumption
    <3>2. k \in 0..(Word - 1)
      BY <1>1, <1>2, <1>3, <1>6, <2>7, <3>1
    <3> HIDE DEF k
    <3>3. k % Word = k
      BY <3>1, <3>2, SmallRemainder
    <3> QED BY <1>5, <3>3 DEF k
  <2> QED BY <1>2, <1>5, <2>1, <2>2, <2>3, <2>4, <2>6, <2>7, <2>8, <1>1 DEF ListInv
<1>8. CASE n # size[m]
  <2>1. n < size[m] /\ n \in 1..(size[m] - 1)
    BY <1>1, <1>8
  <2> DEFINE S == Slabs \union {sm}
  <2>2. /\ DOMAIN size' = S /\ size' = [b \in S |-> size'[b]]
        /\ size'[m] = n
        /\ m # sm => size'[sm] = size[m] - n
        /\ \A b \in S \ {m, sm} : size'[b] = size[b]
        /\ DOMAIN next' = S /\ next' = [b \in S |-> next'[b]]
        /\ next'[m] = Allocated /\ next'[it] = sm
        /\ sm \notin {m, it} => next'[sm] = next[m]
        /\ \A b \in S \ {m, it, sm} : next'[b] = next[b]
        /\ listSize' = listSize
    BY <1>1, <1>3, <2>1 DEF Take, GrantedSize, m, n, it
  <2>3. sm # m /\ sm \in Int
    BY <1>1
  <2> HIDE DEF sm
  <2>4. sm \notin Slabs /\ sm \in 1..(Blocks - 1) /\ Tiles(size')
    <3>1. m <= sm /\ sm < m + size[m]
      BY <1>1, <2>1, <2>3 DEF sm
    <3>2. sm \notin Slabs
      BY <1>1, <1>2, <1>6, <2>3, <3>1, InsideSlab
    <3>3. DOMAIN size' = DOMAIN size \union {sm} /\ size' = [b \in DOMAIN size' |-> size'[b]]
          /\ sm = m + n /\ size'[sm] = size[m] - n /\ \A x \in DOMAIN size \ {m} : size'[x] = size[x]
      BY <1>6, <2>2, <2>3, <3>2 DEF sm
    <3> QED BY <1>1, <1>2, <1>6, <2>1, <2>2, <3>2, <3>3, SplitTiles
  <2>5. Slabs' = S /\ sm \notin F
    BY <1>3, <2>2, <2>4 DEF Slabs
  <2> DEFINE G == (F \ {m}) \union {sm}
  <2>6. FreeSlabs' = G
    BY <1>1, <1>3, <1>6, <2>2, <2>3, <2>4, <2>5 DEF FreeSlabs
  <2>7. next' \in [S -> (0..(Blocks - 1)) \union {Allocated}]
    BY <1>1, <1>2, <1>3, <2>2, <2>4
  <2>8. Rounds(listSize, next', G, it)
    <3>1. next'[sm] = next[m] /\ \A b \in F \ {m} : next'[b] = IF next[b] = m THEN sm ELSE next[b]
      BY <1>1, <1>3, <1>4, <2>2, <2>3, <2>5
    <3>2. PICK c \in [0..listSize -> F] : Circles(c, listSize, next, F, it)
      BY <1>2 DEF Rounds
    <3> HIDE DEF G
    <3>3. m \in F /\ m # it /\ sm \notin F /\ G = (F \ {m}) \union {sm}
      BY <1>1, <2>5 DEF G
    <3> HIDE DEF S
    <3>4. \E d \in [0..listSize -> G] : Circles(d, listSize, next', G, it)
      BY <3>1, <3>2, <3>3, CircleReplaces
    <3> QED BY <3>4 DEF Rounds
  <2>9. Cardinality(BlocksOf(size', G)) = Cardinality(BlocksOf(size, F)) - n
        /\ n <= Cardinality(BlocksOf(size, F))
    <3>1. \A x \in F \ {m} : size'[x] = size[x]
      BY <1>3, <2>2, <2>5
    <3>2. F \in SUBSET DOMAIN size /\ m \in F /\ n \in 1..size[m] /\ n < size[m]
          /\ G = (F \ {m}) \union {m + n} /\ size'[m + n] = size[m] - n /\ m + n \notin DOMAIN size
      BY <1>1, <1>3, <1>6, <2>1, <2>2, <2>3, <2>4 DEF sm
    <3> HIDE DEF G
    <3> QED BY <1>2, <3>1, <3>2, BlocksTaken
  <2>10. totalAvailableBlocks' = totalAvailableBlocks - n
    <3> DEFINE k == totalAvailableBlocks - n
    <3>1. Word \in Nat \ {0} /\ Word > Blocks
      BY HeapAssumption
    <3>2. k \in 0..(Word - 1)
      BY <1>1, <1>2, <1>3, <1>6, <2>9, <3>1
    <3> HIDE DEF k
    <3>3. k % Word = k
      BY <3>1, <3>2, SmallRemainder
    <3> QED BY <1>5, <3>3 DEF k
  <2>11. 0 \in G
    BY <1>1, <1>2
  <2> HIDE DEF G, S
  <2> QED BY <1>2, <1>5, <2>2, <2>4, <2>5, <2>6, <2>7, <2>8, <2>9, <2>10, <2>11 DEF ListInv
<1> QED BY <1>7, <1>8

LEMMA TakeKeeps ==
    ASSUME IInv, Take
    PROVE  IInv'
<1>1. cmmd \in 1..(Blocks - 1) \union {Null}
  BY TakenIs
<1>2. Return(cmmd)
  BY DEF Take
<1>3. CallInv'
  BY <1>1, <1>2, ReturnKeeps
<1> QED BY <1>3, TakeKeepsList DEF IInv

LEMMA GiveUpKeeps ==
    ASSUME IInv, GiveUp
    PROVE  IInv'
<1>1. Return(Null)
  BY DEF GiveUp
<1>2. CallInv'
  BY <1>1, ReturnKeeps
<1> QED BY <1>2, SameList DEF IInv, GiveUp

\* The slab that is merged away.
LEMMA MergedIs ==
    ASSUME IInv, NEW b \in FreeSlabs, CanMerge(b)
    PROVE  /\ Above(b) \in FreeSlabs \ {0, 1, b} /\ b \in Slabs /\ b # 0 /\ Above(b) < Blocks
           /\ Above(b) = b + size[b]
<1>1. Tiles(size) /\ b \in DOMAIN size /\ Slabs = DOMAIN size
  BY DEF IInv, ListInv, FreeSlabs, Slabs
<1>2. size[b] # 0 /\ Above(b) < Blocks /\ next[Above(b)] # Allocated /\ Above(b) = b + size[b]
  BY DEF CanMerge, Above
<1>3. b \in 1..(Blocks - 1) /\ size[b] \in 1..(Blocks - 1)
  BY <1>1, <1>2, SlabInHeap
<1>4. Above(b) \in DOMAIN size /\ Above(b) \notin {0, b}
  BY <1>1, <1>2, <1>3, SlabInHeap, HeapAssumption
<1>5. Above(b) > 1
  BY <1>2, <1>3
<1> QED BY <1>1, <1>2, <1>3, <1>4, <1>5 DEF FreeSlabs

LEMMA MergeKeeps ==
    ASSUME IInv, Merge
    PROVE  IInv'
<1> DEFINE it == iteratorAddress
<1> DEFINE a == Above(it)
<1> DEFINE F == FreeSlabs
<1>1. it \in F /\ \A b \in F : next[b] \in F
  BY ListIs DEF IInv
<1>2. a \in F \ {0, 1, it} /\ it \in Slabs /\ it # 0 /\ a < Blocks /\ a = it + size[it]
  BY <1>1, MergedIs DEF Merge
<1>3. /\ Tiles(size) /\ next \in [Slabs -> (0..(Blocks - 1)) \union {Allocated}]
      /\ Rounds(listSize, next, F, it) /\ 0 \in F
      /\ totalAvailableBlocks = Cardinality(BlocksOf(size, F))
  BY DEF IInv, ListInv
<1>4. F = {b \in Slabs : next[b] # Allocated} /\ DOMAIN size = Slabs
  BY DEF FreeSlabs, Slabs
<1> DEFINE S == Slabs \ {a}
<1>5. /\ DOMAIN size' = S /\ size' = [b \in S |-> size'[b]]
      /\ size'[it] = size[it] + size[a] /\ \A b \in S \ {it} : size'[b] = size[b]
      /\ DOMAIN next' = S /\ next' = [b \in S |-> next'[b]]
      /\ \A b \in S : next'[b] = IF next[b] = a THEN next[a] ELSE next[b]
      /\ listSize' = listSize - 1
      /\ iteratorAddress' = it /\ totalAvailableBlocks' = totalAvailableBlocks
  BY <1>2 DEF Merge
<1> HIDE DEF it, a, F
<1>6. Tiles(size')
  <2>1. DOMAIN size' = DOMAIN size \ {a} /\ size' = [b \in DOMAIN size' |-> size'[b]]
        /\ \A b \in DOMAIN size \ {a, it} : size'[b] = size[b]
    BY <1>4, <1>5
  <2> HIDE DEF S
  <2> QED BY <1>2, <1>3, <1>4, <1>5, <2>1, MergeTiles
<1>7. Slabs' = S
  BY <1>5 DEF Slabs
<1>8. FreeSlabs' = F \ {a}
  <2>1. \A b \in S : next'[b] # Allocated <=> next[b] # Allocated
    <3>1. a # Allocated /\ next[a] # Allocated
      <4>1. F \subseteq Nat
        BY ListIs DEF IInv, F
      <4> QED BY <1>1, <1>2, <4>1, HeapAssumption
    <3> QED BY <1>5, <3>1
  <2>2. FreeSlabs' = {b \in S : next'[b] # Allocated}
    BY <1>7 DEF FreeSlabs
  <2> QED BY <1>4, <2>1, <2>2
<1>9. next' \in [S -> (0..(Blocks - 1)) \union {Allocated}]
  <2>1. a \in Slabs
    BY <1>2, <1>4
  <2> QED BY <1>3, <1>5, <2>1
<1>10. Rounds(listSize - 1, next', F \ {a}, it)
  <2>1. \A b \in F \ {a} : next'[b] = IF next[b] = a THEN next[a] ELSE next[b]
    BY <1>4, <1>5
  <2>2. PICK c \in [0..listSize -> F] : Circles(c, listSize, next, F, it)
    BY <1>3 DEF Rounds
  <2>3. \E d \in [0..(listSize-1) -> F \ {a}] : Circles(d, listSize - 1, next', F \ {a}, it)
    <3>1. a \in F /\ a # it
      BY <1>2
    <3> HIDE DEF F, it, a
    <3> QED BY <2>1, <2>2, <3>1, CircleDrops
  <2> QED BY <2>3 DEF Rounds
<1>11. BlocksOf(size', F \ {a}) = BlocksOf(size, F)
  <2>1. F \in SUBSET DOMAIN size /\ \A x \in F \ {a, it} : size'[x] = size[x]
    BY <1>4, <1>5
  <2> HIDE DEF S
  <2> QED BY <1>1, <1>2, <1>3, <1>5, <2>1, BlocksMerged
<1>12. ListInv'
  <2>1. 0 \in F \ {a}
    BY <1>2, <1>3
  <2> HIDE DEF S
  <2> QED BY <1>3, <1>5, <1>6, <1>7, <1>8, <1>9, <1>10, <1>11, <2>1 DEF ListInv
<1>13. CallInv'
  BY SameCall DEF IInv, CallInv, Merge, call
<1> QED BY <1>12, <1>13 DEF IInv

LEMMA DeallocateKeeps ==
    ASSUME IInv, NEW b \in Slabs \ {0}, Deallocate(b)
    PROVE  IInv'
<1> DEFINE it == iteratorAddress
<1> DEFINE F == FreeSlabs
<1>1. CASE ~Freed(b)
  <2>1. UNCHANGED list /\ UNCHANGED call
    BY <1>1 DEF Deallocate, vars
  <2>2. CallInv'
    BY <2>1, SameCall DEF IInv, CallInv, call
  <2> QED BY <2>1, <2>2, SameList DEF IInv
<1>2. CASE Freed(b)
  <2>1. /\ Tiles(size) /\ next \in [Slabs -> (0..(Blocks - 1)) \union {Allocated}]
        /\ Rounds(listSize, next, F, it) /\ 0 \in F
        /\ totalAvailableBlocks = Cardinality(BlocksOf(size, F))
    BY DEF IInv, ListInv
  <2>2. F = {x \in Slabs : next[x] # Allocated} /\ DOMAIN size = Slabs
    BY DEF FreeSlabs, Slabs
  <2>3. it \in F /\ next[it] \in F /\ F \subseteq Nat /\ totalAvailableBlocks \in Nat /\ it # b
    <3>1. it \in F /\ next[it] \in F /\ Slabs \subseteq 0..(Blocks - 1)
          /\ totalAvailableBlocks \in 0..(Blocks - 1)
      BY ListIs DEF IInv
    <3>2. it # b
      BY <1>2, <2>2, <3>1 DEF Freed
    <3>3. F \subseteq Nat
      <4>1. ASSUME NEW x \in F PROVE x \in Nat
        <5>1. x \in 0..(Blocks - 1)
          BY <2>2, <3>1
        <5> QED BY <5>1
      <4> QED BY <4>1
    <3> QED BY <3>1, <3>2, <3>3
  <2>4. /\ next' = [next EXCEPT ![b] = next[it], ![it] = b]
        /\ totalAvailableBlocks' = (totalAvailableBlocks + size[b]) % Word
        /\ listSize' = listSize + 1 /\ size' = size /\ iteratorAddress' = it
        /\ UNCHANGED call
    BY <1>2 DEF Deallocate
  <2>5. b \notin F /\ b \in DOMAIN size \ F /\ b # 0 /\ b \in 0..(Blocks - 1)
    BY <1>2, <2>1, <2>2 DEF Freed, Tiles
  <2> HIDE DEF F, it
  <2>6. /\ next'[b] = next[it] /\ next'[it] = b /\ \A x \in Slabs \ {b, it} : next'[x] = next[x]
        /\ next' \in [Slabs -> (0..(Blocks - 1)) \union {Allocated}]
    BY <2>1, <2>2, <2>3, <2>4, <2>5
  <2>7. Slabs' = Slabs
    BY <2>4 DEF Slabs
  <2> DEFINE G == F \union {b}
  <2>8. FreeSlabs' = G
    <3>1. FreeSlabs' = {x \in Slabs : next'[x] # Allocated}
      BY <2>7 DEF FreeSlabs
    <3>2. next'[b] # Allocated /\ next'[it] # Allocated
      <4>1. b \in Nat /\ next[it] \in Nat /\ Allocated \notin Nat
        <5>1. Allocated \notin Nat
          BY HeapAssumption
        <5>2. b \in 0..(Blocks - 1)
          BY <2>5
        <5>3. b \in Nat
          BY <5>2
        <5>4. next[it] \in Nat
          BY <2>3
        <5> QED BY <5>1, <5>3, <5>4
      <4> QED BY <2>6, <4>1
    <3>3. b \in Slabs /\ it \in F
      BY <2>3
    <3>4. ASSUME NEW x \in Slabs
          PROVE  next'[x] # Allocated <=> next[x] # Allocated \/ x = b
      <4>1. CASE x = b \/ x = it
        BY <2>2, <2>3, <3>2, <4>1
      <4>2. CASE x # b /\ x # it
        BY <2>6, <4>2
      <4> QED BY <4>1, <4>2
    <3> QED BY <2>2, <3>1, <3>3, <3>4
  <2>9. Rounds(listSize + 1, next', G, it)
    <3>1. PICK c \in [0..listSize -> F] : Circles(c, listSize, next, F, it)
      BY <2>1 DEF Rounds
    <3>2. \A x \in F \ {it} : next'[x] = next[x]
      BY <2>2, <2>5, <2>6
    <3>3. G = F \union {b} /\ b \notin F /\ next'[b] = next[it] /\ next'[it] = b
      BY <2>5, <2>6
    <3> HIDE DEF G
    <3>4. \E d \in [0..(listSize+1) -> G] : Circles(d, listSize + 1, next', G, it)
      BY <3>1, <3>2, <3>3, CircleInserts
    <3> QED BY <3>4 DEF Rounds
  <2>10. Cardinality(BlocksOf(size, G)) = totalAvailableBlocks + size[b]
    <3>1. F \in SUBSET DOMAIN size
      BY <2>2
    <3> QED BY <2>1, <2>5, <3>1, BlocksFreed
  <2>11. totalAvailableBlocks' = totalAvailableBlocks + size[b]
    <3> DEFINE k == totalAvailableBlocks + size[b]
    <3>1. Word \in Nat \ {0} /\ Word > Blocks
      BY HeapAssumption
    <3>2. G \in SUBSET DOMAIN size
      BY <2>2, <2>5
    <3>3. k \in 0..(Blocks - 1)
      BY <2>1, <2>10, <3>2, BlocksCount
    <3>4. k \in 0..(Word - 1)
      <4> HIDE DEF k
      <4> QED BY <3>1, <3>3, HeapAssumption
    <3> HIDE DEF k
    <3>5. k % Word = k
      BY <3>1, <3>4, SmallRemainder
    <3> QED BY <2>4, <3>5 DEF k
  <2>12. ListInv'
    <3>1. 0 \in G
      BY <2>1
    <3> HIDE DEF G
    <3> QED BY <2>1, <2>4, <2>6, <2>7, <2>8, <2>9, <2>10, <2>11, <3>1 DEF ListInv
  <2>13. CallInv'
    BY <2>4, SameCall DEF IInv, CallInv, call
  <2> QED BY <2>12, <2>13 DEF IInv
<1> QED BY <1>1, <1>2

LEMMA NextKeeps == IInv /\ [Next]_vars => IInv'
<1> SUFFICES ASSUME IInv, [Next]_vars PROVE IInv'
  OBVIOUS
<1>1. CASE \E n \in Requests : AllocateBytes(n) \/ MemAlloc(n)
  <2>1. UNCHANGED list
    BY <1>1 DEF AllocateBytes, MemAlloc, Begin
  <2> QED BY <1>1, <2>1, BeginKeeps, SameList DEF IInv
<1>2. CASE Search
  BY <1>2, GiveUpKeeps, TakeKeeps, RejectKeeps, MergeKeeps, AdvanceKeeps DEF Search
<1>3. CASE \E b \in Slabs \ {0} : Deallocate(b)
  BY <1>3, DeallocateKeeps
<1>4. CASE UNCHANGED vars
  <2>1. UNCHANGED list /\ UNCHANGED call
    BY <1>4 DEF vars
  <2>2. CallInv'
    BY <2>1, SameCall DEF IInv, CallInv, call
  <2> QED BY <2>1, <2>2, SameList DEF IInv
<1> QED BY <1>1, <1>2, <1>3, <1>4 DEF Next

\* The invariant holds in every reachable state.
THEOREM HeapIsSound == Spec => []IInv
<1> QED BY InitIsSound, NextKeeps, PTL DEF Spec

\* The variables keep their types; with them no sum of sizes leaves uint32.
THEOREM AllocatorIsTyped == Spec => []TypeOK
<1> QED BY HeapIsSound, TypesAre, PTL

\* Splits and merges lose no block and put none in two slabs, whatever is asked for
\* and freed, in any order.
THEOREM HeapStaysTiled == Spec => []SlabsTileTheHeap
<1>1. IInv => SlabsTileTheHeap
  <2> SUFFICES ASSUME IInv PROVE SlabsTileTheHeap
    OBVIOUS
  <2>1. Tiles(size) /\ Slabs = DOMAIN size
    BY DEF IInv, ListInv, Slabs
  <2>2. \A b \in Slabs : /\ b \in 0..(Blocks - 1) /\ size[b] \in 0..(Blocks - 1)
                         /\ size[b] = 0 <=> b = 0
                         /\ b # 0 => b + size[b] <= Blocks
    BY <2>1, SlabInHeap
  <2>3. \A b \in Slabs, k \in Int : k \in Stretch(b) <=> b <= k /\ k < b + size[b]
    BY <2>2 DEF Stretch
  <2>4. \A b \in Slabs : Stretch(b) \subseteq Int
    BY <2>2 DEF Stretch
  <2>5. \A b \in Slabs \ {0} : size[b] > 0 /\ Above(b) \in Slabs \union {Blocks}
    BY <2>1 DEF Tiles, Above
  <2>6. ASSUME NEW b \in Slabs, NEW c \in Slabs, b # c
        PROVE  Stretch(b) \intersect Stretch(c) = {}
    <3>1. SUFFICES ASSUME NEW k \in Int, k \in Stretch(b), k \in Stretch(c) PROVE FALSE
      BY <2>4
    <3>2. b <= k /\ k < b + size[b] /\ c <= k /\ k < c + size[c]
      BY <2>3, <3>1
    <3> QED BY <2>1, <2>6, <3>2, OneSlab
  <2>7. \A b \in Slabs : Stretch(b) \subseteq 1..(Blocks - 1)
    BY <2>2, HeapAssumption DEF Stretch
  <2>8. ASSUME NEW k \in 1..(Blocks - 1) PROVE \E b \in Slabs : k \in Stretch(b)
    <3>1. PICK b \in Slabs : b <= k /\ k < b + size[b]
      BY <2>1 DEF Tiles
    <3> QED BY <2>3, <3>1
  <2>9. UNION {Stretch(b) : b \in Slabs} = 1..(Blocks - 1)
    BY <2>7, <2>8
  <2> QED BY <2>5, <2>6, <2>9 DEF SlabsTileTheHeap
<1> QED BY <1>1, HeapIsSound, PTL

\* The list stays one circle through exactly the free slabs, of the length that
\* listSize says, whatever was merged in its middle or put behind its iterator.
THEOREM ListStaysOneCircle == Spec => []ListIsOneCircle
<1>1. ASSUME IInv PROVE ListIsOneCircle
  <2> DEFINE n == listSize
  <2> DEFINE F == FreeSlabs
  <2> DEFINE it == iteratorAddress
  <2>1. /\ 0 \in F /\ n \in Nat \ {0} /\ Cardinality(F) = n
    BY <1>1, ListIs, HeapAssumption DEF IInv, ListInv
  <2>2. PICK c \in [0..n -> F] : Circles(c, n, next, F, it)
    BY <1>1 DEF IInv, ListInv, Rounds
  <2>3. /\ c[0] = it /\ c[n] = it /\ \A i \in 0..n : c[i] \in F
        /\ \A i \in 1..n : c[i] = next[c[i-1]]
        /\ \A b \in F : \E i \in 1..n : c[i] = b
    BY <2>2 DEF Circles
  <2> DEFINE at == CHOOSE f : f = [i \in 0..listSize |->
                      IF i = 0 THEN iteratorAddress
                      ELSE IF f[i-1] \in FreeSlabs THEN next[f[i-1]] ELSE Allocated]
  <2>4. ListIsOneCircle <=>
           /\ at[listSize] = iteratorAddress
           /\ {at[i] : i \in 1..listSize} = FreeSlabs
           /\ Cardinality(FreeSlabs) = listSize
           /\ 0 \in FreeSlabs
    BY DEF ListIsOneCircle
  <2> HIDE DEF n, F, it
  <2>5. c = [i \in 0..n |-> IF i = 0 THEN it ELSE IF c[i-1] \in F THEN next[c[i-1]] ELSE Allocated]
    <3>1. ASSUME NEW i \in 0..n
          PROVE  c[i] = IF i = 0 THEN it ELSE IF c[i-1] \in F THEN next[c[i-1]] ELSE Allocated
      <4>1. CASE i = 0
        BY <2>3, <4>1
      <4>2. CASE i # 0
        <5>1. i \in 1..n /\ i - 1 \in 0..n
          BY <2>1, <4>2
        <5> QED BY <2>3, <4>2, <5>1
      <4> QED BY <4>1, <4>2
    <3> QED BY <3>1
  <2>6. at = [i \in 0..n |-> IF i = 0 THEN it ELSE IF at[i-1] \in F THEN next[at[i-1]] ELSE Allocated]
    BY <2>5 DEF n, F, it
  <2> HIDE DEF at
  <2>7. \A i \in 0..n : at[i] = c[i]
    <3> DEFINE T == {i \in Nat : i <= n => at[i] = c[i]}
    <3>1. 0 \in T
      BY <2>1, <2>3, <2>6
    <3>2. ASSUME NEW i \in T PROVE i + 1 \in T
      <4>1. SUFFICES ASSUME i + 1 <= n PROVE at[i+1] = c[i+1]
        OBVIOUS
      <4>2. i \in 0..n /\ i + 1 \in 1..n /\ i + 1 \in 0..n /\ i + 1 # 0 /\ (i + 1) - 1 = i
        BY <2>1, <4>1
      <4>3. at[i] = c[i]
        BY <2>1, <4>1
      <4>4. at[i+1] = IF at[i] \in F THEN next[at[i]] ELSE Allocated
        BY <2>6, <4>2
      <4> QED BY <2>3, <4>2, <4>3, <4>4
    <3>3. T \in SUBSET Nat
      OBVIOUS
    <3> HIDE DEF T
    <3>4. T = Nat
      BY <3>1, <3>2, <3>3, SetInduction
    <3>5. ASSUME NEW i \in 0..n PROVE at[i] = c[i]
      <4>1. i \in T /\ i <= n
        BY <2>1, <3>4
      <4> QED BY <4>1 DEF T
    <3> QED BY <3>5
  <2>8. at[n] = it /\ {at[i] : i \in 1..n} = F
    <3>1. n \in 0..n /\ \A i \in 1..n : i \in 0..n
      BY <2>1
    <3>2. at[n] = it /\ \A i \in 1..n : at[i] \in F
      BY <2>3, <2>7, <3>1
    <3>3. ASSUME NEW b \in F PROVE \E i \in 1..n : at[i] = b
      <4>1. PICK i \in 1..n : c[i] = b
        BY <2>3
      <4> QED BY <2>7, <3>1, <4>1
    <3> QED BY <3>2, <3>3
  <2> QED BY <2>1, <2>4, <2>8 DEF n, F, it
<1> QED BY <1>1, HeapIsSound, PTL

-----------------------------------------------------------------------------
\* Allocator implements Heap, and mem_alloc() agrees with
\* mem_get_largest_free_block().

-----------------------------------------------------------------------------
\* What a search has seen.  It may start a second round before it has seen the
\* end of the first, for the slab before first may swallow others; and first
\* itself may be swallowed, after which nothing is claimed.

\* First round: P, from first to the iterator, has been merged as far as it goes.
FirstRound ==
    \E P \in SUBSET FreeSlabs :
        /\ first \in P /\ iteratorAddress \in P
        /\ \A b \in P \ {iteratorAddress} : next[b] \in P /\ ~CanMerge(b)

\* Second round: Q, from first to the iterator, has been found too small.
SecondRound ==
    \E Q \in SUBSET FreeSlabs :
        /\ first \in Q /\ iteratorAddress \in Q
        /\ \A b \in Q : ~SlabGood(b)
        /\ \A b \in Q \ {iteratorAddress} : next[b] \in Q

Searched ==
    pc # "idle" /\ first \in FreeSlabs =>
        IF ~secondTry THEN FirstRound
        ELSE /\ \A b \in FreeSlabs : b # iteratorAddress \/ pc = "test" => ~CanMerge(b)
             /\ pc = "test" => SecondRound
             /\ pc # "test" =>
                   /\ ~SlabGood(cmmd)
                   /\ cmmd = first \/ (SecondRound /\ ~CanMerge(iteratorAddress))

SInv == IInv /\ Searched

LEMMA AllOfTheList ==
    ASSUME ListInv, NEW P \in SUBSET FreeSlabs, iteratorAddress \in P,
           \A b \in P : next[b] \in P
    PROVE  P = FreeSlabs
<1>1. PICK c \in [0..listSize -> FreeSlabs] :
         Circles(c, listSize, next, FreeSlabs, iteratorAddress)
  BY DEF ListInv, Rounds
<1> QED BY <1>1, CircleIsAll

LEMMA BeginSearches ==
    ASSUME IInv, NEW n \in Requests, AllocateBytes(n) \/ MemAlloc(n)
    PROVE  Searched'
<1>1. /\ pc' = "test" /\ first' = iteratorAddress /\ secondTry' = FALSE
      /\ UNCHANGED list
  BY DEF AllocateBytes, MemAlloc, Begin
<1>2. iteratorAddress' = iteratorAddress /\ FreeSlabs' = FreeSlabs /\ iteratorAddress \in FreeSlabs
  BY <1>1, ListIs DEF IInv, list, FreeSlabs, Slabs
<1>3. FirstRound'
  <2> DEFINE P == {iteratorAddress}
  <2>1. P \in SUBSET FreeSlabs' /\ first' \in P /\ iteratorAddress' \in P
        /\ P \ {iteratorAddress'} = {}
    BY <1>1, <1>2
  <2> HIDE DEF P
  <2> QED BY <2>1 DEF FirstRound
<1> QED BY <1>1, <1>3 DEF Searched

LEMMA RejectSearches ==
    ASSUME SInv, Reject
    PROVE  Searched'
<1>1. /\ pc = "test" /\ pc' = "merge" /\ ~AtEnd /\ ~SlabGood(cmmd)
      /\ secondTry' = (secondTry \/ cmmd = first) /\ UNCHANGED list
      /\ nBytes' = nBytes /\ first' = first
  BY DEF Reject
<1>2. /\ size' = size /\ next' = next /\ iteratorAddress' = iteratorAddress
      /\ FreeSlabs' = FreeSlabs /\ cmmd' = cmmd /\ need' = need
      /\ \A b \in FreeSlabs : CanMerge(b)' <=> CanMerge(b)
      /\ \A b : SlabGood(b)' <=> SlabGood(b)
  BY <1>1 DEF list, FreeSlabs, Slabs, cmmd, need, CanMerge, Above, SlabGood
<1>3. SUFFICES ASSUME first \in FreeSlabs PROVE Searched'
  BY <1>1, <1>2 DEF Searched
<1>4. iteratorAddress \in FreeSlabs
  BY ListIs DEF SInv, IInv
<1>5. CASE secondTry
  <2>1. SecondRound /\ \A b \in FreeSlabs : ~CanMerge(b)
    BY <1>1, <1>3, <1>5 DEF SInv, Searched
  <2>2. SecondRound'
    BY <1>1, <1>2, <2>1 DEF SecondRound
  <2>3. ~CanMerge(iteratorAddress)' /\ ~SlabGood(cmmd)'
    BY <1>1, <1>2, <1>4, <2>1
  <2> QED BY <1>1, <1>2, <1>5, <2>1, <2>2, <2>3 DEF Searched
<1>6. CASE ~secondTry /\ cmmd # first
  <2>1. FirstRound
    BY <1>1, <1>3, <1>6 DEF SInv, Searched
  <2>2. FirstRound'
    BY <1>1, <1>2, <2>1 DEF FirstRound
  <2> QED BY <1>1, <1>6, <2>2 DEF Searched
<1>7. CASE ~secondTry /\ cmmd = first
  <2>1. FirstRound
    BY <1>1, <1>3, <1>7 DEF SInv, Searched
  <2>2. PICK P \in SUBSET FreeSlabs :
           /\ first \in P /\ iteratorAddress \in P
           /\ \A b \in P \ {iteratorAddress} : next[b] \in P /\ ~CanMerge(b)
    BY <2>1 DEF FirstRound
  <2>3. next[iteratorAddress] \in P
    BY <1>7, <2>2 DEF cmmd
  <2>4. P = FreeSlabs
    BY <2>2, <2>3, AllOfTheList DEF SInv, IInv
  <2>5. \A b \in FreeSlabs : b # iteratorAddress => ~CanMerge(b)
    BY <2>2, <2>4
  <2>6. ~SlabGood(cmmd)' /\ cmmd' = first'
    BY <1>1, <1>2, <1>7
  <2> QED BY <1>1, <1>2, <2>5, <2>6 DEF Searched
<1> QED BY <1>5, <1>6, <1>7

LEMMA FreeSlabsAre ==
    ASSUME IInv
    PROVE  /\ FreeSlabs \in SUBSET Slabs /\ FreeSlabs \subseteq Nat
           /\ iteratorAddress \in FreeSlabs
           /\ \A b \in FreeSlabs : next[b] \in FreeSlabs
<1>1. FreeSlabs \in SUBSET Slabs /\ iteratorAddress \in FreeSlabs
      /\ (\A b \in FreeSlabs : next[b] \in FreeSlabs) /\ Slabs \subseteq 0..(Blocks - 1)
  BY ListIs DEF IInv
<1>2. 0..(Blocks - 1) \subseteq Nat
  BY HeapAssumption
<1> QED BY <1>1, <1>2

\* The slab that is taken in leaves the slabs and the list.
LEMMA MergeTakesIn ==
    ASSUME IInv, Merge
    PROVE  /\ Slabs' = Slabs \ {Above(iteratorAddress)}
           /\ FreeSlabs' = FreeSlabs \ {Above(iteratorAddress)}
<1> DEFINE it == iteratorAddress
<1> DEFINE a == Above(it)
<1>1. a \in FreeSlabs /\ next[a] \in FreeSlabs /\ FreeSlabs \subseteq Nat
  <2>1. it \in FreeSlabs /\ FreeSlabs \subseteq Nat /\ \A b \in FreeSlabs : next[b] \in FreeSlabs
    BY FreeSlabsAre
  <2> QED BY <2>1, MergedIs DEF Merge
<1>2. a # Allocated /\ next[a] # Allocated
  BY <1>1, HeapAssumption
<1>3. Slabs' = Slabs \ {a} /\ \A x \in Slabs \ {a} : next'[x] # Allocated <=> next[x] # Allocated
  BY <1>2 DEF Merge, Slabs
<1> QED BY <1>3 DEF FreeSlabs

\* A merge lets no other slab merge.
LEMMA MergeElsewhere ==
    ASSUME IInv, Merge, NEW b \in FreeSlabs, b # iteratorAddress, b # Above(iteratorAddress),
           ~CanMerge(b)
    PROVE  ~CanMerge(b)' /\ size'[b] = size[b]
<1> DEFINE it == iteratorAddress
<1> DEFINE a == Above(it)
<1>1. it \in FreeSlabs /\ a \in FreeSlabs
  <2>1. it \in FreeSlabs
    BY ListIs DEF IInv
  <2> QED BY <2>1, MergedIs DEF Merge
<1>2. /\ \A x \in Slabs \ {a, it} : size'[x] = size[x]
      /\ \A x \in Slabs \ {a} : next'[x] = IF next[x] = a THEN next[a] ELSE next[x]
  BY DEF Merge
<1>3. b \in Slabs \ {a, it}
  BY DEF FreeSlabs
<1>4. size'[b] = size[b] /\ Above(b)' = Above(b)
  BY <1>2, <1>3 DEF Above
<1>5. ASSUME size[b] # 0, Above(b) < Blocks
      PROVE  next'[Above(b)] = Allocated
  <2> DEFINE x == Above(b)
  <2>1. Tiles(size) /\ DOMAIN size = Slabs /\ b \in DOMAIN size
    BY <1>3 DEF IInv, ListInv, Slabs
  <2>2. x \in Slabs \ {0}
    BY <1>5, <2>1, SlabInHeap DEF Above
  <2>3. size[x] # 0
    BY <2>1, <2>2, SlabInHeap
  <2>4. next[x] = Allocated
    BY <1>5, <2>3 DEF CanMerge
  <2>5. x # a /\ x # it /\ a # Allocated
    <3>1. a \in Nat
      BY <1>1, ListIs DEF IInv
    <3> QED BY <1>1, <2>4, <3>1, HeapAssumption DEF FreeSlabs
  <2> QED BY <1>2, <2>2, <2>4, <2>5
<1> QED BY <1>4, <1>5 DEF CanMerge

LEMMA MergeSearches ==
    ASSUME SInv, Merge
    PROVE  Searched'
<1> DEFINE it == iteratorAddress
<1> DEFINE a == Above(it)
<1>1. IInv /\ Searched
  BY DEF SInv
<1>2. /\ pc = "merge" /\ CanMerge(it) /\ iteratorAddress' = it /\ UNCHANGED call
      /\ \A x \in Slabs \ {a} : next'[x] = IF next[x] = a THEN next[a] ELSE next[x]
  BY DEF Merge
<1>3. pc' = "merge" /\ first' = first /\ secondTry' = secondTry /\ nBytes' = nBytes
  BY <1>2 DEF call
<1>4. it \in FreeSlabs /\ a \in FreeSlabs /\ a # it /\ it # 0
      /\ FreeSlabs \in SUBSET Slabs
      /\ \A b \in FreeSlabs : next[b] \in FreeSlabs /\ (next[b] = b => b = 0)
  <2>1. it \in FreeSlabs /\ FreeSlabs \in SUBSET Slabs
        /\ \A b \in FreeSlabs : next[b] \in FreeSlabs /\ (next[b] = b => b = 0)
    BY <1>1, ListIs DEF IInv
  <2> QED BY <1>1, <1>2, <2>1, MergedIs
<1>5. FreeSlabs' = FreeSlabs \ {a}
  BY <1>1, MergeTakesIn
<1>6. \A b \in FreeSlabs : b # it /\ b # a /\ ~CanMerge(b) => ~CanMerge(b)' /\ size'[b] = size[b]
  BY <1>1, MergeElsewhere
<1>7. SUFFICES ASSUME first \in FreeSlabs, first # a PROVE Searched'
  BY <1>3, <1>5 DEF Searched
<1> HIDE DEF it, a
<1>8. CASE ~secondTry
  <2>1. FirstRound
    BY <1>1, <1>2, <1>7, <1>8 DEF Searched
  <2>2. PICK P \in SUBSET FreeSlabs :
           /\ first \in P /\ it \in P
           /\ \A b \in P \ {it} : next[b] \in P /\ ~CanMerge(b)
    BY <2>1 DEF FirstRound, it
  <2> DEFINE R == P \ {a}
  <2>3. R \in SUBSET FreeSlabs' /\ first' \in R /\ iteratorAddress' \in R
    BY <1>2, <1>3, <1>4, <1>5, <1>7, <2>2
  <2>4. ASSUME NEW b \in R \ {it} PROVE next'[b] \in R /\ ~CanMerge(b)'
    <3>1. next[b] \in P /\ ~CanMerge(b) /\ b \in FreeSlabs /\ b # a /\ b \in Slabs
      BY <1>4, <2>2
    <3>2. ~CanMerge(b)'
      BY <1>6, <3>1
    <3>3. CASE next[b] = a
      <4>1. a \in P /\ next[a] \in P /\ next[a] # a
        <5>1. a # 0
          BY <1>1, <1>2, <1>4, MergedIs DEF a
        <5> QED BY <1>4, <2>2, <3>1, <3>3, <5>1
      <4> QED BY <1>2, <3>1, <3>2, <3>3, <4>1
    <3>4. CASE next[b] # a
      BY <1>2, <3>1, <3>2, <3>4
    <3> QED BY <3>3, <3>4
  <2>5. FirstRound'
    <3> HIDE DEF R
    <3> QED BY <1>2, <2>3, <2>4 DEF FirstRound
  <2> QED BY <1>3, <1>8, <2>5 DEF Searched
<1>9. CASE secondTry
  <2>1. /\ \A b \in FreeSlabs : b # it => ~CanMerge(b)
        /\ ~SlabGood(cmmd) /\ cmmd = first
    BY <1>1, <1>2, <1>7, <1>9 DEF Searched, it
  <2>2. next[it] = first /\ first # it
    BY <1>4, <2>1 DEF cmmd, it
  <2>3. next'[it] = first /\ cmmd' = first /\ size'[first] = size[first]
    <3>1. next'[it] = first
      BY <1>2, <1>4, <1>7, <2>2
    <3>2. cmmd' = first
      BY <1>2, <3>1 DEF cmmd
    <3> QED BY <1>6, <1>7, <2>1, <2>2, <3>1, <3>2
  <2>4. ~SlabGood(cmmd)'
    BY <1>3, <2>1, <2>3 DEF SlabGood, need
  <2>5. \A b \in FreeSlabs' : b # iteratorAddress' => ~CanMerge(b)'
    BY <1>2, <1>5, <1>6, <2>1
  <2> QED BY <1>3, <1>9, <2>3, <2>4, <2>5 DEF Searched
<1> QED BY <1>8, <1>9

LEMMA AdvanceSearches ==
    ASSUME SInv, Advance
    PROVE  Searched'
<1> DEFINE it == iteratorAddress
<1>1. /\ pc = "merge" /\ pc' = "test" /\ ~CanMerge(it) /\ iteratorAddress' = next[it]
      /\ size' = size /\ next' = next /\ first' = first /\ secondTry' = secondTry
      /\ nBytes' = nBytes
  BY DEF Advance
<1>2. /\ FreeSlabs' = FreeSlabs /\ need' = need
      /\ \A b \in FreeSlabs : CanMerge(b)' <=> CanMerge(b)
      /\ \A b : SlabGood(b)' <=> SlabGood(b)
  BY <1>1 DEF FreeSlabs, Slabs, need, CanMerge, Above, SlabGood
<1>3. SUFFICES ASSUME first \in FreeSlabs PROVE Searched'
  BY <1>1, <1>2 DEF Searched
<1>4. it \in FreeSlabs /\ next[it] \in FreeSlabs /\ cmmd = next[it]
  BY ListIs DEF SInv, IInv, cmmd
<1> HIDE DEF it
<1>5. CASE ~secondTry
  <2>1. FirstRound
    BY <1>1, <1>3, <1>5 DEF SInv, Searched
  <2>2. PICK P \in SUBSET FreeSlabs :
           /\ first \in P /\ it \in P
           /\ \A b \in P \ {it} : next[b] \in P /\ ~CanMerge(b)
    BY <2>1 DEF FirstRound, it
  <2> DEFINE R == P \union {next[it]}
  <2>3. R \in SUBSET FreeSlabs' /\ first' \in R /\ iteratorAddress' \in R
    BY <1>1, <1>2, <1>4, <2>2
  <2>4. \A b \in R \ {iteratorAddress'} : next'[b] \in R /\ ~CanMerge(b)'
    BY <1>1, <1>2, <1>4, <2>2
  <2>5. FirstRound'
    <3> HIDE DEF R
    <3> QED BY <2>3, <2>4 DEF FirstRound
  <2> QED BY <1>1, <1>5, <2>5 DEF Searched
<1>6. CASE secondTry
  <2>1. /\ \A b \in FreeSlabs : b # it => ~CanMerge(b)
        /\ ~SlabGood(next[it])
        /\ next[it] = first \/ SecondRound
    BY <1>1, <1>3, <1>4, <1>6 DEF SInv, Searched, it
  <2>2. \A b \in FreeSlabs' : ~CanMerge(b)'
    BY <1>1, <1>2, <2>1
  <2>3. CASE next[it] = first
    <3> DEFINE R == {first}
    <3>1. R \in SUBSET FreeSlabs' /\ first' \in R /\ iteratorAddress' \in R
          /\ \A b \in R : ~SlabGood(b)'
          /\ R \ {iteratorAddress'} = {}
      BY <1>1, <1>2, <1>3, <2>1, <2>3
    <3> HIDE DEF R
    <3>2. SecondRound'
      BY <3>1 DEF SecondRound
    <3> QED BY <1>1, <1>6, <2>2, <3>2 DEF Searched
  <2>4. CASE SecondRound
    <3>1. PICK Q \in SUBSET FreeSlabs :
             /\ first \in Q /\ it \in Q
             /\ \A b \in Q : ~SlabGood(b)
             /\ \A b \in Q \ {it} : next[b] \in Q
      BY <2>4 DEF SecondRound, it
    <3> DEFINE R == Q \union {next[it]}
    <3>2. /\ R \in SUBSET FreeSlabs' /\ first' \in R /\ iteratorAddress' \in R
          /\ \A b \in R : ~SlabGood(b)'
          /\ \A b \in R \ {iteratorAddress'} : next'[b] \in R
      BY <1>1, <1>2, <1>4, <2>1, <3>1
    <3> HIDE DEF R
    <3>3. SecondRound'
      BY <3>2 DEF SecondRound
    <3> QED BY <1>1, <1>6, <2>2, <3>3 DEF Searched
  <2> QED BY <2>1, <2>3, <2>4
<1> QED BY <1>5, <1>6

LEMMA SearchKeeps == SInv /\ [Next]_vars => SInv'
<1> SUFFICES ASSUME SInv, [Next]_vars PROVE SInv'
  OBVIOUS
<1>1. IInv'
  BY NextKeeps DEF SInv
<1>2. CASE \E n \in Requests : AllocateBytes(n) \/ MemAlloc(n)
  BY <1>1, <1>2, BeginSearches DEF SInv
<1>3. CASE Search
  <2>1. GiveUp \/ Take => pc' = "idle"
    BY DEF GiveUp, Take, Return
  <2>2. pc' = "idle" => Searched'
    BY DEF Searched
  <2> QED BY <1>1, <1>3, <2>1, <2>2, RejectSearches, MergeSearches, AdvanceSearches DEF Search, SInv
<1>4. CASE \E b \in Slabs \ {0} : Deallocate(b)
  <2>1. pc' = "idle"
    BY <1>4 DEF Deallocate, vars, call
  <2> QED BY <1>1, <2>1 DEF SInv, Searched
<1>5. CASE UNCHANGED vars
  <2>1. Searched'
    BY <1>5 DEF SInv, Searched, FirstRound, SecondRound, FreeSlabs, Slabs, CanMerge, Above,
                SlabGood, cmmd, need, vars, list, call
  <2> QED BY <1>1, <2>1 DEF SInv
<1> QED BY <1>2, <1>3, <1>4, <1>5 DEF Next

\* What a running search has merged and rejected so far.
THEOREM SearchIsComplete == Spec => []SInv
<1>1. Init => SInv
  <2>1. Init => Searched
    BY DEF Init, Searched
  <2> QED BY <2>1, InitIsSound DEF SInv
<1> QED BY <1>1, SearchKeeps, PTL DEF Spec

\* When a search gives up all free slabs are merged and too small.
LEMMA RefusedIs ==
    ASSUME SInv, GiveUp
    PROVE  \A b \in FreeSlabs : ~SlabGood(b) /\ ~CanMerge(b)
<1>1. pc = "test" /\ cmmd = first /\ secondTry
  BY DEF GiveUp, AtEnd
<1>2. cmmd \in FreeSlabs
  BY ListIs DEF SInv, IInv, cmmd
<1>3. SecondRound /\ \A b \in FreeSlabs : ~CanMerge(b)
  BY <1>1, <1>2 DEF SInv, Searched
<1>4. PICK Q \in SUBSET FreeSlabs :
         /\ first \in Q /\ iteratorAddress \in Q
         /\ \A b \in Q : ~SlabGood(b)
         /\ \A b \in Q \ {iteratorAddress} : next[b] \in Q
  BY <1>3 DEF SecondRound
<1>5. \A b \in Q : next[b] \in Q
  BY <1>1, <1>4 DEF cmmd
<1>6. Q = FreeSlabs
  BY <1>4, <1>5, AllOfTheList DEF SInv, IInv
<1> QED BY <1>3, <1>4, <1>6

-----------------------------------------------------------------------------
\* The refinement.

LEMMA GrantedIs ==
    /\ DOMAIN Granted = Slabs \ FreeSlabs
    /\ \A b \in Slabs \ FreeSlabs : Granted[b] = size[b]
    /\ Granted = [b \in Slabs \ FreeSlabs |-> Granted[b]]
  BY DEF Granted

LEMMA NextGrantedIs ==
    /\ DOMAIN Granted' = Slabs' \ FreeSlabs'
    /\ \A b \in Slabs' \ FreeSlabs' : Granted'[b] = size'[b]
    /\ Granted' = [b \in Slabs' \ FreeSlabs' |-> Granted'[b]]
  BY DEF Granted

\* Steps that leave the granted slabs and the request alone.
LEMMA SameHeap ==
    ASSUME Slabs' \ FreeSlabs' = Slabs \ FreeSlabs,
           \A b \in Slabs \ FreeSlabs : size'[b] = size[b],
           pc' # "idle" <=> pc # "idle", nBytes' = nBytes, answer' = answer
    PROVE  UNCHANGED <<Granted, Wanted, answer>>
<1>1. Granted' = Granted
  BY DEF Granted
<1>2. Wanted' = Wanted
  BY DEF Wanted, need
<1> QED BY <1>1, <1>2

LEMMA AskRefines ==
    ASSUME IInv, NEW n \in Requests, AllocateBytes(n) \/ MemAlloc(n)
    PROVE  HeapSpec!Next
<1>1. pc = "idle" /\ pc' = "test" /\ asked' = n /\ UNCHANGED <<list, answer>>
  BY DEF AllocateBytes, MemAlloc, Begin
<1>2. Granted' = Granted
  BY <1>1 DEF Granted, Slabs, FreeSlabs, list
<1>3. CallIsSound'
  BY BeginKeeps DEF CallInv
<1>4. Wanted = 0 /\ Wanted' = NeededBlocks(n)
  BY <1>1, <1>3 DEF Wanted, CallIsSound
<1>5. HeapSpec!Ask(NeededBlocks(n))
  BY <1>1, <1>2, <1>4 DEF HeapSpec!Ask
<1> QED BY <1>5 DEF HeapSpec!Next

LEMMA GrantRefines ==
    ASSUME IInv, Take
    PROVE  HeapSpec!Next
<1> DEFINE m == cmmd
<1> DEFINE n == need
<1>1. /\ m \in FreeSlabs /\ m \in 1..(Blocks - 1) /\ m \in Slabs /\ m # iteratorAddress
      /\ size[m] \in 1..(Blocks - 1) /\ n \in 1..size[m] /\ n \in Nat /\ n > 0
  BY TakenIs
<1>2. Tiles(size) /\ DOMAIN size = Slabs /\ FreeSlabs \subseteq Slabs
  BY DEF IInv, ListInv, Slabs, FreeSlabs
<1>3. m + size[m] <= Blocks /\ Blocks \in Nat
  BY <1>1, <1>2, SlabInHeap, HeapAssumption
<1>4. pc = "test" /\ pc' = "idle" /\ answer' = m /\ nBytes' = 0
  BY DEF Take, Return
<1>5. Wanted = n /\ Wanted' = 0
  BY <1>4 DEF Wanted
<1>6. HeapSpec!Fits(m, n)
  <2>1. HeapSpec!Stretch(m, n) \subseteq 1..(Blocks - 1)
    BY <1>1, <1>3 DEF HeapSpec!Stretch
  <2>2. ASSUME NEW c \in DOMAIN Granted, NEW k \in HeapSpec!Stretch(m, n),
               k \in HeapSpec!Stretch(c, Granted[c])
        PROVE  FALSE
    <3>1. c \in Slabs /\ c \notin FreeSlabs /\ Granted[c] = size[c]
      BY GrantedIs
    <3>2. c \in 0..(Blocks - 1) /\ size[c] \in 0..(Blocks - 1)
      BY <1>2, <3>1, SlabInHeap
    <3>3. k \in Int /\ m <= k /\ k < m + size[m]
      BY <1>1, <2>2 DEF HeapSpec!Stretch
    <3>4. c <= k /\ k < c + size[c]
      BY <2>2, <3>1, <3>2, <3>3 DEF HeapSpec!Stretch
    <3>5. m = c
      BY <1>1, <1>2, <3>1, <3>3, <3>4, OneSlab
    <3> QED BY <1>1, <3>1, <3>5
  <2> QED BY <2>1, <2>2 DEF HeapSpec!Fits
<1>7. Granted' = [c \in DOMAIN Granted \union {m} |-> IF c = m THEN n ELSE Granted[c]]
  <2> DEFINE it == iteratorAddress
  <2> DEFINE F == FreeSlabs
  <2> DEFINE sm == m + n
  <2>1. /\ F = {b \in Slabs : next[b] # Allocated} /\ it \in F /\ it \in Slabs
        /\ next[m] # Allocated
    <3>1. it \in F /\ next[m] \in F /\ F \subseteq Nat /\ F \in SUBSET Slabs
      BY <1>1, FreeSlabsAre
    <3> QED BY <3>1, HeapAssumption DEF FreeSlabs
  <2>2. /\ Slabs' \ FreeSlabs' = {b \in Slabs' : next'[b] = Allocated}
    BY DEF FreeSlabs
  <2>3. CASE n = size[m]
    <3>1. /\ DOMAIN size' = Slabs /\ \A b \in Slabs : size'[b] = size[b]
          /\ next'[m] = Allocated /\ next'[it] = next[m]
          /\ \A b \in Slabs \ {m, it} : next'[b] = next[b]
      BY <1>1, <2>1, <2>3 DEF Take, GrantedSize
    <3> HIDE DEF m, n, it, F
    <3>2. Slabs' = Slabs
      BY <3>1 DEF Slabs
    <3>3. Slabs' \ FreeSlabs' = (Slabs \ F) \union {m}
      BY <1>1, <2>1, <2>2, <3>1, <3>2
    <3>4. \A b \in (Slabs \ F) \union {m} : size'[b] = IF b = m THEN n ELSE size[b]
      BY <1>1, <2>3, <3>1
    <3> QED BY <3>3, <3>4, GrantedIs, NextGrantedIs DEF F
  <2>4. CASE n # size[m]
    <3>1. n < size[m] /\ sm # m
      BY <1>1, <2>4
    <3>2. sm \notin Slabs
      <4>1. sm \in Int /\ m <= sm /\ sm < m + size[m] /\ m \in DOMAIN size
        BY <1>1, <1>2, <3>1
      <4> HIDE DEF m, n, sm
      <4> QED BY <1>2, <3>1, <4>1, InsideSlab
    <3>3. /\ DOMAIN size' = Slabs \union {sm}
          /\ size'[m] = n /\ \A b \in Slabs \ {m} : size'[b] = size[b]
          /\ next'[m] = Allocated /\ next'[it] = sm /\ next'[sm] = next[m]
          /\ \A b \in Slabs \ {m, it} : next'[b] = next[b]
      BY <1>1, <2>1, <3>1, <3>2 DEF Take, GrantedSize
    <3>4. sm # Allocated
      BY <1>1, HeapAssumption
    <3> HIDE DEF m, n, it, F, sm
    <3>5. Slabs' = Slabs \union {sm}
      BY <3>3 DEF Slabs
    <3>6. Slabs' \ FreeSlabs' = (Slabs \ F) \union {m}
      BY <1>1, <2>1, <2>2, <3>2, <3>3, <3>4, <3>5
    <3>7. \A b \in (Slabs \ F) \union {m} : size'[b] = IF b = m THEN n ELSE size[b]
      BY <1>1, <3>3
    <3> QED BY <3>6, <3>7, GrantedIs, NextGrantedIs DEF F
  <2> QED BY <2>3, <2>4
<1>8. HeapSpec!Grant(m)
  BY <1>1, <1>4, <1>5, <1>6, <1>7 DEF HeapSpec!Grant
<1> QED BY <1>1, <1>8 DEF HeapSpec!Next


LEMMA RefuseRefines ==
    ASSUME SInv, GiveUp
    PROVE  HeapSpec!Next
<1> DEFINE n == need
<1>1. IInv /\ Tiles(size) /\ DOMAIN size = Slabs
  BY DEF SInv, IInv, ListInv, Slabs
<1>2. pc = "test" /\ pc' = "idle" /\ answer' = Null /\ UNCHANGED list
  BY DEF GiveUp, Return
<1>3. Wanted = n /\ Wanted' = 0 /\ n \in Nat \ {0}
  <2>1. n \in 1..(Word - 1) /\ Word \in Nat
    BY <1>1, <1>2, NeedIs, HeapAssumption DEF IInv
  <2> QED BY <1>2, <2>1 DEF Wanted
<1>4. Granted' = Granted
  BY <1>2 DEF Granted, Slabs, FreeSlabs, list
<1>5. \A s \in FreeSlabs : ~SlabGood(s) /\ ~CanMerge(s)
  BY RefusedIs
<1>6. ASSUME NEW b \in 1..(Blocks - 1), HeapSpec!Fits(b, n) PROVE FALSE
  <2>1. /\ b..(b + n - 1) \subseteq 1..(Blocks - 1)
        /\ \A c \in DOMAIN Granted, k \in b..(b + n - 1) : k \notin c..(c + Granted[c] - 1)
    BY <1>6 DEF HeapSpec!Fits, HeapSpec!Stretch
  <2>2. /\ b \in Nat /\ Blocks \in Nat /\ b < Blocks /\ b + n - 1 < Blocks
    <3>1. Blocks \in Nat
      BY HeapAssumption
    <3>2. b + n - 1 \in b..(b + n - 1)
      BY <1>3, <3>1
    <3> HIDE DEF n
    <3> QED BY <1>3, <2>1, <3>1, <3>2
  <2>3. ASSUME NEW c \in Slabs, NEW k \in Int, c <= k, k < c + size[c], b <= k, k <= b + n - 1
        PROVE  c \in FreeSlabs
    <3>1. SUFFICES ASSUME c \notin FreeSlabs PROVE FALSE
      OBVIOUS
    <3>2. c \in DOMAIN Granted /\ Granted[c] = size[c]
      BY <3>1, GrantedIs
    <3>3. c \in Int /\ size[c] \in Int
      BY <1>1, SlabInHeap
    <3>4. k \in c..(c + Granted[c] - 1) /\ k \in b..(b + n - 1)
      <4> HIDE DEF n
      <4> QED BY <1>3, <2>2, <2>3, <3>2, <3>3
    <3> QED BY <2>1, <3>2, <3>4
  <2>4. PICK s \in Slabs : s <= b /\ b < s + size[s]
    BY <1>1 DEF Tiles
  <2>5. s \in FreeSlabs
    <3>1. b <= b + n - 1 /\ b \in Int
      BY <1>3, <2>2
    <3> QED BY <2>3, <2>4, <3>1
  <2>6. s \in Nat /\ size[s] \in Nat /\ size[s] # 0 /\ size[s] < n
    <3>1. s \in 0..(Blocks - 1) /\ size[s] \in 0..(Blocks - 1)
      BY <1>1, SlabInHeap
    <3>2. ~(n <= size[s])
      BY <1>5, <2>5 DEF SlabGood
    <3> HIDE DEF n
    <3> QED BY <1>3, <2>2, <2>4, <3>1, <3>2
  <2> DEFINE x == s + size[s]
  <2>7. x \in Int /\ b <= x /\ x <= b + n - 1 /\ x < Blocks /\ s # 0
    <3>1. s = 0 => size[s] = 0
      BY <1>1 DEF Tiles
    <3> HIDE DEF n
    <3> QED BY <1>3, <2>2, <2>4, <2>6, <3>1
  <2>8. x \in Slabs \ {0}
    BY <1>1, <2>7, SlabInHeap
  <2>9. size[x] \in Nat /\ size[x] > 0
    <3>1. size[x] \in 0..(Blocks - 1) /\ size[x] # 0
      BY <1>1, <2>8, SlabInHeap
    <3> HIDE DEF x
    <3> QED BY <2>2, <3>1
  <2>10. x \in FreeSlabs
    <3>1. x <= x /\ x < x + size[x]
      BY <2>7, <2>9
    <3> QED BY <2>3, <2>7, <2>8, <3>1
  <2>11. CanMerge(s)
    BY <2>6, <2>7, <2>9, <2>10 DEF CanMerge, Above, FreeSlabs
  <2> QED BY <1>5, <2>5, <2>11
<1>7. HeapSpec!Refuse
  <2> HIDE DEF n
  <2> QED BY <1>2, <1>3, <1>4, <1>6 DEF HeapSpec!Refuse
<1> QED BY <1>7 DEF HeapSpec!Next

LEMMA ReleaseRefines ==
    ASSUME IInv, NEW b \in Slabs \ {0}, Deallocate(b)
    PROVE  HeapSpec!Next \/ UNCHANGED <<Granted, Wanted, answer>>
<1> DEFINE it == iteratorAddress
<1>1. pc = "idle" /\ size' = size /\ UNCHANGED call
  BY DEF Deallocate, vars, list
<1>2. Slabs' = Slabs /\ pc' = "idle" /\ answer' = answer /\ Wanted = 0 /\ Wanted' = 0
  BY <1>1 DEF Slabs, call, Wanted
<1>3. CASE ~Freed(b)
  <2>1. UNCHANGED list
    BY <1>3 DEF Deallocate, vars
  <2>2. Granted' = Granted
    BY <2>1 DEF Granted, Slabs, FreeSlabs, list
  <2> QED BY <1>2, <2>2
<1>4. CASE Freed(b)
  <2>1. next' = [next EXCEPT ![b] = next[it], ![it] = b]
    BY <1>4 DEF Deallocate
  <2>2. /\ it \in FreeSlabs /\ next[it] \in FreeSlabs /\ FreeSlabs \subseteq Nat
        /\ FreeSlabs = {x \in Slabs : next[x] # Allocated}
    BY FreeSlabsAre DEF FreeSlabs
  <2>3. b \notin FreeSlabs /\ b # it /\ b # Allocated /\ next[it] # Allocated
    <3>1. b \in 0..(Blocks - 1) /\ Blocks \in Nat
      BY ListIs, HeapAssumption DEF IInv
    <3>2. b # Allocated
      BY <3>1, HeapAssumption
    <3> QED BY <1>4, <2>2, <3>2, HeapAssumption DEF Freed
  <2>4. DOMAIN next = Slabs
    BY DEF IInv, ListInv
  <2> HIDE DEF it
  <2>5. FreeSlabs' = FreeSlabs \union {b}
    <3>1. FreeSlabs' = {x \in Slabs : next'[x] # Allocated}
      BY <1>2 DEF FreeSlabs
    <3>2. /\ next'[b] = next[it] /\ next'[it] = b
          /\ \A x \in Slabs \ {b, it} : next'[x] = next[x]
      BY <2>1, <2>2, <2>3, <2>4
    <3> QED BY <2>2, <2>3, <3>1, <3>2
  <2>6. Slabs' \ FreeSlabs' = (Slabs \ FreeSlabs) \ {b}
    BY <1>2, <2>5
  <2>7. Granted' = [c \in DOMAIN Granted \ {b} |-> Granted[c]] /\ b \in DOMAIN Granted
    BY <1>1, <2>3, <2>6, GrantedIs, NextGrantedIs
  <2>8. HeapSpec!Release(b)
    BY <1>2, <2>7 DEF HeapSpec!Release
  <2> QED BY <2>7, <2>8 DEF HeapSpec!Next
<1> QED BY <1>3, <1>4

\* The tests, merges and advances of a search are no steps of Heap.
LEMMA SearchStutters ==
    ASSUME IInv, Reject \/ Merge \/ Advance
    PROVE  UNCHANGED <<Granted, Wanted, answer>>
<1>1. CASE Reject
  <2>1. Slabs' = Slabs /\ FreeSlabs' = FreeSlabs /\ size' = size
    BY <1>1 DEF Reject, list, Slabs, FreeSlabs
  <2> QED BY <1>1, <2>1, SameHeap DEF Reject
<1>2. CASE Advance
  <2>1. Slabs' = Slabs /\ FreeSlabs' = FreeSlabs /\ size' = size
    BY <1>2 DEF Advance, Slabs, FreeSlabs
  <2> QED BY <1>2, <2>1, SameHeap DEF Advance
<1>3. CASE Merge
  <2> DEFINE it == iteratorAddress
  <2> DEFINE a == Above(it)
  <2>1. it \in FreeSlabs /\ a \in FreeSlabs
    <3>1. it \in FreeSlabs
      BY FreeSlabsAre
    <3> QED BY <1>3, <3>1, MergedIs DEF Merge
  <2>2. Slabs' \ FreeSlabs' = Slabs \ FreeSlabs
    BY <1>3, <2>1, MergeTakesIn
  <2>3. \A b \in Slabs \ {a, it} : size'[b] = size[b]
    BY <1>3 DEF Merge
  <2>4. \A b \in Slabs \ FreeSlabs : size'[b] = size[b]
    BY <2>1, <2>3
  <2>5. pc' = pc /\ nBytes' = nBytes /\ answer' = answer
    BY <1>3 DEF Merge, call
  <2> QED BY <2>2, <2>4, <2>5, SameHeap
<1> QED BY <1>1, <1>2, <1>3

\* The circular list, its moving iterator, splits and merges implement plain
\* stretches of memory: no grant touches another one, and a request is refused
\* only when no free stretch is long enough, although the search starts anywhere
\* and may swallow the slab it started from.
THEOREM AllocatorImplementsHeap == Spec => GrantsAreStretches
<1>1. Init => HeapSpec!Init
  <2> SUFFICES ASSUME Init PROVE HeapSpec!Init
    OBVIOUS
  <2>1. Slabs = {0, 1} /\ next = [b \in {0, 1} |-> 1 - b] /\ pc = "idle" /\ answer = Null
    BY DEF Init, Slabs
  <2>2. next[0] # Allocated /\ next[1] # Allocated
    BY <2>1, HeapAssumption
  <2>3. Slabs \ FreeSlabs = {}
    BY <2>1, <2>2 DEF FreeSlabs
  <2>4. Granted = [b \in {} |-> 0]
    BY <2>3 DEF Granted
  <2> QED BY <2>1, <2>4 DEF HeapSpec!Init, Wanted
<1>2. SInv /\ [Next]_vars => [HeapSpec!Next]_<<Granted, Wanted, answer>>
  <2> SUFFICES ASSUME SInv, [Next]_vars PROVE [HeapSpec!Next]_<<Granted, Wanted, answer>>
    OBVIOUS
  <2>1. IInv
    BY DEF SInv
  <2>2. CASE \E n \in Requests : AllocateBytes(n) \/ MemAlloc(n)
    BY <2>1, <2>2, AskRefines
  <2>3. CASE Search
    BY <2>1, <2>3, RefuseRefines, GrantRefines, SearchStutters DEF Search
  <2>4. CASE \E b \in Slabs \ {0} : Deallocate(b)
    BY <2>1, <2>4, ReleaseRefines
  <2>5. CASE UNCHANGED vars
    BY <2>5 DEF vars, list, call, Granted, Wanted, need, Slabs, FreeSlabs
  <2> QED BY <2>2, <2>3, <2>4, <2>5 DEF Next
<1> QED BY <1>1, <1>2, SearchIsComplete, PTL DEF Spec, GrantsAreStretches, HeapSpec!Spec


-----------------------------------------------------------------------------
\* mem_get_largest_free_block().

\* A nonempty set of bounded numbers has a largest one.
LEMMA LargestExists ==
    ASSUME NEW n \in Nat, NEW S \in SUBSET (0..n), S # {}
    PROVE  \E m \in S : \A k \in S : k <= m
<1> DEFINE Has(P) == \E m \in P : \A k \in P : k <= m
<1> DEFINE T == {i \in Nat : \A P \in SUBSET (0..i) : P # {} => Has(P)}
<1>1. 0 \in T
  <2>1. ASSUME NEW P \in SUBSET (0..0), P # {} PROVE Has(P)
    <3>1. 0..0 = {0}
      OBVIOUS
    <3>2. 0 \in P /\ \A k \in P : k = 0
      BY <2>1, <3>1
    <3> QED BY <3>2
  <2> HIDE DEF Has
  <2> QED BY <2>1
<1>2. ASSUME NEW i \in T PROVE i + 1 \in T
  <2>1. ASSUME NEW P \in SUBSET (0..(i + 1)), P # {} PROVE Has(P)
    <3>1. CASE i + 1 \in P
      <4>1. \A k \in P : k <= i + 1
        OBVIOUS
      <4> QED BY <3>1, <4>1
    <3>2. CASE i + 1 \notin P
      <4>1. P \in SUBSET (0..i)
        BY <3>2
      <4> HIDE DEF Has
      <4> QED BY <2>1, <4>1
    <3> QED BY <3>1, <3>2
  <2> HIDE DEF Has
  <2> QED BY <2>1
<1>3. T \in SUBSET Nat
  OBVIOUS
<1> HIDE DEF T
<1>4. T = Nat
  BY <1>1, <1>2, <1>3, SetInduction
<1>5. Has(S)
  <2> HIDE DEF Has
  <2> QED BY <1>4 DEF T
<1> QED BY <1>5

\* The sum that goes up from a slab over the slabs of M exists, for no slab is
\* above the end of the heap.
LEMMA TotalsExist ==
    ASSUME NEW sz, Tiles(sz), NEW M \in SUBSET DOMAIN sz,
           \A b \in M : b # 0 /\ b + sz[b] < Blocks
    PROVE  \E f : f = [b \in DOMAIN sz |-> sz[b] + (IF b \in M THEN f[b + sz[b]] ELSE 0)]
<1> DEFINE D == DOMAIN sz
<1> DEFINE Sum(f, b) == sz[b] + (IF b \in M THEN f[b + sz[b]] ELSE 0)
<1> DEFINE Good(f, m) == \A b \in D : b >= Blocks - m => f[b] = Sum(f, b)
<1> DEFINE T == {m \in Nat : \E f \in [D -> Int] : Good(f, m)}
<1>1. Blocks \in Nat
  BY HeapAssumption
<1>2. \A b \in D : b \in Nat /\ b < Blocks /\ sz[b] \in Nat
  BY <1>1, SlabInHeap
<1>3. \A b \in M : b \in D /\ b + sz[b] \in D /\ b + sz[b] > b
  BY SlabInHeap
<1> HIDE DEF D
<1>4. 0 \in T
  <2> DEFINE f == [b \in D |-> 0]
  <2>1. f \in [D -> Int] /\ Good(f, 0)
    BY <1>1, <1>2
  <2> HIDE DEF f, Good
  <2> QED BY <2>1
<1>5. ASSUME NEW m \in T PROVE m + 1 \in T
  <2>1. PICK f \in [D -> Int] : Good(f, m)
    OBVIOUS
  <2> DEFINE g == [b \in D |-> IF b = Blocks - (m + 1) THEN Sum(f, b) ELSE f[b]]
  <2>2. m \in Nat
    OBVIOUS
  <2>3. ASSUME NEW b \in D PROVE Sum(f, b) \in Int
    BY <1>2, <1>3
  <2>4. g \in [D -> Int]
    <3> HIDE DEF Sum
    <3> QED BY <2>3
  <2>5. ASSUME NEW b \in D, b >= Blocks - (m + 1) PROVE g[b] = Sum(g, b)
    <3>1. b \in M => g[b + sz[b]] = f[b + sz[b]]
      <4>1. b \in M => b + sz[b] \in D /\ b + sz[b] # Blocks - (m + 1)
        BY <1>1, <1>2, <1>3, <2>2, <2>5
      <4> HIDE DEF Sum
      <4> QED BY <4>1
    <3>2. Sum(g, b) = Sum(f, b)
      BY <3>1
    <3>3. g[b] = Sum(f, b)
      <4>1. b # Blocks - (m + 1) => b >= Blocks - m
        BY <1>1, <1>2, <2>2, <2>5
      <4> HIDE DEF Sum
      <4> QED BY <2>1, <4>1
    <3> QED BY <3>2, <3>3
  <2>6. Good(g, m + 1)
    <3> HIDE DEF g, Sum
    <3> QED BY <2>5
  <2> HIDE DEF g, Good
  <2> QED BY <2>2, <2>4, <2>6
<1>6. T \in SUBSET Nat
  OBVIOUS
<1>7. T = Nat
  <2> HIDE DEF T
  <2> QED BY <1>4, <1>5, <1>6, SetInduction
<1>8. PICK f \in [D -> Int] : Good(f, Blocks)
  <2> HIDE DEF Good
  <2> QED BY <1>1, <1>7
<1>9. \A b \in D : f[b] = Sum(f, b)
  <2> HIDE DEF Sum
  <2> QED BY <1>1, <1>2, <1>8
<1>10. f = [b \in D |-> Sum(f, b)]
  <2> HIDE DEF Sum
  <2> QED BY <1>9
<1> QED BY <1>10 DEF D

\* It is at least the size of the slab, and stays in the heap.
LEMMA TotalsAre ==
    ASSUME NEW sz, Tiles(sz), NEW M \in SUBSET DOMAIN sz,
           \A b \in M : b # 0 /\ b + sz[b] < Blocks,
           NEW f, f = [b \in DOMAIN sz |-> sz[b] + (IF b \in M THEN f[b + sz[b]] ELSE 0)]
    PROVE  \A b \in DOMAIN sz : f[b] \in 0..Blocks /\ sz[b] <= f[b] /\ (b \notin M => f[b] = sz[b])
<1> DEFINE D == DOMAIN sz
<1> DEFINE Good(b) == f[b] \in Nat /\ b + f[b] <= Blocks /\ sz[b] <= f[b]
<1> DEFINE T == {m \in Nat : \A b \in D : b >= Blocks - m => Good(b)}
<1>1. Blocks \in Nat
  BY HeapAssumption
<1>2. \A b \in D : b \in Nat /\ b < Blocks /\ sz[b] \in Nat /\ b + sz[b] <= Blocks
  <2>1. \A b \in D : /\ b \in 0..(Blocks - 1) /\ sz[b] \in 0..(Blocks - 1)
                     /\ (b # 0 => b + sz[b] \in 1..Blocks) /\ (sz[b] = 0 <=> b = 0)
    BY SlabInHeap
  <2> QED BY <1>1, <2>1
<1>3. \A b \in M : b \in D /\ b + sz[b] \in D /\ b + sz[b] > b
  BY SlabInHeap
<1>4. \A b \in D : f[b] = sz[b] + (IF b \in M THEN f[b + sz[b]] ELSE 0)
  OBVIOUS
<1> HIDE DEF D
<1>5. 0 \in T
  BY <1>1, <1>2
<1>6. ASSUME NEW m \in T PROVE m + 1 \in T
  <2>1. ASSUME NEW b \in D, b >= Blocks - (m + 1) PROVE Good(b)
    <3>1. m \in Nat /\ \A x \in D : x >= Blocks - m => Good(x)
      OBVIOUS
    <3> HIDE DEF T
    <3>2. CASE b \in M
      <4> DEFINE x == b + sz[b]
      <4>1. x \in D /\ x > b /\ x \in Int /\ b \in Int /\ f[b] = sz[b] + f[x]
        BY <1>2, <1>3, <1>4, <3>2
      <4>2. x >= Blocks - m
        <5> HIDE DEF x
        <5> QED BY <1>1, <2>1, <3>1, <4>1
      <4>3. f[x] \in Nat /\ x + f[x] <= Blocks
        BY <3>1, <4>1, <4>2
      <4> QED BY <1>1, <1>2, <4>1, <4>3
    <3>3. CASE b \notin M
      BY <1>2, <1>4, <3>3
    <3> QED BY <3>2, <3>3
  <2> HIDE DEF Good
  <2> QED BY <2>1
<1>7. T \in SUBSET Nat
  OBVIOUS
<1>8. T = Nat
  <2> HIDE DEF T
  <2> QED BY <1>5, <1>6, <1>7, SetInduction
<1>9. \A b \in D : Good(b)
  <2> HIDE DEF Good
  <2> QED BY <1>1, <1>2, <1>8
<1> QED BY <1>1, <1>2, <1>4, <1>9 DEF D


\* It sums up blocks that are free: no more than there are.
LEMMA TotalsAreFree ==
    ASSUME NEW sz, Tiles(sz), NEW M \in SUBSET DOMAIN sz, NEW F \in SUBSET DOMAIN sz,
           \A b \in M : b # 0 /\ b + sz[b] < Blocks /\ b + sz[b] \in F,
           NEW f, f = [b \in DOMAIN sz |-> sz[b] + (IF b \in M THEN f[b + sz[b]] ELSE 0)]
    PROVE  \A b \in F : f[b] <= Cardinality(BlocksOf(sz, F))
<1> DEFINE D == DOMAIN sz
<1> DEFINE B == BlocksOf(sz, F)
<1> DEFINE Good(b) == \A k \in Int : b <= k /\ k < b + f[b] => k \in B
<1> DEFINE T == {m \in Nat : \A b \in F : b >= Blocks - m => Good(b)}
<1>1. Blocks \in Nat
  BY HeapAssumption
<1>2. \A b \in D : b \in Nat /\ b < Blocks /\ f[b] \in Nat /\ sz[b] \in Nat
  BY <1>1, SlabInHeap, TotalsAre
<1>3. \A b \in M : b \in D /\ b + sz[b] \in F /\ b + sz[b] > b
  BY SlabInHeap
<1>4. \A b \in D : f[b] = sz[b] + (IF b \in M THEN f[b + sz[b]] ELSE 0)
  OBVIOUS
<1>5. ASSUME NEW b \in F, NEW k \in Int, b <= k, k < b + sz[b] PROVE k \in B
  <2>1. b \in 0..(Blocks - 1) /\ sz[b] \in 0..(Blocks - 1) /\ b # 0 /\ b + sz[b] \in 1..Blocks
    BY <1>5, SlabInHeap
  <2>2. k \in 1..(Blocks - 1)
    BY <1>1, <1>5, <2>1
  <2> QED BY <1>5, <2>2 DEF BlocksOf
<1>6. F \subseteq D
  OBVIOUS
<1> HIDE DEF D, B
<1>7. 0 \in T
  BY <1>1, <1>2, <1>6
<1>8. ASSUME NEW m \in T PROVE m + 1 \in T
  <2>1. ASSUME NEW b \in F, b >= Blocks - (m + 1) PROVE Good(b)
    <3>1. m \in Nat /\ \A x \in F : x >= Blocks - m => Good(x)
      OBVIOUS
    <3> HIDE DEF T
    <3>2. b \in D /\ b \in Nat /\ sz[b] \in Nat
      BY <1>2, <1>6
    <3>3. CASE b \in M
      <4> DEFINE x == b + sz[b]
      <4>1. x \in F /\ x > b /\ x \in Int /\ b \in Int /\ f[b] = sz[b] + f[x] /\ f[x] \in Nat
        BY <1>2, <1>3, <1>4, <1>6, <3>2, <3>3
      <4>2. x >= Blocks - m
        <5> HIDE DEF x
        <5> QED BY <1>1, <2>1, <3>1, <4>1
      <4>3. \A k \in Int : x <= k /\ k < x + f[x] => k \in B
        BY <3>1, <4>1, <4>2
      <4>4. \A k \in Int : b <= k /\ k < x => k \in B
        BY <1>5
      <4>5. b + f[b] = x + f[x]
        BY <3>2, <4>1
      <4> HIDE DEF x
      <4> QED BY <3>2, <4>1, <4>3, <4>4, <4>5
    <3>4. CASE b \notin M
      <4>1. f[b] = sz[b]
        BY <1>4, <3>2, <3>4
      <4> QED BY <1>5, <4>1
    <3> QED BY <3>3, <3>4
  <2> HIDE DEF Good
  <2> QED BY <2>1
<1>9. T \in SUBSET Nat
  OBVIOUS
<1>10. T = Nat
  <2> HIDE DEF T
  <2> QED BY <1>7, <1>8, <1>9, SetInduction
<1>11. ASSUME NEW b \in F PROVE f[b] <= Cardinality(BlocksOf(sz, F))
  <2>1. b \in Nat /\ b < Blocks /\ f[b] \in Nat
    BY <1>2, <1>6
  <2>2. Good(b)
    <3> HIDE DEF Good
    <3> QED BY <1>1, <1>10, <2>1
  <2> DEFINE I == b..(b + f[b] - 1)
  <2>3. I \in SUBSET B
    BY <2>1, <2>2
  <2>4. Cardinality(I) = f[b]
    <3>1. b \in Int /\ b + f[b] - 1 \in Int
          /\ (IF b > b + f[b] - 1 THEN 0 ELSE (b + f[b] - 1) - b + 1) = f[b]
      BY <2>1
    <3> QED BY <3>1, FS_Interval
  <2>5. IsFiniteSet(B)
    BY BlocksCount DEF B
  <2> HIDE DEF I
  <2>6. Cardinality(I) <= Cardinality(B)
    BY <2>3, <2>5, FS_Subset
  <2> QED BY <2>4, <2>6 DEF B
<1> QED BY <1>11

\* What it reports: the largest sum, which is the size of a slab unless one of the
\* free slabs can merge, and of which there are as many blocks free.
LEMMA LargestIs ==
    ASSUME IInv
    PROVE  \E m \in Nat :
              /\ LargestAvailableBlock =
                    IF m = 0 THEN 0 ELSE (m - 1) * BlockSize + (BlockSize - MMDSize)
              /\ \A b \in FreeSlabs : size[b] <= m
              /\ \E b \in FreeSlabs : CanMerge(b) \/ size[b] = m
              /\ m <= Cardinality(BlocksOf(size, FreeSlabs))
<1> DEFINE total == CHOOSE f : f = [b \in Slabs |->
                       size[b] + (IF CanMerge(b) THEN f[Above(b)] ELSE 0)]
<1> DEFINE S == {total[b] : b \in FreeSlabs}
<1> DEFINE max == CHOOSE n \in S : \A b \in FreeSlabs : total[b] <= n
<1> DEFINE M == {b \in Slabs : CanMerge(b)}
<1>1. LargestAvailableBlock = IF max = 0 THEN 0 ELSE (max - 1) * BlockSize + (BlockSize - MMDSize)
  BY DEF LargestAvailableBlock
<1>2. Tiles(size) /\ DOMAIN size = Slabs /\ FreeSlabs \in SUBSET Slabs /\ 0 \in FreeSlabs
      /\ Blocks \in Nat
  BY ListIs, HeapAssumption DEF IInv, ListInv, Slabs
<1>3. M \in SUBSET Slabs /\ (\A b \in M : b # 0 /\ b + size[b] < Blocks)
      /\ (\A b \in Slabs : Above(b) = b + size[b] /\ (CanMerge(b) <=> b \in M))
  BY <1>2 DEF CanMerge, Above, Tiles
<1>4. total = [b \in Slabs |-> size[b] + (IF b \in M THEN total[b + size[b]] ELSE 0)]
  <2>1. \E f : f = [b \in Slabs |-> size[b] + (IF b \in M THEN f[b + size[b]] ELSE 0)]
    <3> HIDE DEF M
    <3> QED BY <1>2, <1>3, TotalsExist
  <2>2. PICK f : f = [b \in Slabs |-> size[b] + (IF b \in M THEN f[b + size[b]] ELSE 0)]
    BY <2>1
  <2>3. \A g : [b \in Slabs |-> size[b] + (IF CanMerge(b) THEN g[Above(b)] ELSE 0)]
             = [b \in Slabs |-> size[b] + (IF b \in M THEN g[b + size[b]] ELSE 0)]
    <3> HIDE DEF M
    <3> QED BY <1>3
  <2>4. f = [b \in Slabs |-> size[b] + (IF CanMerge(b) THEN f[Above(b)] ELSE 0)]
    BY <2>2, <2>3
  <2>5. total = [b \in Slabs |-> size[b] + (IF CanMerge(b) THEN total[Above(b)] ELSE 0)]
    BY <2>4
  <2> HIDE DEF total, M
  <2> QED BY <2>3, <2>5
<1> HIDE DEF total, M
<1>5. \A b \in Slabs : total[b] \in 0..Blocks /\ size[b] <= total[b]
                       /\ (b \notin M => total[b] = size[b])
  BY <1>2, <1>3, <1>4, TotalsAre
<1>6. S \in SUBSET (0..Blocks) /\ S # {}
  BY <1>2, <1>5
<1>7. max \in S /\ \A b \in FreeSlabs : total[b] <= max
  <2>1. \E m \in S : \A k \in S : k <= m
    <3> HIDE DEF S
    <3> QED BY <1>2, <1>6, LargestExists
  <2>2. \E m \in S : \A b \in FreeSlabs : total[b] <= m
    BY <2>1
  <2> HIDE DEF S
  <2> QED BY <2>2
<1> HIDE DEF max
<1>8. max \in Nat
  <2> HIDE DEF S
  <2> QED BY <1>6, <1>7
<1>9. \A b \in FreeSlabs : size[b] <= max
  <2>1. ASSUME NEW b \in FreeSlabs PROVE size[b] <= max
    <3>1. b \in Slabs /\ size[b] \in 0..(Blocks - 1)
      BY <1>2, SlabInHeap
    <3>2. total[b] \in Nat /\ size[b] <= total[b] /\ total[b] <= max /\ size[b] \in Nat
      BY <1>5, <1>7, <3>1
    <3> QED BY <1>8, <3>2
  <2> QED BY <2>1
<1>10. \E b \in FreeSlabs : CanMerge(b) \/ size[b] = max
  <2>1. PICK b \in FreeSlabs : total[b] = max
    BY <1>7
  <2> QED BY <1>2, <1>3, <1>5, <2>1
<1>11. max <= Cardinality(BlocksOf(size, FreeSlabs))
  <2>1. PICK b \in FreeSlabs : total[b] = max
    BY <1>7
  <2>2. \A x \in M : x # 0 /\ x + size[x] < Blocks /\ x + size[x] \in FreeSlabs
    <3>1. ASSUME NEW x \in M PROVE x + size[x] \in FreeSlabs
      <4>1. CanMerge(x) /\ x \in Slabs /\ x # 0 /\ x + size[x] < Blocks /\ Above(x) = x + size[x]
        BY <1>3
      <4>2. x + size[x] \in Slabs
        BY <1>2, <4>1, SlabInHeap
      <4> QED BY <4>1, <4>2 DEF CanMerge, FreeSlabs
    <3> QED BY <1>3, <3>1
  <2>3. M \in SUBSET DOMAIN size /\ FreeSlabs \in SUBSET DOMAIN size
    BY <1>2, <1>3
  <2>4. total = [x \in DOMAIN size |-> size[x] + (IF x \in M THEN total[x + size[x]] ELSE 0)]
    BY <1>2, <1>4
  <2>5. \A x \in FreeSlabs : total[x] <= Cardinality(BlocksOf(size, FreeSlabs))
    BY <1>2, <2>2, <2>3, <2>4, TotalsAreFree
  <2> QED BY <2>1, <2>5
<1> QED BY <1>1, <1>8, <1>9, <1>10, <1>11

\* The counter of free blocks, whose subtractions and additions are modulo
\* uint32, is their number, as long as one call runs at a time; the bytes that
\* mem_get_free_space() reports are then no less than those of the largest block.
THEOREM CounterIsRight == Spec => []FreeSpaceIsReported
<1>1. IInv => FreeSpaceIsReported
  <2> SUFFICES ASSUME IInv PROVE FreeSpaceIsReported
    OBVIOUS
  <2> DEFINE t == Cardinality(BlocksOf(size, FreeSlabs))
  <2>1. Tiles(size) /\ Slabs = DOMAIN size /\ totalAvailableBlocks = t
        /\ totalAvailableBlocks \in 0..(Blocks - 1)
    BY ListIs DEF IInv, ListInv, Slabs
  <2>2. \A b \in FreeSlabs : b \in Slabs
    BY DEF FreeSlabs
  <2>3. \A b \in Slabs : /\ b \in 0..(Blocks - 1) /\ size[b] \in 0..(Blocks - 1)
                         /\ size[b] = 0 <=> b = 0
                         /\ b # 0 => b + size[b] <= Blocks
    BY <2>1, SlabInHeap
  <2>4. \A b \in Slabs : \A k : k \in Stretch(b) <=> k \in 1..(Blocks - 1) /\ b <= k /\ k < b + size[b]
    BY <2>3, HeapAssumption DEF Stretch
  <2>5. FreeBlocks = BlocksOf(size, FreeSlabs)
    BY <2>2, <2>4 DEF BlocksOf, FreeBlocks
  <2>6. LargestAvailableBlock <= TotalAvailableBytes
    <3> DEFINE r == LargestAvailableBlock
    <3>1. PICK m \in Nat : /\ r = IF m = 0 THEN 0 ELSE (m - 1) * BlockSize + (BlockSize - MMDSize)
                           /\ m <= t
      BY LargestIs
    <3>2. t \in Nat /\ t <= Word /\ Blocks \in Nat
      BY <2>1, HeapAssumption
    <3> HIDE DEF t, r
    <3>3. TotalAvailableBytes = (t * BlockSize - MMDSize) % Size
      BY <2>1 DEF TotalAvailableBytes
    <3>4. /\ BlockSize \in Nat \ {0} /\ MMDSize \in Nat \ {0} /\ MMDSize < BlockSize
          /\ Word \in Nat /\ Size \in Nat \ {0} /\ Size >= BlockSize * Word
      <4>1. BlockSize \in Nat \ {0} /\ Word \in Nat \ {0}
        BY HeapAssumption
      <4>2. BlockSize * Word > 0
        BY <4>1
      <4> QED BY <4>1, <4>2, HeapAssumption
    <3> DEFINE bm == BlockSize * m
    <3> DEFINE bt == BlockSize * t
    <3> DEFINE bw == BlockSize * Word
    <3>5. bm \in Nat /\ bt \in Nat /\ bw \in Nat /\ bm <= bt /\ bt <= bw
      BY <3>1, <3>2, <3>4, NumbersMultiply
    <3>6. t * BlockSize = bt
      BY <3>2, <3>4
    <3>7. CASE m = 0
      <4>1. bt - MMDSize \in Int
        <5> HIDE DEF bt
        <5> QED BY <3>4, <3>5
      <4> HIDE DEF bt
      <4>2. (bt - MMDSize) % Size >= 0
        BY <3>4, <4>1
      <4> QED BY <3>1, <3>3, <3>6, <3>7, <4>2 DEF r
    <3>8. CASE m # 0
      <4>1. (m - 1) * BlockSize = bm - BlockSize /\ bm >= BlockSize
        BY <3>1, <3>4, <3>8
      <4> HIDE DEF bm, bt, bw
      <4>2. r = bm - MMDSize
        BY <3>1, <3>4, <3>5, <3>8, <4>1
      <4>3. bt - MMDSize \in 0..(Size - 1)
        BY <3>4, <3>5, <4>1 DEF bw
      <4>4. TotalAvailableBytes = bt - MMDSize
        BY <3>3, <3>4, <3>6, <4>3, SmallRemainder
      <4> QED BY <3>4, <3>5, <4>2, <4>4 DEF r
    <3> QED BY <3>7, <3>8
  <2> QED BY <2>1, <2>5, <2>6 DEF FreeSpaceIsReported
<1> QED BY <1>1, HeapIsSound, PTL

\* So many bytes hold a request just when they are that many blocks.
LEMMA ReportIs ==
    ASSUME NEW n \in Requests, NEW m \in Nat, NEW r,
           r = IF m = 0 THEN 0 ELSE (m - 1) * BlockSize + (BlockSize - MMDSize)
    PROVE  (r > 0 /\ n <= r) <=> NeededBlocks(n) <= m
<1> DEFINE k == NeededBlocks(n)
<1>1. n \in Nat /\ k \in 1..(Word - 1) /\ n + MMDSize <= BlockSize * k
      /\ BlockSize * (k - 1) < n + MMDSize
  BY NeededBlocksIs, RequestsAssumption
<1>2. BlockSize \in Nat /\ MMDSize \in Nat /\ MMDSize < BlockSize /\ Word \in Nat /\ k \in Nat \ {0}
  BY <1>1, HeapAssumption
<1> HIDE DEF k
<1>3. CASE m = 0
  BY <1>2, <1>3 DEF k
<1>4. CASE m # 0
  <2> DEFINE bm == BlockSize * m
  <2>1. r = bm - MMDSize /\ bm \in Nat /\ r > 0
    <3>1. (m - 1) * BlockSize = bm - BlockSize /\ bm \in Nat
      BY <1>2, <1>4
    <3>2. bm >= BlockSize
      BY <1>2, <1>4
    <3> HIDE DEF bm
    <3> QED BY <1>2, <1>4, <3>1, <3>2
  <2>2. n <= r <=> n + MMDSize <= bm
    <3> HIDE DEF bm
    <3> QED BY <1>1, <1>2, <2>1
  <2>3. k <= m => BlockSize * k <= bm
    BY <1>2, NumbersMultiply
  <2>4. ~(k <= m) => bm <= BlockSize * (k - 1)
    <3>1. k - 1 \in Nat /\ (~(k <= m) => m <= k - 1)
      BY <1>2
    <3> QED BY <1>2, <3>1, NumbersMultiply
  <2>5. BlockSize * k \in Nat /\ BlockSize * (k - 1) \in Nat
    <3>1. k - 1 \in Nat
      BY <1>2
    <3> QED BY <1>2, <3>1, NumbersMultiply
  <2> DEFINE bk == BlockSize * k
  <2> DEFINE bj == BlockSize * (k - 1)
  <2>6. /\ n + MMDSize <= bk /\ bj < n + MMDSize /\ bk \in Nat /\ bj \in Nat
        /\ (k <= m => bk <= bm) /\ (~(k <= m) => bm <= bj)
    BY <1>1, <2>3, <2>4, <2>5
  <2> HIDE DEF bk, bj, bm
  <2>7. n <= r <=> k <= m
    BY <1>1, <1>2, <2>1, <2>2, <2>6
  <2> QED BY <2>1, <2>7 DEF k
<1> QED BY <1>3, <1>4

\* mem_alloc() refuses just what mem_get_largest_free_block() says it would, at
\* the end of the search as the merges have left the list, and a grant holds the
\* bytes that were asked for beside its MMD.
THEOREM GrantsAgreeWithReport == Spec => GrantsAsReported
<1> DEFINE A == pc = "test" /\ pc' = "idle" =>
              /\ (answer' # Null) = (LargestAvailableBlock > 0 /\ asked <= LargestAvailableBlock)
              /\ answer' # Null => size'[answer'] * BlockSize - MMDSize >= asked
<1>1. SInv /\ [Next]_vars => A
  <2> SUFFICES ASSUME SInv, [Next]_vars, pc = "test", pc' = "idle" PROVE A
    OBVIOUS
  <2>1. IInv
    BY DEF SInv
  <2>2. asked \in Requests /\ need = NeededBlocks(asked)
    BY <2>1, NeedIs DEF IInv
  <2>3. GiveUp \/ Take
    <3>1. ~(\E n \in Requests : AllocateBytes(n) \/ MemAlloc(n))
      BY DEF AllocateBytes, MemAlloc, Begin
    <3>2. ~(\E b \in Slabs \ {0} : Deallocate(b))
      BY DEF Deallocate
    <3>3. ~UNCHANGED vars
      BY DEF vars, call
    <3>4. ~(Reject \/ Merge \/ Advance)
      BY DEF Reject, Merge, Advance
    <3> QED BY <3>1, <3>2, <3>3, <3>4 DEF Next, Search
  <2>4. PICK m \in Nat :
           /\ LargestAvailableBlock =
                 IF m = 0 THEN 0 ELSE (m - 1) * BlockSize + (BlockSize - MMDSize)
           /\ \A b \in FreeSlabs : size[b] <= m
           /\ \E b \in FreeSlabs : CanMerge(b) \/ size[b] = m
    BY <2>1, LargestIs
  <2>5. (LargestAvailableBlock > 0 /\ asked <= LargestAvailableBlock) <=> need <= m
    <3> DEFINE r == LargestAvailableBlock
    <3>1. r = IF m = 0 THEN 0 ELSE (m - 1) * BlockSize + (BlockSize - MMDSize)
      BY <2>4
    <3> HIDE DEF r
    <3>2. (r > 0 /\ asked <= r) <=> NeededBlocks(asked) <= m
      BY <2>2, <3>1, ReportIs
    <3> QED BY <2>2, <3>2 DEF r
  <2>6. CASE GiveUp
    <3>1. answer' = Null
      BY <2>6 DEF GiveUp, Return
    <3>2. PICK b \in FreeSlabs : CanMerge(b) \/ size[b] = m
      BY <2>4
    <3>3. ~(need <= m)
      BY <2>6, <3>2, RefusedIs DEF SlabGood
    <3> QED BY <2>5, <3>1, <3>3
  <2>7. CASE Take
    <3>1. /\ cmmd \in FreeSlabs /\ cmmd \in 1..(Blocks - 1) /\ cmmd \in Slabs
          /\ size[cmmd] \in 1..(Blocks - 1) /\ need \in 1..size[cmmd] /\ need \in Nat
      BY <2>1, <2>7, TakenIs
    <3>2. need <= m
      <4>1. size[cmmd] \in Nat /\ need <= size[cmmd] /\ size[cmmd] <= m
        BY <2>4, <3>1
      <4> QED BY <3>1, <4>1
    <3>3. answer' = cmmd /\ size'[cmmd] = need /\ answer' # Null
      BY <2>7, <3>1, HeapAssumption DEF Take, Return, GrantedSize, SlabGood
    <3>4. need * BlockSize - MMDSize >= asked
      <4>1. asked \in Nat /\ asked + MMDSize <= BlockSize * need
        BY <2>2, NeededBlocksIs, RequestsAssumption
      <4> DEFINE bn == BlockSize * need
      <4>2. need * BlockSize = bn /\ bn \in Int /\ MMDSize \in Nat
        BY <3>1, HeapAssumption
      <4> HIDE DEF bn
      <4> QED BY <4>1, <4>2 DEF bn
    <3> QED BY <2>5, <3>2, <3>3, <3>4
  <2> QED BY <2>3, <2>6, <2>7
<1> QED BY <1>1, SearchIsComplete, PTL DEF Spec, GrantsAsReported

=============================================================================
