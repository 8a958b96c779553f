--------------------------- MODULE SwitchingProofs ---------------------------
(***************************************************************************)
(* Proofs about Switching, for any number of application threads and of    *)
(* interrupts of kernel code: traps return as they came, clean starts stay *)
(* in user mode, no thread is forgotten, and what breaks does so in the    *)
(* known windows.                                                          *)
(***************************************************************************)
EXTENDS SwitchingStacks

-----------------------------------------------------------------------------
\* How often a thread is in a queue.

Spots(q, t) == {i \in DOMAIN q : q[i] = t}

LEMMA SpotsAreFinite ==
    ASSUME NEW S, NEW q \in Seq(S), NEW t
    PROVE  /\ IsFiniteSet(Spots(q, t)) /\ Count(q, t) = Cardinality(Spots(q, t))
           /\ Spots(q, t) = {i \in 1..Len(q) : q[i] = t}
<1>1. Len(q) \in Nat /\ DOMAIN q = 1..Len(q)
  OBVIOUS
<1>2. IsFiniteSet(1..Len(q))
  BY <1>1, FS_Interval
<1>3. Spots(q, t) \in SUBSET (1..Len(q))
  BY <1>1 DEF Spots
<1>4. IsFiniteSet(Spots(q, t))
  BY <1>2, <1>3, FS_Subset
<1> QED BY <1>1, <1>4 DEF Count, Spots

LEMMA CountIs ==
    ASSUME NEW S, NEW q \in Seq(S), NEW t
    PROVE  /\ Count(q, t) \in Nat
           /\ Count(q, t) = 0 <=> t \notin Range(q)
           /\ IsInjective(q) => Count(q, t) = One(t \in Range(q))
<1> DEFINE D == Spots(q, t)
<1>1. IsFiniteSet(D) /\ Count(q, t) = Cardinality(D)
  BY SpotsAreFinite
<1>2. D = {} <=> t \notin Range(q)
  BY DEF Spots, Range
<1>3. Count(q, t) \in Nat /\ (Count(q, t) = 0 <=> D = {})
  <2> HIDE DEF D
  <2> QED BY <1>1, FS_CardinalityType, FS_EmptySet
<1>4. ASSUME IsInjective(q), t \in Range(q) PROVE Count(q, t) = 1
  <2>1. PICK i \in DOMAIN q : q[i] = t
    BY <1>4 DEF Range
  <2>2. D = {i}
    BY <1>4, <2>1 DEF Spots, IsInjective
  <2> HIDE DEF D
  <2> QED BY <1>1, <2>2, FS_Singleton
<1> QED BY <1>2, <1>3, <1>4 DEF One

LEMMA CountAppended ==
    ASSUME NEW S, NEW q \in Seq(S), NEW u \in S, NEW t
    PROVE  Count(Append(q, u), t) = Count(q, t) + One(u = t)
<1> DEFINE n == Len(q)
<1> DEFINE r == Append(q, u)
<1>1. n \in Nat /\ r \in Seq(S) /\ Len(r) = n + 1 /\ r[n+1] = u /\ \A i \in 1..n : r[i] = q[i]
  OBVIOUS
<1> HIDE DEF r
<1> DEFINE D == Spots(q, t)
<1> DEFINE E == Spots(r, t)
<1>2. /\ IsFiniteSet(D) /\ Count(q, t) = Cardinality(D) /\ D = {i \in 1..n : q[i] = t}
      /\ Count(r, t) = Cardinality(E) /\ E = {i \in 1..(n+1) : r[i] = t}
  BY <1>1, SpotsAreFinite
<1> HIDE DEF n, D, E
<1>3. \A i : i \in 1..(n+1) <=> i \in 1..n \/ i = n + 1
  BY <1>1
<1>4. n + 1 \notin 1..n
  BY <1>1
<1>5. CASE u = t
  <2>1. E = D \union {n + 1} /\ n + 1 \notin D
    BY <1>1, <1>2, <1>3, <1>4, <1>5
  <2>2. Cardinality(E) = Cardinality(D) + 1
    BY <1>2, <2>1, FS_AddElement
  <2> QED BY <1>2, <1>5, <2>2 DEF One, r
<1>6. CASE u # t
  <2>1. E = D
    BY <1>1, <1>2, <1>3, <1>4, <1>6
  <2>2. Cardinality(D) \in Nat
    BY <1>2, FS_CardinalityType
  <2>3. One(u = t) = 0
    BY <1>6 DEF One
  <2>4. Count(r, t) = Count(q, t) /\ Count(q, t) \in Nat
    BY <1>2, <2>1, <2>2
  <2>5. Count(r, t) = Count(q, t) + One(u = t)
    BY <2>3, <2>4
  <2> QED BY <2>5 DEF r
<1> QED BY <1>5, <1>6

LEMMA CountTaken ==
    ASSUME NEW S, NEW q \in Seq(S), q # <<>>, NEW t
    PROVE  Count(q, t) = Count(Tail(q), t) + One(Head(q) = t)
<1> DEFINE n == Len(q)
<1> DEFINE r == Tail(q)
<1>1. /\ n \in Nat /\ n >= 1 /\ r \in Seq(S) /\ Len(r) = n - 1 /\ Head(q) = q[1]
      /\ \A i \in 1..(n-1) : r[i] = q[i+1]
  OBVIOUS
<1> HIDE DEF r
<1> DEFINE D == Spots(q, t)
<1> DEFINE E == Spots(r, t)
<1>2. /\ IsFiniteSet(D) /\ Count(q, t) = Cardinality(D) /\ D = {i \in 1..n : q[i] = t}
      /\ IsFiniteSet(E) /\ Count(r, t) = Cardinality(E) /\ E = {i \in 1..(n-1) : r[i] = t}
  BY <1>1, SpotsAreFinite
<1> DEFINE F == D \ {1}
<1> DEFINE m == [i \in E |-> i + 1]
<1> HIDE DEF n, D, E
<1>3. \A i \in 1..(n-1) : i + 1 \in 1..n /\ i + 1 # 1 /\ i \in Int
  BY <1>1
<1>4. \A i \in 1..n : i # 1 => i - 1 \in 1..(n-1) /\ (i - 1) + 1 = i
  BY <1>1
<1>5. \A i \in E : i + 1 \in F
  BY <1>1, <1>2, <1>3
<1>6. \A j \in F : j - 1 \in E /\ (j - 1) + 1 = j
  BY <1>1, <1>2, <1>4
<1>7. E \subseteq Int
  BY <1>2, <1>3
<1> HIDE DEF F
<1>8. m \in [E -> F]
  BY <1>5
<1>9. IsInjective(m)
  <2>1. \A i \in E : \A j \in E : m[i] = m[j] => i = j
    BY <1>7
  <2>2. DOMAIN m = E
    OBVIOUS
  <2> HIDE DEF m
  <2> QED BY <2>1, <2>2 DEF IsInjective
<1>10. \A j \in F : \E i \in E : m[i] = j
  BY <1>6
<1> HIDE DEF m
<1>11. m \in Bijection(E, F)
  BY <1>8, <1>9, <1>10 DEF Bijection, Injection, Surjection
<1>12. Cardinality(F) = Cardinality(E) /\ Cardinality(E) \in Nat
  BY <1>2, <1>11, FS_Bijection, FS_CardinalityType DEF ExistsBijection
<1>13. Cardinality(F) = IF 1 \in D THEN Cardinality(D) - 1 ELSE Cardinality(D)
  BY <1>2, FS_RemoveElement DEF F
<1>14. Cardinality(D) \in Nat
  BY <1>2, FS_CardinalityType
<1>15. 1 \in D <=> Head(q) = t
  BY <1>1, <1>2
<1>16. Count(q, t) = Cardinality(D) /\ Count(Tail(q), t) = Cardinality(E)
  BY <1>2 DEF r
<1> QED BY <1>12, <1>13, <1>14, <1>15, <1>16 DEF One

-----------------------------------------------------------------------------
\* The places of the threads.

LEMMA TermsAre ==
    ASSUME Typed, NEW t
    PROVE  /\ Count(ready, t) \in Nat
           /\ One(Holds(Boot, t)) \in {0, 1} /\ One(Holds(OThread, t)) \in {0, 1}
           /\ One(TopHolds(t)) \in {0, 1} /\ One(Runs(t)) \in {0, 1} /\ One(t \in away) \in {0, 1}
           /\ One(Extra(t)) \in {0, 1} /\ Total(t) \in Nat
<1>1. Count(ready, t) \in Nat
  BY CountIs DEF Typed
<1>2. \A b : One(b) \in {0, 1}
  BY DEF One
<1>3. Total(t) \in Nat
  <2>1. /\ One(Holds(Boot, t)) \in Nat /\ One(Holds(OThread, t)) \in Nat
        /\ One(TopHolds(t)) \in Nat /\ One(Runs(t)) \in Nat /\ One(t \in away) \in Nat
    BY <1>2
  <2> QED BY <1>1, <2>1 DEF Total
<1> QED BY <1>1, <1>2, <1>3

LEMMA TotalsAre ==
    Typed => \A u : Total(u) \in Nat
  BY TermsAre

\* What a step that creates and ends no thread may do with the places of t.
Moves(t) ==
    IF t \in created \ finished
    THEN Total(t)' + One(Extra(t)) = Total(t) + One(Extra(t)')
    ELSE Total(t)' = Total(t)

LEMMA PlacesMove ==
    ASSUME Typed, Typed', PlacesOK, created' = created, finished' = finished,
           \A t \in Threads : ~EndedTwice \/ t = OThread => Moves(t),
           running' = OThread /\ OThread \in finished => cur' = OThread,
           EndedTwice => EndedTwice'
    PROVE  PlacesOK'
<1>1. ASSUME NEW t \in Threads, Placed(t), Moves(t) PROVE Placed(t)'
  <2>1. /\ Total(t) \in Nat /\ Total(t)' \in Nat
        /\ One(Extra(t)) \in {0, 1} /\ One(Extra(t)') \in {0, 1}
    <3>1. Total(t) \in Nat /\ One(Extra(t)) \in {0, 1}
      BY TermsAre
    <3>2. (\A u : Total(u) \in Nat)'
      BY TotalsAre, PTL
    <3> QED BY <3>1, <3>2 DEF One
  <2>2. One(Extra(t))' = One(Extra(t)')
    BY DEF One
  <2> QED BY <1>1, <2>1, <2>2 DEF Placed, Moves
<1>2. OThread \in Threads
  BY DEF Threads
<1>3. OThread \in finished => Total(OThread)' = 0
  BY <1>2 DEF PlacesOK, Moves
<1>4. EndedTwice \/ \A t \in Threads : Placed(t)'
  BY <1>1 DEF PlacesOK
<1> QED BY <1>3, <1>4 DEF PlacesOK

\* An outer dispatch that has put or taken a thread.
Mid(k) == Len(stack[k]) > 1 /\ stack[k][2].at \in {"get", "set"}

\* A step that does not change that.
SecondKept(k) ==
    \/ stack'[k] = stack[k]
    \/ ~Mid(k) /\ ~Mid(k)'
    \/ Len(stack[k]) > 2 /\ Len(stack'[k]) > 2 /\ stack'[k][2] = stack[k][2]

LEMMA HoldsKept ==
    ASSUME NEW k, SecondKept(k), Len(stack[k]) \in Nat, Len(stack'[k]) \in Nat, NEW t
    PROVE  /\ Holds(k, t)' <=> Holds(k, t)
           /\ k = t => (Extra(t)' <=> Extra(t))
<1>1. CASE stack'[k] = stack[k]
  BY <1>1 DEF Holds, Extra
<1>2. CASE ~Mid(k) /\ ~Mid(k)'
  <2>1. ~Holds(k, t) /\ ~Holds(k, t)'
    BY <1>2 DEF Mid, Holds
  <2>2. k = t => ~Extra(t) /\ ~Extra(t)'
    BY <1>2 DEF Mid, Extra
  <2> QED BY <2>1, <2>2
<1>3. CASE Len(stack[k]) > 2 /\ Len(stack'[k]) > 2 /\ stack'[k][2] = stack[k][2]
  <2>1. Len(stack[k]) > 1 /\ Len(stack'[k]) > 1
    BY <1>3
  <2> QED BY <1>3, <2>1 DEF Holds, Extra
<1> QED BY <1>1, <1>2, <1>3 DEF SecondKept

LEMMA ThreadsAre ==
    ASSUME NEW t \in Threads, t \notin Apps PROVE t = Boot \/ t = OThread
  BY DEF Threads

\* Most steps move nobody.
LEMMA QuietPlaces ==
    ASSUME Stacks, Stacks', SecondKept(Boot), SecondKept(OThread),
           Top.at \notin {"get", "set"}, Top'.at \notin {"get", "set"},
           UNCHANGED <<ready, away, running, finished>>, NEW t \in Threads
    PROVE  Total(t)' = Total(t) /\ (Extra(t)' <=> Extra(t))
<1>1. \A k \in Threads : Len(stack[k]) \in Nat /\ Len(stack'[k]) \in Nat
  <2>1. \A k \in Threads : Len(stack[k]) \in Nat
    BY StackIs
  <2>2. (\A k \in Threads : Len(stack[k]) \in Nat)'
    BY StackIs
  <2> QED BY <2>1, <2>2
<1>2. Boot \in Threads /\ OThread \in Threads
  BY DEF Threads
<1>3. (Holds(Boot, t)' <=> Holds(Boot, t)) /\ (Holds(OThread, t)' <=> Holds(OThread, t))
  BY <1>1, <1>2, HoldsKept
<1>4. Extra(t)' <=> Extra(t)
  <2>1. CASE t \in Apps
    BY <2>1 DEF Extra
  <2>2. CASE t \notin Apps
    BY <1>1, <1>2, <2>2, HoldsKept, ThreadsAre
  <2> QED BY <2>1, <2>2
<1>5. ~TopHolds(t) /\ ~TopHolds(t)'
  BY DEF TopHolds
<1>6. Runs(t)' <=> Runs(t)
  BY DEF Runs
<1>7. Total(t)' = Total(t)
  BY <1>3, <1>5, <1>6 DEF Total, One
<1> QED BY <1>4, <1>7

LEMMA EndedStays ==
    ASSUME OnlyCur, finished \subseteq finished', EndedTwice
    PROVE  EndedTwice'
<1>1. stack'[OThread] = stack[OThread] /\ cur' # OThread
  BY DEF OnlyCur, EndedTwice, Threads
<1> QED BY <1>1 DEF EndedTwice

\* What Kept leaves to show.
LEMMA QuietStep ==
    ASSUME IInv, Kept', OnlyCur, SecondKept(cur),
           Top.at \notin {"get", "set"}, Top'.at \notin {"get", "set"},
           UNCHANGED <<ready, away, running, finished, created>>
    PROVE  PlacesOK'
<1>1. \A k \in Threads : SecondKept(k)
  BY DEF OnlyCur, SecondKept
<1>2. SecondKept(Boot) /\ SecondKept(OThread)
  BY <1>1 DEF Threads
<1>3. Stacks /\ Stacks' /\ Typed /\ Typed' /\ PlacesOK
  BY DEF IInv, Kept
<1>4. ASSUME NEW t \in Threads PROVE Moves(t)
  <2>1. Total(t)' = Total(t) /\ (Extra(t)' <=> Extra(t))
    BY <1>2, <1>3, QuietPlaces
  <2> QED BY <2>1 DEF Moves, One
<1>5. running' = OThread /\ OThread \in finished => cur' = OThread
  BY <1>3 DEF PlacesOK, OnlyCur
<1> QED BY <1>3, <1>4, <1>5, EndedStays, PlacesMove

LEMMA SecondStays ==
    ASSUME OnlyCur, Depth \in Nat, Depth' \in Nat,
           Depth > 2 /\ Depth' > 2 => stack'[cur][2] = stack[cur][2],
           Depth = 2 => Top.at \notin {"get", "set"},
           Depth' = 2 => Top'.at \notin {"get", "set"},
           Depth > 2 /\ Depth' <= 2 => stack[cur][2].at \notin {"get", "set"},
           Depth' > 2 /\ Depth <= 2 => stack'[cur][2].at \notin {"get", "set"}
    PROVE  SecondKept(cur)
<1>1. cur' = cur /\ Depth = Len(stack[cur]) /\ Depth' = Len(stack'[cur])
      /\ Top = stack[cur][Depth] /\ Top' = stack'[cur][Depth']
  BY DEF OnlyCur, Depth, Top
<1>2. Mid(cur) => Depth > 1 /\ stack[cur][2].at \in {"get", "set"}
  BY <1>1 DEF Mid
<1>3. Mid(cur)' => Depth' > 1 /\ stack'[cur][2].at \in {"get", "set"}
  BY <1>1 DEF Mid
<1>4. (Depth > 1 => Depth = 2 \/ Depth > 2) /\ (Depth' > 1 => Depth' = 2 \/ Depth' > 2)
  OBVIOUS
<1>5. Mid(cur) => Depth > 2
  BY <1>1, <1>2, <1>4
<1>6. Mid(cur)' => Depth' > 2
  BY <1>1, <1>3, <1>4
<1>7. Mid(cur) => Depth' > 2
  <2>1. Mid(cur) => ~(Depth' <= 2)
    BY <1>2, <1>5
  <2> QED BY <2>1
<1>8. Mid(cur)' => Depth > 2
  <2>1. Mid(cur)' => ~(Depth <= 2)
    BY <1>3, <1>6
  <2> QED BY <2>1
<1> QED BY <1>1, <1>5, <1>6, <1>7, <1>8 DEF SecondKept

\* The tops of stacks, when a step has changed only that of cur.
LEMMA DepthsAre ==
    Typed /\ Stacks => Depth \in Nat \ {0} /\ Top.at \in Places /\ cur \in Threads
<1>1. Typed => cur \in Threads
  BY DEF Typed
<1> QED BY <1>1, TopIs

\* A dispatch goes on, at a place other than those.
LEMMA GoesOnQuietly ==
    ASSUME IInv, Kept', Keeps(Depth - 1), Depth' = Depth,
           Top.at \notin {"get", "set"}, Top'.at \notin {"get", "set"},
           UNCHANGED <<ready, away, running, finished, created>>
    PROVE  PlacesOK'
<1>1. Depth \in Nat
  BY DepthsAre DEF IInv
<1> DEFINE n == Depth
<1>2. n > 2 => stack'[cur][2] = stack[cur][2]
  <2>1. n > 2 => 2 \in 1..(n - 1)
    BY <1>1
  <2>2. \A i \in 1..(n - 1) : stack'[cur][i] = stack[cur][i]
    BY DEF Keeps
  <2> HIDE DEF n
  <2> QED BY <2>1, <2>2
<1>3. OnlyCur
  BY DEF Keeps
<1>4. SecondKept(cur)
  BY <1>1, <1>2, <1>3, SecondStays
<1> QED BY <1>3, <1>4, QuietStep

LEMMA CallPlacesKept ==
    ASSUME IInv, ReadSepc \/ ReadSstatus \/ WriteSstatus \/ HandlerEnds
    PROVE  PlacesOK'
<1>1. Top.at \in {"r_sepc", "r_sstatus", "w_sstatus", "return"}
  BY DEF ReadSepc, ReadSstatus, WriteSstatus, HandlerEnds, At
<1>2. UNCHANGED <<ready, away, running, finished, created>>
  BY DEF ReadSepc, ReadSstatus, WriteSstatus, HandlerEnds, sched, queues
<1>3. Kept' /\ Keeps(Depth - 1) /\ Depth' = Depth
      /\ Top'.at \in {"r_sstatus", "put", "w_sepc", "leave"}
  BY ReadSepcKeeps, ReadSstatusKeeps, WriteSstatusKeeps, HandlerEndsKeeps
<1> QED BY <1>1, <1>2, <1>3, GoesOnQuietly

LEMMA BasePlacesKept ==
    ASSUME IInv, SetReturnAddress \/ DropPrivilege \/ Compute
    PROVE  PlacesOK'
<1>1. Top.at \in BasePlaces
  BY DEF SetReturnAddress, DropPrivilege, Compute, At, BasePlaces
<1>2. UNCHANGED <<ready, away, running, finished, created>>
  BY DEF SetReturnAddress, DropPrivilege, Compute, Sret, sched, queues
<1>3. Kept' /\ Keeps(0) /\ Depth' = 1 /\ Depth = 1 /\ Top'.at \in BasePlaces
  BY SetReturnAddressKeeps, DropPrivilegeKeeps, ComputeKeeps DEF BasePlaces
<1>4. Top.at \notin {"get", "set"} /\ Top'.at \notin {"get", "set"}
  BY <1>1, <1>3 DEF BasePlaces
<1>5. Keeps(Depth - 1)
  BY <1>3
<1> QED BY <1>2, <1>3, <1>4, <1>5, GoesOnQuietly

LEMMA WriteSepcPlaces ==
    ASSUME IInv, WriteSepc PROVE PlacesOK'
<1>1. Top.at = "w_sepc" /\ UNCHANGED <<ready, away, running, finished, created>>
  BY DEF WriteSepc, At, sched, queues
<1>2. Kept' /\ Keeps(Depth - 2) /\ Depth' = Depth - 1 /\ Top' = Below
      /\ (Depth > 2 => Below.at = "return")
  BY WriteSepcKeeps
<1>3. Stacks /\ Typed /\ cur \in Threads /\ IsCall(Top)
  BY <1>1, IsCallAt DEF IInv, Typed, CallPlaces
<1> DEFINE n == Depth
<1>4. n \in Nat /\ n >= 2 /\ (n = 2 => Below.at \in BasePlaces)
  <2>1. Depth \in Nat /\ Depth >= 2
    BY <1>3, CallIs
  <2>2. Depth = 2 => Below = stack[cur][1]
    BY DEF Below
  <2> QED BY <1>3, <2>1, <2>2, StackIs
<1>5. Top'.at \notin {"get", "set"}
  <2>1. n = 2 \/ n > 2
    BY <1>4
  <2> QED BY <1>2, <1>4, <2>1 DEF BasePlaces
<1>6. OnlyCur /\ \A i \in 1..(n - 2) : stack'[cur][i] = stack[cur][i]
  BY <1>2 DEF Keeps
<1>7. SecondKept(cur)
  <2>1. ASSUME n > 2, n - 1 > 2 PROVE stack'[cur][2] = stack[cur][2]
    <3>1. 2 \in 1..(n - 2)
      BY <1>4, <2>1
    <3> HIDE DEF n
    <3> QED BY <1>6, <3>1
  <2>2. ASSUME n > 2, n - 1 <= 2 PROVE stack[cur][2].at \notin {"get", "set"}
    <3>1. n = 3
      BY <1>4, <2>2
    <3>2. Below = stack[cur][2]
      BY <3>1 DEF Below
    <3> QED BY <1>2, <2>2, <3>2
  <2>3. ~(n - 1 > 2 /\ n <= 2)
    BY <1>4
  <2> QED BY <1>1, <1>2, <1>4, <1>5, <1>6, <2>1, <2>2, <2>3, SecondStays
<1> QED BY <1>1, <1>2, <1>5, <1>6, <1>7, QuietStep

LEMMA KernelThreadDispatchesPlaces ==
    ASSUME IInv, KernelThreadDispatches PROVE PlacesOK'
<1>1. Top.at = "loop" /\ UNCHANGED <<ready, away, running, finished, created>>
  BY DEF KernelThreadDispatches, At, sched, queues
<1>2. Kept' /\ OnlyCur /\ Depth' = 2 /\ Depth = 1 /\ Top'.at = "r_sepc"
  BY KernelThreadDispatchesKeeps
<1>3. SecondKept(cur)
  BY <1>1, <1>2, SecondStays
<1> QED BY <1>1, <1>2, <1>3, QuietStep

\* A trap that comes when the dispatch has nobody in its hands.
LEMMA EntersQuietly ==
    ASSUME IInv, Kept', Entering, Top.at \notin {"get", "set"} PROVE SecondKept(cur)
<1>1. Depth \in Nat \ {0}
  BY DepthsAre DEF IInv
<1>2. /\ OnlyCur /\ \A i \in 1..Depth : stack'[cur][i] = stack[cur][i]
      /\ stack'[cur][Depth + 1].at = "return" /\ Depth' \in {Depth + 1, Depth + 2}
      /\ Top'.at \in {"return", "r_sepc"}
  BY DEF Entering
<1> DEFINE n == Depth
<1>3. n > 2 => stack'[cur][2] = stack[cur][2]
  <2>1. n > 2 => 2 \in 1..n
    BY <1>1
  <2> HIDE DEF n
  <2> QED BY <1>2, <2>1 DEF n
<1>4. ASSUME n <= 2 PROVE stack'[cur][2].at \notin {"get", "set"}
  <2>1. n = 1 \/ n = 2
    BY <1>1, <1>4
  <2>2. n = 1 => stack'[cur][2].at = "return"
    BY <1>2
  <2>3. n = 2 => stack'[cur][2] = Top
    BY <1>2 DEF Top
  <2> QED BY <2>1, <2>2, <2>3
<1>5. Depth' \in Nat /\ ~(n > 2 /\ Depth' <= 2)
  BY <1>1, <1>2
<1> QED BY <1>1, <1>2, <1>3, <1>4, <1>5, SecondStays

LEMMA TrapPlacesKept ==
    ASSUME IInv, IllegalSret \/ EcallSwitches("ready") \/ EcallSwitches("away") PROVE PlacesOK'
<1>1. Top.at \in {"sret", "ecall"} /\ UNCHANGED <<ready, away, running, finished, created>>
  BY DEF IllegalSret, EcallSwitches, At, sched, queues
<1>2. Kept' /\ Entering
  BY IllegalSretKeeps, EcallSwitchesKeeps
<1>3. SecondKept(cur)
  BY <1>1, <1>2, EntersQuietly
<1> QED BY <1>1, <1>2, <1>3, QuietStep DEF Entering


-----------------------------------------------------------------------------
\* The places of the threads: a dispatch.

\* Threads in the hands of dispatches, and the part of the executing one in it.
Held(t) == One(Holds(Boot, t)) + One(Holds(OThread, t)) + One(TopHolds(t))
TopHas(t) == Top.at = "set" /\ Top.next = t

LEMMA HeldIs ==
    ASSUME Typed, NEW t
    PROVE  Held(t) \in Nat /\ Total(t) = Count(ready, t) + Held(t) + One(Runs(t)) + One(t \in away)
           /\ Count(ready, t) \in Nat /\ One(Runs(t)) \in {0, 1} /\ One(t \in away) \in {0, 1}
<1>1. /\ Count(ready, t) \in Nat /\ One(Runs(t)) \in {0, 1} /\ One(t \in away) \in {0, 1}
      /\ One(Holds(Boot, t)) \in {0, 1} /\ One(Holds(OThread, t)) \in {0, 1} /\ One(TopHolds(t)) \in {0, 1}
  BY TermsAre
<1> QED BY <1>1 DEF Held, Total

LEMMA HeldsAre ==
    Typed => \A u : /\ Total(u) = Count(ready, u) + Held(u) + One(Runs(u)) + One(u \in away)
                    /\ Count(ready, u) \in Nat /\ Held(u) \in Nat
  BY HeldIs

LEMMA HeldsAreThen ==
    ASSUME Typed', NEW t
    PROVE  /\ Total(t)' = Count(ready', t) + Held(t)' + One(Runs(t)') + One(t \in away')
           /\ Count(ready', t) \in Nat /\ Held(t)' \in Nat
<1>1. (\A u : /\ Total(u) = Count(ready, u) + Held(u) + One(Runs(u)) + One(u \in away)
              /\ Count(ready, u) \in Nat /\ Held(u) \in Nat)'
  BY HeldsAre, PTL
<1> QED BY <1>1 DEF One, Count

\* What a dispatch's step changes of this, and of the threads put there twice.
LEMMA HeldMoves ==
    ASSUME Stacks, Stacks', Typed, IsCall(Top), Keeps(Depth - 1), Depth' = Depth, NEW t \in Threads
    PROVE  /\ Extra(t)' <=> Extra(t)
           /\ TopHas(t) <=> TopHas(t)' => Held(t)' = Held(t)
           /\ ~TopHas(t) /\ TopHas(t)' => Held(t)' = Held(t) + 1
           /\ TopHas(t) /\ ~TopHas(t)' => Held(t)' + 1 = Held(t)
<1> DEFINE n == Depth
<1>1. n \in Nat /\ n >= 2 /\ cur \in Threads /\ (n = 2 => cur \notin Apps) /\ n = Len(stack[cur])
      /\ Top = stack[cur][n]
  BY CallIs DEF Typed, Depth, Top
<1>2. /\ OnlyCur /\ cur' = cur /\ n = Len(stack'[cur])
      /\ \A i \in 1..(n - 1) : stack'[cur][i] = stack[cur][i]
      /\ Top' = stack'[cur][n] /\ \A k \in Threads \ {cur} : stack'[k] = stack[k]
  BY DEF Keeps, OnlyCur, Depth, Top
<1>3. n > 2 => stack'[cur][2] = stack[cur][2]
  <2>1. n > 2 => 2 \in 1..(n - 1)
    BY <1>1
  <2> HIDE DEF n
  <2> QED BY <1>2, <2>1
<1>9. n = 2 \/ n > 2
  <2>1. n \in Nat /\ n >= 2
    BY <1>1
  <2> HIDE DEF n
  <2> QED BY <2>1
<1> HIDE DEF n
<1>4. Boot \in Threads /\ OThread \in Threads /\ Boot # OThread
  BY SwitchingAssumption DEF Threads
<1>5. \A k \in Threads : k # cur => (Holds(k, t)' <=> Holds(k, t))
  BY <1>2 DEF Holds
<1>6. Extra(t)' <=> Extra(t)
  <2>1. CASE t # cur
    BY <1>2, <2>1 DEF Extra
  <2>2. CASE t = cur
    <3>2. n > 2 => (Extra(cur)' <=> Extra(cur))
      BY <1>1, <1>2, <1>3 DEF Extra
    <3>3. n = 2 => ~Extra(cur) /\ ~Extra(cur)'
      BY <1>1, <1>2 DEF Extra
    <3> QED BY <1>2, <1>9, <2>2, <3>2, <3>3
  <2> QED BY <2>1, <2>2
<1>7. CASE n > 2
  <2>1. Holds(cur, t)' <=> Holds(cur, t)
    <3>1. n > 1
      BY <1>1
    <3> QED BY <1>1, <1>2, <1>3, <3>1, <1>7 DEF Holds
  <2>2. (Holds(Boot, t)' <=> Holds(Boot, t)) /\ (Holds(OThread, t)' <=> Holds(OThread, t))
    <3>1. \A k \in Threads : Holds(k, t)' <=> Holds(k, t)
      BY <1>2, <1>5, <2>1
    <3> QED BY <1>4, <3>1
  <2>3. (TopHolds(t) <=> TopHas(t)) /\ (TopHolds(t)' <=> TopHas(t)')
    <3>1. Depth > 2 /\ Depth' > 2
      BY <1>7 DEF n
    <3> QED BY <3>1 DEF TopHolds, TopHas
  <2> DEFINE a == One(Holds(Boot, t))
  <2> DEFINE b == One(Holds(OThread, t))
  <2>4. One(Holds(Boot, t))' = a /\ One(Holds(OThread, t))' = b
        /\ a \in {0, 1} /\ b \in {0, 1}
    BY <2>2 DEF One
  <2>5. Held(t) = a + b + IF TopHas(t) THEN 1 ELSE 0
    BY <2>3 DEF Held, One
  <2>6. Held(t)' = a + b + IF TopHas(t)' THEN 1 ELSE 0
    BY <2>3, <2>4 DEF Held, One
  <2> HIDE DEF a, b
  <2> QED BY <1>6, <2>4, <2>5, <2>6
<1>8. CASE n = 2
  <2>1. cur = Boot \/ cur = OThread
    BY <1>1, <1>8, ThreadsAre
  <2>2. ~TopHolds(t) /\ ~TopHolds(t)'
    BY <1>1, <1>2, <1>8 DEF TopHolds, n
  <2>3. (Holds(cur, t) <=> TopHas(t)) /\ (Holds(cur, t)' <=> TopHas(t)')
    BY <1>1, <1>2, <1>8 DEF Holds, TopHas
  <2>4. PICK o \in {Boot, OThread} : o # cur
    BY <1>4
  <2>5. Holds(o, t)' <=> Holds(o, t)
    BY <1>4, <1>5, <2>4
  <2> DEFINE a == One(Holds(o, t))
  <2>6. One(Holds(o, t)') = a /\ a \in {0, 1}
    BY <2>5 DEF One
  <2>7. Held(t) = a + IF TopHas(t) THEN 1 ELSE 0
    <3>1. Held(t) = One(Holds(cur, t)) + One(Holds(o, t))
      <4>1. One(TopHolds(t)) = 0 /\ One(Holds(cur, t)) \in {0, 1} /\ One(Holds(o, t)) \in {0, 1}
        BY <2>2 DEF One
      <4>2. CASE cur = Boot
        <5>1. o = OThread
          BY <2>4, <4>2
        <5> QED BY <4>1, <4>2, <5>1 DEF Held
      <4>3. CASE cur = OThread
        <5>1. o = Boot
          BY <2>4, <4>3
        <5> QED BY <4>1, <4>3, <5>1 DEF Held
      <4> QED BY <2>1, <4>2, <4>3
    <3>2. One(Holds(cur, t)) = IF TopHas(t) THEN 1 ELSE 0
      BY <2>3 DEF One
    <3> QED BY <2>6, <3>1, <3>2
  <2>8. Held(t)' = a + IF TopHas(t)' THEN 1 ELSE 0
    <3>1. Held(t)' = One(Holds(cur, t)') + One(Holds(o, t)')
      <4>1. One(TopHolds(t)') = 0 /\ One(Holds(cur, t)') \in {0, 1} /\ One(Holds(o, t)') \in {0, 1}
        BY <2>2 DEF One
      <4>0. Held(t)' = One(Holds(Boot, t)') + One(Holds(OThread, t)') + One(TopHolds(t)')
        BY DEF Held, One
      <4>2. CASE cur = Boot
        <5>1. o = OThread
          BY <2>4, <4>2
        <5>2. Holds(Boot, t)' = Holds(cur, t)'
          BY <1>2, <4>2
        <5> QED BY <4>0, <4>1, <5>1, <5>2
      <4>3. CASE cur = OThread
        <5>1. o = Boot
          BY <2>4, <4>3
        <5>2. Holds(OThread, t)' = Holds(cur, t)'
          BY <1>2, <4>3
        <5> QED BY <4>0, <4>1, <5>1, <5>2
      <4> QED BY <2>1, <4>2, <4>3
    <3>2. One(Holds(cur, t)') = IF TopHas(t)' THEN 1 ELSE 0
      BY <2>3 DEF One
    <3> QED BY <2>6, <3>1, <3>2
  <2> HIDE DEF a
  <2> QED BY <1>6, <2>6, <2>7, <2>8
<1> QED BY <1>7, <1>8, <1>9


LEMMA LiveOrDead ==
    ASSUME IInv, NEW t \in Threads, ~EndedTwice \/ t = OThread
    PROVE  /\ t \notin created \ finished => Total(t) = 0
           /\ t \in created \ finished => Placed(t) /\ ~EndedTwice /\ Total(t) = 1 + One(Extra(t))
<1>1. PlacesOK
  BY DEF IInv
<1>2. ~EndedTwice => Placed(t)
  BY <1>1 DEF PlacesOK
<1>3. EndedTwice => t = OThread /\ OThread \in finished /\ Total(OThread) = 0
  BY <1>1 DEF PlacesOK, EndedTwice
<1> QED BY <1>2, <1>3 DEF Placed

LEMMA PutPlaces ==
    ASSUME IInv, Put PROVE PlacesOK'
<1>1. Shape /\ Stacks /\ Typed /\ cur \in Threads /\ Top.at = "put"
  BY AtIs DEF Put
<1>2. IsCall(Top)
  BY <1>1, IsCallAt DEF CallPlaces
<1>3. Kept' /\ Keeps(Depth - 1) /\ Depth' = Depth /\ Top'.at = "get"
  BY PutKeeps
<1>4. Typed' /\ Stacks'
  BY <1>3 DEF Kept
<1>5. Top.old = running /\ (Top.to = "away" => cur \in Apps /\ running = cur)
      /\ running \in created /\ ready \in Seq(created) /\ Top.to \in {"ready", "away"}
  BY <1>1, <1>2, OldIs, CallIs DEF Typed, CallFrames
<1>6. /\ ready' = IF running \notin finished /\ Top.to = "ready" THEN Append(ready, running) ELSE ready
      /\ away' = IF running \notin finished /\ Top.to = "away" THEN away \union {running} ELSE away
      /\ UNCHANGED <<running, created, finished, cur>>
  BY <1>5 DEF Put, MayBePut
<1>7. ASSUME NEW t \in Threads, ~EndedTwice \/ t = OThread PROVE Moves(t)
  <2>1. (Extra(t)' <=> Extra(t)) /\ Held(t)' = Held(t)
    <3>1. ~TopHas(t) /\ ~TopHas(t)'
      BY <1>1, <1>3 DEF TopHas
    <3> QED BY <1>1, <1>2, <1>3, <1>4, <3>1, HeldMoves
  <2>2. /\ Held(t) \in Nat /\ Count(ready, t) \in Nat
        /\ One(Runs(t)) \in {0, 1} /\ One(t \in away) \in {0, 1}
        /\ Total(t) = Count(ready, t) + Held(t) + One(Runs(t)) + One(t \in away)
    BY <1>1, HeldIs
  <2>3. Total(t)' = Count(ready', t) + Held(t)' + One(Runs(t)') + One(t \in away')
        /\ Count(ready', t) \in Nat
    BY <1>4, HeldsAreThen
  <2>4. (Runs(t) <=> t = running /\ t \notin finished) /\ ~Runs(t)'
    BY <1>1, <1>3 DEF Runs
  <2>5. Count(Append(ready, running), t) = Count(ready, t) + One(running = t)
    BY <1>5, CountAppended
  <2>6. CASE t # running \/ t \in finished
    <3>1. One(Runs(t)) = 0 /\ One(Runs(t)') = 0
      BY <2>4, <2>6 DEF One
    <3>2. Count(ready', t) = Count(ready, t)
      <4>1. CASE ready' = ready
        BY <4>1
      <4>2. CASE ready' = Append(ready, running) /\ running \notin finished
        <5>1. One(running = t) = 0
          BY <2>6, <4>2 DEF One
        <5> QED BY <2>2, <2>5, <4>2, <5>1
      <4> QED BY <1>6, <4>1, <4>2
    <3>3. t \in away' <=> t \in away
      BY <1>6, <2>6
    <3>4. Total(t)' = Total(t)
      BY <2>1, <2>2, <2>3, <3>1, <3>2, <3>3 DEF One
    <3> QED BY <2>1, <3>4 DEF Moves, One
  <2>7. CASE t = running /\ t \notin finished
    <3>1. One(Runs(t)) = 1 /\ One(Runs(t)') = 0 /\ One(running = t) = 1
      BY <2>4, <2>7 DEF One
    <3>2. CASE Top.to = "ready"
      <4>1. Count(ready', t) = Count(ready, t) + 1 /\ away' = away
        BY <1>5, <1>6, <2>5, <2>7, <3>1, <3>2
      <4>2. Total(t)' = Total(t)
        BY <2>1, <2>2, <2>3, <3>1, <4>1
      <4> QED BY <2>1, <4>2 DEF Moves, One
    <3>3. CASE Top.to = "away"
      <4>1. ready' = ready /\ t \in away' /\ t \in Apps
        BY <1>5, <1>6, <2>7, <3>3
      <4>2. Total(t) = 1 /\ ~Extra(t)
        <5>1. ~Extra(t)
          BY <4>1 DEF Extra
        <5>2. t \in created \ finished
          BY <1>5, <2>7
        <5> QED BY <1>7, <5>1, <5>2, LiveOrDead DEF One
      <4>3. One(t \in away) = 0 /\ One(t \in away') = 1
        <5>1. One(t \in away') = 1
          BY <4>1 DEF One
        <5> QED BY <2>2, <3>1, <4>2, <5>1
      <4>4. Total(t)' = Total(t)
        BY <2>1, <2>2, <2>3, <3>1, <4>1, <4>3
      <4> QED BY <2>1, <4>4 DEF Moves, One
    <3> QED BY <1>5, <3>2, <3>3
  <2> QED BY <2>6, <2>7
<1>8. running' = OThread /\ OThread \in finished => cur' = OThread
  BY <1>6 DEF PlacesOK, IInv
<1>9. EndedTwice => EndedTwice'
  BY <1>3, <1>6, EndedStays DEF Keeps
<1>10. PlacesOK
  BY DEF IInv
<1> QED BY <1>1, <1>4, <1>6, <1>7, <1>8, <1>9, <1>10, PlacesMove


\* Kernel threads do not sleep: if the ready queue is empty, the other dispatch has
\* the boot thread in its hands, and the output thread has just ended.
LEMMA NobodyIsReady ==
    ASSUME IInv, Get, ready = <<>>, ~EndedTwice
    PROVE  running \in finished
<1>1. /\ Shape /\ Stacks /\ Typed /\ cur \in Threads /\ Top.at = "get"
  BY AtIs DEF Get
<1>2. /\ Boot \in Threads /\ OThread \in Threads /\ Boot # OThread
      /\ Boot \notin Apps /\ OThread \notin Apps
      /\ Boot \in created \ finished /\ away \subseteq Apps /\ OThread \in created
  BY <1>1, SwitchingAssumption DEF Threads, Typed
<1>3. \A t \in Threads : Len(stack[t]) \in Nat
  BY <1>1, StackIs
<1>4. \A t \in Threads : /\ ~TopHolds(t) /\ ~Runs(t) /\ Count(ready, t) = 0
  <2>1. \A t : Count(ready, t) = 0
    <3>1. Range(ready) = {} /\ ready \in Seq(created)
      BY <1>1 DEF Range, Typed
    <3> QED BY <3>1, CountIs
  <2> QED BY <1>1, <2>1 DEF TopHolds, Runs
<1>5. \A t \in {Boot, OThread} : Total(t) = One(Holds(Boot, t)) + One(Holds(OThread, t))
  <2>1. ASSUME NEW t \in {Boot, OThread} PROVE Total(t) = One(Holds(Boot, t)) + One(Holds(OThread, t))
    <3>1. One(TopHolds(t)) = 0 /\ One(Runs(t)) = 0 /\ One(t \in away) = 0 /\ Count(ready, t) = 0
      BY <1>2, <1>4 DEF One
    <3>2. One(Holds(Boot, t)) \in {0, 1} /\ One(Holds(OThread, t)) \in {0, 1}
      BY DEF One
    <3> QED BY <3>1, <3>2 DEF Total
  <2> QED BY <2>1
<1>6. \A t \in {Boot, OThread} : t \in created \ finished => Total(t) = 1 + One(Extra(t))
  BY <1>2, LiveOrDead
<1>7. ASSUME NEW k \in {Boot, OThread}, NEW t, Holds(k, t)
      PROVE  Len(stack[k]) > 2 /\ Extra(k)
  <2>1. k \in Threads /\ k \notin Apps /\ Len(stack[k]) > 1 /\ stack[k][2].at = "set"
    BY <1>2, <1>7 DEF Holds
  <2>2. Len(stack[k]) # 2
    <3>1. CASE k = cur
      BY <1>1, <2>1, <3>1 DEF Top, Depth
    <3>2. CASE k # cur
      <4>1. Waiting(k)
        BY <1>1, <2>1, <3>2 DEF Shape
      <4>2. ~Fresh(k)
        <5>1. Len(<<FirstFrame(k)>>) = 1
          OBVIOUS
        <5>2. Fresh(k) => Len(stack[k]) = 1
          BY <5>1 DEF Fresh
        <5> QED BY <2>1, <5>2
      <4>3. stack[k][Len(stack[k])].at = "w_sstatus"
        BY <4>1, <4>2 DEF Waiting
      <4> QED BY <2>1, <4>3
    <3> QED BY <3>1, <3>2
  <2>3. Len(stack[k]) > 2
    <3> DEFINE n == Len(stack[k])
    <3>1. n \in Nat /\ n > 1 /\ n # 2
      BY <1>3, <2>1, <2>2
    <3> HIDE DEF n
    <3>2. n > 2
      BY <3>1
    <3> QED BY <3>2 DEF n
  <2> QED BY <2>1, <2>3 DEF Extra
<1>8. Holds(OThread, Boot)
  <2>1. Total(Boot) = 1 + One(Extra(Boot))
        /\ Total(Boot) = One(Holds(Boot, Boot)) + One(Holds(OThread, Boot))
    BY <1>2, <1>5, <1>6
  <2>2. Holds(Boot, Boot) => Extra(Boot)
    BY <1>7
  <2>3. One(Extra(Boot)) \in {0, 1}
    BY DEF One
  <2>4. ASSUME ~Holds(OThread, Boot) PROVE FALSE
    <3>1. One(Holds(OThread, Boot)) = 0
      BY <2>4 DEF One
    <3>2. CASE Holds(Boot, Boot)
      <4>1. One(Holds(Boot, Boot)) = 1 /\ One(Extra(Boot)) = 1
        BY <2>2, <3>2 DEF One
      <4> QED BY <2>1, <3>1, <4>1
    <3>3. CASE ~Holds(Boot, Boot)
      <4>1. One(Holds(Boot, Boot)) = 0
        BY <3>3 DEF One
      <4> QED BY <2>1, <2>3, <3>1, <4>1
    <3> QED BY <3>2, <3>3
  <2> QED BY <2>4
<1>9. Len(stack[OThread]) > 2 /\ Extra(OThread) /\ stack[OThread][2].at = "set"
  BY <1>7, <1>8 DEF Holds
<1>10. OThread \in finished
  <2>1. ASSUME OThread \notin finished PROVE FALSE
    <3>1. Total(OThread) = 1 + One(Extra(OThread))
          /\ Total(OThread) = One(Holds(Boot, OThread)) + One(Holds(OThread, OThread))
      BY <1>2, <1>5, <1>6, <2>1
    <3>2. ~Holds(OThread, OThread)
      BY <1>2, <1>8 DEF Holds
    <3>3. One(Extra(OThread)) = 1 /\ One(Holds(OThread, OThread)) = 0
          /\ One(Holds(Boot, OThread)) \in {0, 1}
      BY <1>9, <3>2 DEF One
    <3> QED BY <3>1, <3>3
  <2> QED BY <2>1
<1>11. cur = OThread
  <2>1. ASSUME cur # OThread PROVE FALSE
    <3>1. ~(Len(stack[OThread]) > 3)
      BY <1>10, <2>1 DEF EndedTwice
    <3>2. Len(stack[OThread]) = 3
      <4> DEFINE n == Len(stack[OThread])
      <4>1. n \in Nat /\ n > 2 /\ ~(n > 3)
        BY <1>2, <1>3, <1>9, <3>1
      <4> HIDE DEF n
      <4>2. n = 3
        BY <4>1
      <4> QED BY <4>2 DEF n
    <3>3. Waiting(OThread)
      BY <1>1, <1>2, <2>1 DEF Shape
    <3>4. stack[OThread][3].at = "w_sstatus"
      <4>1. Len(<<FirstFrame(OThread)>>) = 1
        OBVIOUS
      <4>2. ~Fresh(OThread)
        BY <3>2, <4>1 DEF Fresh
      <4> QED BY <3>2, <3>3, <4>2 DEF Waiting
    <3>5. FrameOK(OThread, stack[OThread], 3, created)
      <4>1. StackOK(OThread, stack[OThread], created)
        BY <1>1, <1>2 DEF Stacks
      <4>2. 3 \in 2..Len(stack[OThread])
        BY <3>2
      <4> QED BY <4>1, <4>2 DEF StackOK
    <3>6. CallOK(OThread, stack[OThread], 3, created)
      BY <3>4, <3>5 DEF FrameOK, TrapOK, TrapFrames, TrapPlaces
    <3>7. InnerOK(OThread, stack[OThread], 3)
      BY <3>6 DEF CallOK, OuterOK
    <3>8. stack[OThread][2].at = "return"
      BY <3>7 DEF InnerOK
    <3> QED BY <1>9, <3>8
  <2> QED BY <2>1
<1>12. running = cur
  BY <1>1, <1>9, <1>11 DEF Shape, RunningIs, Window
<1> QED BY <1>10, <1>11, <1>12

LEMMA GetPlaces ==
    ASSUME IInv, Get PROVE PlacesOK'
<1>1. Shape /\ Stacks /\ Typed /\ cur \in Threads /\ Top.at = "get"
  BY AtIs DEF Get
<1>2. IsCall(Top)
  BY <1>1, IsCallAt DEF CallPlaces
<1>3. /\ Kept' /\ Keeps(Depth - 1) /\ Depth' = Depth
      /\ IF ready = <<>> THEN Top'.at = "w_sstatus" /\ ready' = ready
         ELSE Top'.at = "set" /\ Top'.next = Head(ready) /\ ready' = Tail(ready)
  BY GetKeeps
<1>4. Typed' /\ Stacks' /\ ready \in Seq(created) /\ running \in created
  BY <1>1, <1>3 DEF Kept, Typed
<1>5. UNCHANGED <<running, away, created, finished, cur>>
  BY DEF Get
<1>6. ASSUME NEW t \in Threads, ~EndedTwice \/ t = OThread PROVE Moves(t)
  <2>1. /\ Held(t) \in Nat /\ Count(ready, t) \in Nat
        /\ One(Runs(t)) \in {0, 1} /\ One(t \in away) \in {0, 1}
        /\ Total(t) = Count(ready, t) + Held(t) + One(Runs(t)) + One(t \in away)
    BY <1>1, HeldIs
  <2>2. Total(t)' = Count(ready', t) + Held(t)' + One(Runs(t)') + One(t \in away')
        /\ Count(ready', t) \in Nat /\ Held(t)' \in Nat
    BY <1>4, HeldsAreThen
  <2>3. Extra(t)' <=> Extra(t)
    BY <1>1, <1>2, <1>3, <1>4, HeldMoves
  <2>4. ~TopHas(t) /\ ~Runs(t)
    BY <1>1 DEF TopHas, Runs
  <2>5. CASE ready # <<>>
    <3>1. TopHas(t)' <=> Head(ready) = t
      BY <1>3, <2>5 DEF TopHas
    <3>2. Held(t)' = Held(t) + One(Head(ready) = t)
      BY <1>1, <1>2, <1>3, <1>4, <2>1, <2>4, <3>1, HeldMoves DEF One
    <3>3. Count(ready, t) = Count(ready', t) + One(Head(ready) = t) /\ One(Head(ready) = t) \in {0, 1}
      BY <1>3, <1>4, <2>5, CountTaken DEF One
    <3>4. ~Runs(t)'
      BY <1>3, <2>5 DEF Runs
    <3>5. One(Runs(t)) = 0 /\ One(Runs(t)') = 0 /\ One(t \in away') = One(t \in away)
      BY <1>5, <2>4, <3>4 DEF One
    <3>6. Total(t)' = Total(t)
      BY <2>1, <2>2, <3>2, <3>3, <3>5
    <3> QED BY <2>3, <3>6 DEF Moves, One
  <2>6. CASE ready = <<>>
    <3>1. ~TopHas(t)' /\ ready' = ready
      BY <1>3, <2>6 DEF TopHas
    <3>2. Held(t)' = Held(t)
      BY <1>1, <1>2, <1>3, <1>4, <2>4, <3>1, HeldMoves
    <3>3. ~Runs(t)'
      <4>1. CASE ~EndedTwice
        BY <1>5, <2>6, <4>1, NobodyIsReady DEF Runs
      <4>2. CASE EndedTwice
        <5>1. t = OThread /\ OThread \in finished
          BY <1>6, <4>2 DEF EndedTwice
        <5> QED BY <1>5, <5>1 DEF Runs
      <4> QED BY <4>1, <4>2
    <3>4. One(Runs(t)) = 0 /\ One(Runs(t)') = 0 /\ One(t \in away') = One(t \in away)
      BY <1>5, <2>4, <3>3 DEF One
    <3>5. Total(t)' = Total(t)
      BY <2>1, <2>2, <3>1, <3>2, <3>4
    <3> QED BY <2>3, <3>5 DEF Moves, One
  <2> QED BY <2>5, <2>6
<1>7. running' = OThread /\ OThread \in finished => cur' = OThread
  BY <1>5 DEF PlacesOK, IInv
<1>8. EndedTwice => EndedTwice'
  BY <1>3, <1>5, EndedStays DEF Keeps
<1>9. PlacesOK
  BY DEF IInv
<1> QED BY <1>1, <1>4, <1>5, <1>6, <1>7, <1>8, <1>9, PlacesMove

LEMMA SetRunningPlaces ==
    ASSUME IInv, SetRunning PROVE PlacesOK'
<1>1. Shape /\ Stacks /\ Typed /\ cur \in Threads /\ Top.at = "set"
  BY AtIs DEF SetRunning
<1>2. IsCall(Top)
  BY <1>1, IsCallAt DEF CallPlaces
<1>3. Kept' /\ Keeps(Depth - 1) /\ Depth' = Depth /\ Top'.at = "switch"
  BY SetRunningKeeps
<1>4. Typed' /\ Stacks'
  BY <1>3 DEF Kept
<1>5. UNCHANGED <<ready, away, created, finished, cur>> /\ running' = Top.next
  BY DEF SetRunning, queues
<1>6. ASSUME NEW t \in Threads, ~EndedTwice \/ t = OThread
      PROVE  Moves(t) /\ (t = Top.next => t \notin finished)
  <2>1. /\ Held(t) \in Nat /\ Count(ready, t) \in Nat
        /\ One(Runs(t)) \in {0, 1} /\ One(t \in away) \in {0, 1}
        /\ Total(t) = Count(ready, t) + Held(t) + One(Runs(t)) + One(t \in away)
    BY <1>1, HeldIs
  <2>2. Total(t)' = Count(ready', t) + Held(t)' + One(Runs(t)') + One(t \in away')
        /\ Count(ready', t) \in Nat /\ Held(t)' \in Nat
    BY <1>4, HeldsAreThen
  <2>3. Extra(t)' <=> Extra(t)
    BY <1>1, <1>2, <1>3, <1>4, HeldMoves
  <2>4. (TopHas(t) <=> t = Top.next) /\ ~TopHas(t)' /\ ~Runs(t)
        /\ (Runs(t)' <=> t = Top.next /\ t \notin finished)
    BY <1>1, <1>3, <1>5 DEF TopHas, Runs
  <2>5. Count(ready', t) = Count(ready, t) /\ One(t \in away') = One(t \in away) /\ One(Runs(t)) = 0
    BY <1>5, <2>4 DEF One
  <2>6. CASE t = Top.next
    <3>1. Held(t)' + 1 = Held(t)
      BY <1>1, <1>2, <1>3, <1>4, <2>4, <2>6, HeldMoves
    <3>2. Total(t) # 0
      BY <2>1, <2>2, <3>1
    <3>3. t \notin finished
      BY <1>6, <3>2, LiveOrDead
    <3>4. One(Runs(t)') = 1
      BY <2>4, <2>6, <3>3 DEF One
    <3>5. Total(t)' = Total(t)
      BY <2>1, <2>2, <2>5, <3>1, <3>4
    <3> QED BY <2>3, <3>3, <3>5 DEF Moves, One
  <2>7. CASE t # Top.next
    <3>1. Held(t)' = Held(t)
      BY <1>1, <1>2, <1>3, <1>4, <2>4, <2>7, HeldMoves
    <3>2. One(Runs(t)') = 0
      BY <2>4, <2>7 DEF One
    <3>3. Total(t)' = Total(t)
      BY <2>1, <2>2, <2>5, <3>1, <3>2
    <3> QED BY <2>3, <2>7, <3>3 DEF Moves, One
  <2> QED BY <2>6, <2>7
<1>7. running' = OThread /\ OThread \in finished => cur' = OThread
  BY <1>5, <1>6 DEF Threads
<1>8. EndedTwice => EndedTwice'
  BY <1>3, <1>5, EndedStays DEF Keeps
<1>9. PlacesOK
  BY DEF IInv
<1> QED BY <1>1, <1>4, <1>5, <1>6, <1>7, <1>8, <1>9, PlacesMove


-----------------------------------------------------------------------------
\* The places of the threads: traps.

\* While the outer dispatch of a kernel thread has put it in the ready queue or
\* taken another thread, a trap adds one place for it, and its end takes it away.
LEMMA MidMoves ==
    ASSUME Typed, Typed', OnlyCur, cur \in Threads, cur \notin Apps,
           stack'[cur][2] = stack[cur][2], Len(stack[cur]) > 1, Len(stack'[cur]) > 1,
           Extra(cur) <=> Top.at \notin {"get", "set"},
           Extra(cur)' <=> Top'.at \notin {"get", "set"},
           running = cur, running' = cur, finished' = finished, created' = created, NEW t \in Threads,
           ~TopHolds(t), ~TopHolds(t)',
           Count(ready', t) + One(t \in away') = Count(ready, t) + One(t \in away)
    PROVE  Moves(t)
<1>1. cur' = cur /\ \A k \in Threads \ {cur} : stack'[k] = stack[k]
  BY DEF OnlyCur
<1>2. \A k \in Threads : Holds(k, t)' <=> Holds(k, t)
  BY <1>1 DEF Holds
<1>3. (Holds(Boot, t)' <=> Holds(Boot, t)) /\ (Holds(OThread, t)' <=> Holds(OThread, t))
  BY <1>2 DEF Threads
<1>4. Held(t)' = Held(t)
  BY <1>3 DEF Held, One
<1>5. /\ Held(t) \in Nat /\ Count(ready, t) \in Nat /\ One(t \in away) \in {0, 1}
      /\ Total(t) = Count(ready, t) + Held(t) + One(Runs(t)) + One(t \in away)
  BY HeldIs
<1>6. Total(t)' = Count(ready', t) + Held(t)' + One(Runs(t)') + One(t \in away')
      /\ Count(ready', t) \in Nat
  BY HeldsAreThen
<1>7. \A b : One(b) \in {0, 1}
  BY DEF One
<1>8. Runs(t) <=> t = cur /\ t \notin finished /\ Extra(cur)
  BY DEF Runs
<1>9. Runs(t)' <=> t = cur /\ t \notin finished /\ Extra(cur)'
  BY DEF Runs
<1>10. t # cur => (Extra(t)' <=> Extra(t))
  BY <1>1 DEF Extra
<1>11. CASE t # cur \/ t \in finished
  <2>1. One(Runs(t)) = 0 /\ One(Runs(t)') = 0
    BY <1>8, <1>9, <1>11 DEF One
  <2>2. Total(t)' = Total(t)
    <3> DEFINE a == Count(ready, t)
    <3> DEFINE b == Count(ready', t)
    <3> DEFINE c == One(t \in away)
    <3> DEFINE d == One(t \in away')
    <3> DEFINE h == Held(t)
    <3>1. /\ Total(t) = a + h + 0 + c /\ Total(t)' = b + h + 0 + d /\ b + d = a + c
          /\ a \in Nat /\ b \in Nat /\ c \in {0, 1} /\ d \in {0, 1} /\ h \in Nat
      BY <1>4, <1>5, <1>6, <1>7, <2>1
    <3> HIDE DEF a, b, c, d, h
    <3> QED BY <3>1
  <2> QED BY <1>10, <1>11, <2>2 DEF Moves, One
<1>12. CASE t = cur /\ t \notin finished
  <2>1. One(Runs(t)) = One(Extra(t)) /\ One(Runs(t)') = One(Extra(t)') /\ t \in created
    BY <1>1, <1>8, <1>9, <1>12 DEF One, Typed
  <2>2. Total(t)' + One(Extra(t)) = Total(t) + One(Extra(t)')
    <3> DEFINE a == Count(ready, t)
    <3> DEFINE b == Count(ready', t)
    <3> DEFINE c == One(t \in away)
    <3> DEFINE d == One(t \in away')
    <3> DEFINE h == Held(t)
    <3> DEFINE x == One(Extra(t))
    <3> DEFINE y == One(Extra(t)')
    <3>1. /\ Total(t) = a + h + x + c /\ Total(t)' = b + h + y + d /\ b + d = a + c
          /\ a \in Nat /\ b \in Nat /\ c \in {0, 1} /\ d \in {0, 1} /\ h \in Nat
          /\ x \in {0, 1} /\ y \in {0, 1}
      BY <1>4, <1>5, <1>6, <1>7, <2>1
    <3> HIDE DEF a, b, c, d, h, x, y
    <3>2. Total(t)' + x = Total(t) + y
      BY <3>1
    <3> QED BY <3>2 DEF x, y
  <2> QED BY <1>12, <2>1, <2>2 DEF Moves
<1> QED BY <1>11, <1>12

\* Who is woken only changes queues.
LEMMA WokeMoves ==
    ASSUME Typed, NEW woken \in Woken, Wake(woken), NEW t
    PROVE  Count(ready', t) + One(t \in away') = Count(ready, t) + One(t \in away)
<1>1. ready \in Seq(created) /\ away \subseteq created /\ Count(ready, t) \in Nat
  BY CountIs DEF Typed
<1>2. ready' = ready \o woken /\ away' = away \ Range(woken)
  BY DEF Wake
<1>3. CASE woken = <<>>
  <2>1. Range(woken) = {}
    BY <1>3 DEF Range
  <2>2. ready' = ready /\ away' = away
    BY <1>1, <1>2, <1>3, <2>1
  <2> QED BY <2>2
<1>4. CASE woken # <<>>
  <2>1. PICK u \in away : woken = <<u>>
    BY <1>4 DEF Woken
  <2>2. Range(woken) = {u}
    BY <2>1 DEF Range
  <2>3. ready' = Append(ready, u) /\ away' = away \ {u} /\ u \in created
    BY <1>1, <1>2, <2>1, <2>2
  <2>4. Count(ready', t) = Count(ready, t) + One(u = t)
    BY <1>1, <2>3, CountAppended
  <2>5. One(t \in away) = One(t \in away') + One(u = t)
    BY <2>1, <2>3 DEF One
  <2>6. One(u = t) \in {0, 1} /\ One(t \in away') \in {0, 1}
    BY DEF One
  <2> QED BY <1>1, <2>4, <2>5, <2>6
<1> QED BY <1>3, <1>4

\* A trap comes.
LEMMA EnterMoves ==
    ASSUME IInv, Shape, Kept', Entering, UNCHANGED <<running, finished, created>>, NEW t \in Threads,
           Count(ready', t) + One(t \in away') = Count(ready, t) + One(t \in away)
    PROVE  Moves(t)
<1>1. Stacks /\ Stacks' /\ Typed /\ Typed' /\ cur \in Threads
  BY DEF IInv, Kept, Typed
<1>2. Depth \in Nat \ {0}
  BY <1>1, DepthsAre
<1>3. /\ OnlyCur /\ \A i \in 1..Depth : stack'[cur][i] = stack[cur][i]
      /\ Depth' \in {Depth + 1, Depth + 2}
      /\ Top'.at \in {"return", "r_sepc"} /\ (IsCall(Top) => sie)
      /\ cur' = cur
  BY DEF Entering, OnlyCur
<1>4. CASE Top.at \in {"get", "set"}
  <2>1. IsCall(Top)
    BY <1>4 DEF IsCall, CallPlaces
  <2>2. Depth = 2 /\ cur \notin Apps
    <3>1. /\ Depth >= 2 /\ (Depth = 2 => cur \notin Apps)
      BY <1>1, <2>1, CallIs
    <3>2. Depth > 2 => ~sie
      BY <1>1, <1>4, <2>1, CallCpu
    <3> QED BY <1>2, <1>3, <2>1, <3>1, <3>2
  <2>3. Len(stack[cur]) = 2 /\ Len(stack'[cur]) > 2 /\ Top = stack[cur][2]
        /\ stack'[cur][2] = stack[cur][2]
    <3>1. Depth' > 2 /\ 2 \in 1..Depth
      BY <1>3, <2>2
    <3>2. stack'[cur][2] = stack[cur][2]
      BY <1>3, <3>1
    <3> QED BY <1>3, <2>2, <3>1, <3>2 DEF Depth, Top
  <2>4. Len(stack[cur]) > 1 /\ Len(stack'[cur]) > 1
    <3>1. Len(stack'[cur]) \in {3, 4}
      BY <1>3, <2>2 DEF Depth
    <3> QED BY <2>3, <3>1
  <2>5. Extra(cur) <=> Top.at \notin {"get", "set"}
    BY <1>4, <2>3 DEF Extra
  <2>6. Extra(cur)' <=> Top'.at \notin {"get", "set"}
    BY <1>3, <1>4, <2>2, <2>3 DEF Extra
  <2>7. running = cur
    BY <1>4, <2>3 DEF Shape, RunningIs, Window
  <2>8. ~TopHolds(t) /\ ~TopHolds(t)'
    BY <1>3, <2>2 DEF TopHolds
  <2> QED BY <1>1, <1>3, <2>2, <2>3, <2>4, <2>5, <2>6, <2>7, <2>8, MidMoves
<1>5. CASE Top.at \notin {"get", "set"}
  <2>1. \A k \in Threads : SecondKept(k)
    BY <1>3, <1>5, EntersQuietly DEF OnlyCur, SecondKept
  <2>2. \A k \in Threads : Len(stack[k]) \in Nat /\ Len(stack'[k]) \in Nat
    <3>1. \A k \in Threads : Len(stack[k]) \in Nat
      BY <1>1, StackIs
    <3>2. \A k \in Threads : Len(stack'[k]) \in Nat
      BY <1>1, StackIs
    <3> QED BY <3>1, <3>2
  <2>3. \A k \in Threads : (Holds(k, t)' <=> Holds(k, t)) /\ (k = t => (Extra(t)' <=> Extra(t)))
    BY <2>1, <2>2, HoldsKept
  <2>4. (Holds(Boot, t)' <=> Holds(Boot, t)) /\ (Holds(OThread, t)' <=> Holds(OThread, t))
        /\ (Extra(t)' <=> Extra(t))
    BY <2>3 DEF Threads
  <2>5. (TopHolds(t)' <=> TopHolds(t)) /\ (Runs(t)' <=> Runs(t))
    BY <1>3, <1>5 DEF TopHolds, Runs
  <2>6. Held(t)' = Held(t) /\ One(Runs(t)') = One(Runs(t)) /\ One(Extra(t)') = One(Extra(t))
    BY <2>4, <2>5 DEF Held, One
  <2>7. /\ Held(t) \in Nat /\ Count(ready, t) \in Nat /\ One(t \in away) \in {0, 1}
        /\ One(Runs(t)) \in {0, 1} /\ One(t \in away') \in {0, 1} /\ Count(ready', t) \in Nat
        /\ Total(t) = Count(ready, t) + Held(t) + One(Runs(t)) + One(t \in away)
        /\ Total(t)' = Count(ready', t) + Held(t)' + One(Runs(t)') + One(t \in away')
    BY <1>1, HeldIs, HeldsAreThen DEF One
  <2>8. Total(t)' = Total(t)
    <3> DEFINE a == Count(ready, t)
    <3> DEFINE b == Count(ready', t)
    <3> DEFINE c == One(t \in away)
    <3> DEFINE d == One(t \in away')
    <3> DEFINE h == Held(t)
    <3> DEFINE r == One(Runs(t))
    <3>1. /\ Total(t) = a + h + r + c /\ Total(t)' = b + h + r + d /\ b + d = a + c
          /\ a \in Nat /\ b \in Nat /\ c \in {0, 1} /\ d \in {0, 1} /\ h \in Nat /\ r \in {0, 1}
      BY <2>6, <2>7
    <3> HIDE DEF a, b, c, d, h, r
    <3> QED BY <3>1
  <2> QED BY <2>6, <2>8 DEF Moves
<1> QED BY <1>4, <1>5

LEMMA EnterPlaces ==
    ASSUME IInv, Shape, Kept', Entering, UNCHANGED <<running, finished, created>>,
           NEW woken \in Woken, Wake(woken)
    PROVE  PlacesOK'
<1>1. PlacesOK /\ Typed /\ Typed' /\ OnlyCur /\ cur' = cur
  BY DEF IInv, Kept, Entering, OnlyCur
<1>2. \A t \in Threads : Moves(t)
  BY <1>1, WokeMoves, EnterMoves
<1>3. running' = OThread /\ OThread \in finished => cur' = OThread
  BY <1>1 DEF PlacesOK
<1> QED BY <1>1, <1>2, <1>3, EndedStays, PlacesMove

LEMMA WakingPlaces ==
    ASSUME IInv, NEW woken \in Woken,
           EcallGoesOn(woken) \/ \E sliceEnds \in BOOLEAN : Interrupt(woken, sliceEnds)
    PROVE  PlacesOK'
<1>1. Wake(woken) /\ UNCHANGED <<running, finished, created>> /\ Intact
  BY DEF EcallGoesOn, Interrupt, At
<1>2. Kept' /\ Entering
  BY EcallGoesOnKeeps, InterruptKeeps
<1>3. Shape
  BY <1>1 DEF IInv, Intact, ContextsOK
<1> QED BY <1>1, <1>2, <1>3, EnterPlaces


\* A trap ends.
LEMMA TrapReturnsPlaces ==
    ASSUME IInv, TrapReturns PROVE PlacesOK'
<1>1. Shape /\ Stacks /\ Typed /\ cur \in Threads /\ Top.at = "leave" /\ PlacesOK
  BY AtIs DEF TrapReturns
<1>2. /\ Kept' /\ Keeps(Depth - 2) /\ Depth' = Depth - 1 /\ Depth >= 2
      /\ Depth = 2 => Top'.at \in BasePlaces
      /\ Depth > 3 => Top'.at = "w_sstatus"
      /\ Depth = 3 => cur \notin Apps /\ Top' = stack[cur][2] /\ stack'[cur][2] = stack[cur][2]
  BY TrapReturnsKeeps
<1>3. UNCHANGED <<ready, away, running, finished, created>>
  BY DEF TrapReturns, Sret, sched, queues
<1> DEFINE n == Depth
<1>4. n \in Nat /\ n >= 2
  BY <1>1, <1>2, DepthsAre
<1>5. OnlyCur /\ cur' = cur /\ \A i \in 1..(n - 2) : stack'[cur][i] = stack[cur][i]
  BY <1>2 DEF Keeps, OnlyCur
<1>6. n = 2 \/ n = 3 \/ n > 3
  <2> HIDE DEF n
  <2> QED BY <1>4
<1>7. CASE Top'.at \notin {"get", "set"}
  <2>1. ASSUME n > 2, n - 1 > 2 PROVE stack'[cur][2] = stack[cur][2]
    <3>1. 2 \in 1..(n - 2)
      BY <1>4, <2>1
    <3> HIDE DEF n
    <3> QED BY <1>5, <3>1
  <2>2. ASSUME n > 2, n - 1 <= 2 PROVE stack[cur][2].at \notin {"get", "set"}
    <3>1. n = 3
      BY <1>4, <2>2
    <3> QED BY <1>2, <1>7, <3>1
  <2>3. ~(n - 1 > 2 /\ n <= 2)
    BY <1>4
  <2>4. SecondKept(cur)
    BY <1>1, <1>2, <1>4, <1>5, <1>7, <2>1, <2>2, <2>3, SecondStays
  <2> QED BY <1>1, <1>2, <1>3, <1>5, <1>7, <2>4, QuietStep
<1>8. CASE Top'.at \in {"get", "set"}
  <2>1. n = 3
    BY <1>2, <1>6, <1>8 DEF BasePlaces
  <2>2. /\ cur \notin Apps /\ Top' = stack[cur][2] /\ stack'[cur][2] = stack[cur][2]
        /\ Len(stack[cur]) = 3 /\ Len(stack'[cur]) = 2 /\ Depth' = 2
    BY <1>2, <1>5, <2>1 DEF Depth
  <2>3. Extra(cur) <=> Top.at \notin {"get", "set"}
    BY <1>1, <1>8, <2>2 DEF Extra
  <2>4. Extra(cur)' <=> Top'.at \notin {"get", "set"}
    BY <1>5, <1>8, <2>2 DEF Extra
  <2>5. running = cur
    BY <1>1, <1>8, <2>2 DEF Shape, RunningIs, Window
  <2>6. ASSUME NEW t \in Threads PROVE Moves(t)
    <3>1. ~TopHolds(t) /\ ~TopHolds(t)'
      BY <1>1, <1>5, <2>2 DEF TopHolds
    <3>2. Count(ready', t) + One(t \in away') = Count(ready, t) + One(t \in away)
      BY <1>3
    <3>3. Len(stack[cur]) > 1 /\ Len(stack'[cur]) > 1 /\ Typed'
      BY <1>2, <2>2 DEF Kept
    <3> QED BY <1>1, <1>3, <1>5, <2>2, <2>3, <2>4, <2>5, <3>1, <3>2, <3>3, MidMoves
  <2>7. running' = OThread /\ OThread \in finished => cur' = OThread
    BY <1>1, <1>3, <1>5 DEF PlacesOK
  <2> QED BY <1>1, <1>2, <1>3, <1>5, <2>6, <2>7, EndedStays, PlacesMove DEF Kept
<1> QED BY <1>7, <1>8

\* What a system call leaves alone besides queues and the end of its thread.
LEMMA EcallMoves ==
    ASSUME Stacks, Stacks', Typed, Typed', Entering, SecondKept(cur), cur \in Threads,
           Top.at = "ecall", running' = running, NEW t \in Threads
    PROVE  /\ Held(t)' = Held(t) /\ (Extra(t)' <=> Extra(t))
           /\ Runs(t) <=> t = running /\ t \notin finished
           /\ Runs(t)' <=> t = running /\ t \notin finished'
           /\ Held(t) \in Nat /\ Count(ready, t) \in Nat /\ Count(ready', t) \in Nat
           /\ Total(t) = Count(ready, t) + Held(t) + One(Runs(t)) + One(t \in away)
           /\ Total(t)' = Count(ready', t) + Held(t)' + One(Runs(t)') + One(t \in away')
<1>1. OnlyCur /\ cur' = cur /\ Top'.at \in {"return", "r_sepc"}
  BY DEF Entering, OnlyCur
<1>2. \A k \in Threads : SecondKept(k)
  BY <1>1 DEF OnlyCur, SecondKept
<1>3. \A k \in Threads : Len(stack[k]) \in Nat /\ Len(stack'[k]) \in Nat
  <2>1. \A k \in Threads : Len(stack[k]) \in Nat
    BY StackIs
  <2>2. \A k \in Threads : Len(stack'[k]) \in Nat
    BY StackIs
  <2> QED BY <2>1, <2>2
<1>4. \A k \in Threads : (Holds(k, t)' <=> Holds(k, t)) /\ (k = t => (Extra(t)' <=> Extra(t)))
  BY <1>2, <1>3, HoldsKept
<1>5. (Holds(Boot, t)' <=> Holds(Boot, t)) /\ (Holds(OThread, t)' <=> Holds(OThread, t))
      /\ (Extra(t)' <=> Extra(t))
  BY <1>4 DEF Threads
<1>6. ~TopHolds(t)' /\ ~TopHolds(t)
  BY <1>1 DEF TopHolds
<1>7. (Runs(t) <=> t = running /\ t \notin finished) /\ (Runs(t)' <=> t = running /\ t \notin finished')
  BY <1>1 DEF Runs
<1>8. Held(t)' = Held(t)
  BY <1>5, <1>6 DEF Held, One
<1> QED BY <1>5, <1>7, <1>8, HeldIs, HeldsAreThen

LEMMA EcallCreatesPlaces ==
    ASSUME IInv, NEW t \in Workers, EcallCreates(t) PROVE PlacesOK'
<1>1. Kept' /\ Entering
  BY EcallCreatesKeeps
<1>2. /\ Stacks /\ Stacks' /\ Typed /\ Typed' /\ cur \in Threads /\ Top.at = "ecall" /\ PlacesOK
  BY <1>1, EcallIs DEF EcallCreates, Kept, IInv
<1>3. /\ UNCHANGED <<running, away, finished>> /\ t \in Apps /\ t \notin created
      /\ created' = created \union {t} /\ ready' = Append(ready, t)
  BY DEF EcallCreates
<1>4. SecondKept(cur) /\ OnlyCur /\ cur' = cur
  BY <1>1, <1>2, EntersQuietly DEF Entering, OnlyCur
<1>5. t \notin finished /\ ready \in Seq(Threads) /\ t \in Threads /\ t # OThread /\ OThread \in Threads
  BY <1>2, <1>3, SwitchingAssumption DEF Typed, Threads
<1>6. ASSUME NEW u \in Threads
      PROVE  /\ Total(u)' = Total(u) + One(t = u) /\ (Extra(u)' <=> Extra(u))
             /\ Total(u) \in Nat
  <2>1. Count(ready', u) = Count(ready, u) + One(t = u)
    BY <1>3, <1>5, CountAppended
  <2>2. /\ Held(u)' = Held(u) /\ (Extra(u)' <=> Extra(u)) /\ (Runs(u)' <=> Runs(u))
        /\ Held(u) \in Nat /\ Count(ready, u) \in Nat
        /\ Total(u) = Count(ready, u) + Held(u) + One(Runs(u)) + One(u \in away)
        /\ Total(u)' = Count(ready', u) + Held(u)' + One(Runs(u)') + One(u \in away')
    BY <1>1, <1>2, <1>3, <1>4, EcallMoves
  <2>3. One(Runs(u)') = One(Runs(u)) /\ One(u \in away') = One(u \in away)
        /\ One(Runs(u)) \in {0, 1} /\ One(u \in away) \in {0, 1} /\ One(t = u) \in {0, 1}
    BY <1>3, <2>2 DEF One
  <2>4. Total(u)' = Total(u) + One(t = u)
    BY <2>1, <2>2, <2>3
  <2> QED BY <1>2, <2>2, <2>4, TermsAre
<1>7. OThread \in finished' => Total(OThread)' = 0 /\ (running' = OThread => cur' = OThread)
  <2>1. One(t = OThread) = 0
    BY <1>5 DEF One
  <2> QED BY <1>2, <1>3, <1>4, <1>5, <1>6, <2>1 DEF PlacesOK
<1>8. ASSUME NEW u \in Threads, ~EndedTwice PROVE Placed(u)'
  <2>1. Placed(u) /\ Total(u)' = Total(u) + One(t = u) /\ (Extra(u)' <=> Extra(u)) /\ Total(u) \in Nat
    BY <1>2, <1>6, <1>8 DEF PlacesOK
  <2>2. CASE u = t
    <3>1. Total(u) = 0 /\ One(t = u) = 1 /\ ~Extra(u)
      BY <1>3, <2>1, <2>2 DEF Placed, One, Extra
    <3> QED BY <1>3, <1>5, <2>1, <2>2, <3>1 DEF Placed, One
  <2>3. CASE u # t
    <3>1. One(t = u) = 0
      BY <2>3 DEF One
    <3>2. Total(u)' = Total(u)
      BY <2>1, <3>1
    <3>3. u \in created' \ finished' <=> u \in created \ finished
      BY <1>3, <2>3
    <3> QED BY <2>1, <3>2, <3>3 DEF Placed, One
  <2> QED BY <2>2, <2>3
<1>9. EndedTwice => EndedTwice'
  BY <1>3, <1>4, EndedStays
<1> QED BY <1>7, <1>8, <1>9 DEF PlacesOK

LEMMA EcallExitPlaces ==
    ASSUME IInv, EcallExit PROVE PlacesOK'
<1>1. Kept' /\ Entering
  BY EcallExitKeeps
<1>2. /\ Stacks /\ Stacks' /\ Typed /\ Typed' /\ cur \in Threads /\ Top.at = "ecall" /\ PlacesOK
      /\ cur \in Apps /\ running = cur
  BY <1>1, EcallIs DEF EcallExit, Kept, IInv
<1>3. UNCHANGED <<running, ready, away, created>> /\ finished' = finished \union {cur}
  BY <1>2 DEF EcallExit, queues
<1>4. SecondKept(cur) /\ OnlyCur /\ cur' = cur
  BY <1>1, <1>2, EntersQuietly DEF Entering, OnlyCur
<1>5. cur # OThread /\ OThread \in Threads
  BY <1>2, SwitchingAssumption DEF Threads
<1>6. ASSUME NEW u \in Threads
      PROVE  /\ Total(u)' + One(Runs(u)) = Total(u) + One(Runs(u)') /\ (Extra(u)' <=> Extra(u))
             /\ Runs(u) <=> u = cur /\ u \notin finished
             /\ ~Runs(u)' /\ Total(u) \in Nat /\ Total(u)' \in Nat
  <2>1. /\ Held(u)' = Held(u) /\ (Extra(u)' <=> Extra(u))
        /\ Runs(u) <=> u = cur /\ u \notin finished
        /\ Runs(u)' <=> u = cur /\ u \notin finished'
        /\ Held(u) \in Nat /\ Count(ready, u) \in Nat
        /\ Total(u) = Count(ready, u) + Held(u) + One(Runs(u)) + One(u \in away)
        /\ Total(u)' = Count(ready', u) + Held(u)' + One(Runs(u)') + One(u \in away')
    BY <1>1, <1>2, <1>3, <1>4, EcallMoves
  <2>2. One(u \in away') = One(u \in away)
        /\ One(Runs(u)) \in {0, 1} /\ One(Runs(u)') \in {0, 1} /\ One(u \in away) \in {0, 1}
    BY <1>3 DEF One
  <2>3. Total(u)' + One(Runs(u)) = Total(u) + One(Runs(u)') /\ Total(u)' \in Nat
    BY <1>3, <2>1, <2>2
  <2> QED BY <1>2, <1>3, <2>1, <2>3, TermsAre
<1>7. \A u \in Threads : u # cur => Total(u)' = Total(u)
  <2>1. ASSUME NEW u \in Threads, u # cur PROVE Total(u)' = Total(u)
    <3>1. One(Runs(u)) = 0 /\ One(Runs(u)') = 0
      BY <1>6, <2>1 DEF One
    <3> QED BY <1>6, <3>1
  <2> QED BY <2>1
<1>8. OThread \in finished' => Total(OThread)' = 0 /\ (running' = OThread => cur' = OThread)
  BY <1>2, <1>3, <1>5, <1>7 DEF PlacesOK
<1>9. ASSUME NEW u \in Threads, ~EndedTwice PROVE Placed(u)'
  <2>1. Placed(u)
    BY <1>2, <1>9 DEF PlacesOK
  <2>2. CASE u = cur
    <3>1. ~Extra(u) /\ u \in created /\ u \in finished'
      BY <1>2, <1>3, <2>2 DEF Extra, Typed
    <3>2. Total(u)' = 0
      <4>1. CASE u \in finished
        <5>1. One(Runs(u)) = 0 /\ One(Runs(u)') = 0 /\ Total(u) = 0
          BY <1>6, <2>1, <4>1 DEF One, Placed
        <5> QED BY <1>6, <5>1
      <4>2. CASE u \notin finished
        <5>1. One(Runs(u)) = 1 /\ One(Runs(u)') = 0 /\ Total(u) = 1
          BY <1>6, <2>1, <2>2, <3>1, <4>2 DEF One, Placed
        <5> QED BY <1>6, <5>1
      <4> QED BY <4>1, <4>2
    <3> QED BY <3>1, <3>2 DEF Placed
  <2>3. CASE u # cur
    <3>1. Total(u)' = Total(u) /\ (Extra(u)' <=> Extra(u))
      BY <1>6, <1>7, <2>3
    <3>2. u \in created' \ finished' <=> u \in created \ finished
      BY <1>3, <2>3
    <3> QED BY <2>1, <3>1, <3>2 DEF Placed, One
  <2> QED BY <2>2, <2>3
<1>10. EndedTwice => EndedTwice'
  BY <1>3, <1>4, EndedStays
<1> QED BY <1>8, <1>9, <1>10 DEF PlacesOK


LEMMA OThreadEndsPlaces ==
    ASSUME IInv, OThreadEnds PROVE PlacesOK'
<1>1. Kept' /\ running = OThread /\ cur = OThread /\ Depth = 1
  BY OThreadEndsKeeps
<1>2. /\ Stacks /\ Stacks' /\ Typed /\ Typed' /\ Top.at = "loop" /\ PlacesOK
  BY <1>1 DEF OThreadEnds, At, Kept, IInv
<1>3. /\ UNCHANGED <<running, ready, away, created, cur>> /\ finished' = finished \union {OThread}
      /\ stack' = [stack EXCEPT ![cur] = <<[@[1] EXCEPT !.at = "astray"], Call("ready")>>]
  BY <1>1 DEF OThreadEnds, queues
<1>4. /\ Boot \in Threads /\ OThread \in Threads /\ Boot # OThread /\ OThread \notin Apps
      /\ OThread \in created /\ OThread \notin away
  BY <1>2, SwitchingAssumption DEF Threads, Typed
<1>5. /\ \A k \in Threads \ {OThread} : stack'[k] = stack[k]
      /\ Len(stack'[OThread]) = 2 /\ stack'[OThread][2].at = "r_sepc"
  <2> DEFINE f == [stack[cur][1] EXCEPT !.at = "astray"]
  <2>1. stack = [k \in Threads |-> stack[k]]
    BY <1>2 DEF Stacks
  <2>2. stack' = [stack EXCEPT ![OThread] = <<f, Call("ready")>>]
    BY <1>1, <1>3
  <2> HIDE DEF f
  <2>3. stack'[OThread] = <<f, Call("ready")>>
    BY <1>4, <2>1, <2>2
  <2>4. Call("ready").at = "r_sepc"
    BY DEF Call
  <2> QED BY <2>1, <2>2, <2>3, <2>4
<1>6. Len(stack[OThread]) = 1 /\ Top'.at = "r_sepc" /\ Depth' = 2
  BY <1>1, <1>3, <1>5 DEF Depth, Top
<1>7. ASSUME NEW u \in Threads
      PROVE  /\ Total(u)' + One(Runs(u)) = Total(u) /\ (Extra(u)' <=> Extra(u))
             /\ Runs(u) <=> u = OThread /\ u \notin finished
             /\ Total(u) \in Nat /\ Total(u)' \in Nat
  <2>1. (Holds(Boot, u)' <=> Holds(Boot, u)) /\ ~Holds(OThread, u) /\ ~Holds(OThread, u)'
    BY <1>4, <1>5, <1>6 DEF Holds
  <2>2. ~TopHolds(u) /\ ~TopHolds(u)'
    BY <1>2, <1>6 DEF TopHolds
  <2>3. Held(u)' = Held(u)
    BY <2>1, <2>2 DEF Held, One
  <2>4. Extra(u)' <=> Extra(u)
    <3>1. CASE u = OThread
      BY <1>5, <1>6, <3>1 DEF Extra
    <3>2. CASE u # OThread
      BY <1>5, <3>2 DEF Extra
    <3> QED BY <3>1, <3>2
  <2>5. (Runs(u) <=> u = OThread /\ u \notin finished) /\ ~Runs(u)'
    BY <1>1, <1>2, <1>3 DEF Runs
  <2>6. /\ Held(u) \in Nat /\ Count(ready, u) \in Nat /\ One(Runs(u)) \in {0, 1} /\ One(u \in away) \in {0, 1}
        /\ Total(u) = Count(ready, u) + Held(u) + One(Runs(u)) + One(u \in away)
        /\ Total(u)' = Count(ready', u) + Held(u)' + One(Runs(u)') + One(u \in away')
    BY <1>2, HeldIs, HeldsAreThen
  <2>7. One(Runs(u)') = 0 /\ One(u \in away') = One(u \in away)
    BY <1>3, <2>5 DEF One
  <2>8. Total(u)' + One(Runs(u)) = Total(u) /\ Total(u)' \in Nat /\ Total(u) \in Nat
    BY <1>3, <2>3, <2>6, <2>7
  <2> QED BY <2>4, <2>5, <2>8
<1>8. ~EndedTwice
  BY <1>1 DEF EndedTwice
<1>9. ASSUME NEW u \in Threads PROVE Placed(u)' /\ (u = OThread => Total(u)' = 0)
  <2>1. Placed(u)
    BY <1>2, <1>8 DEF PlacesOK
  <2>2. CASE u = OThread
    <3>1. ~Extra(u)
      BY <1>6, <2>2 DEF Extra
    <3>2. Total(u)' = 0
      <4>1. CASE u \in finished
        <5>1. One(Runs(u)) = 0 /\ Total(u) = 0
          BY <1>7, <2>1, <4>1 DEF One, Placed
        <5> QED BY <1>7, <5>1
      <4>2. CASE u \notin finished
        <5>1. One(Runs(u)) = 1 /\ Total(u) = 1
          BY <1>4, <1>7, <2>1, <2>2, <3>1, <4>2 DEF One, Placed
        <5> QED BY <1>7, <5>1
      <4> QED BY <4>1, <4>2
    <3>3. u \in finished'
      BY <1>3, <2>2
    <3> QED BY <3>2, <3>3 DEF Placed
  <2>3. CASE u # OThread
    <3>1. One(Runs(u)) = 0
      BY <1>7, <2>3 DEF One
    <3>2. Total(u)' = Total(u) /\ (Extra(u)' <=> Extra(u))
      BY <1>7, <3>1
    <3>3. u \in created' \ finished' <=> u \in created \ finished
      BY <1>3, <2>3
    <3> QED BY <2>1, <2>3, <3>2, <3>3 DEF Placed, One
  <2> QED BY <2>2, <2>3
<1> QED BY <1>1, <1>3, <1>4, <1>9 DEF PlacesOK

LEMMA ContextSwitchPlaces ==
    ASSUME IInv, ContextSwitch PROVE PlacesOK'
<1>1. /\ Shape /\ Stacks /\ Typed /\ cur \in Threads /\ running \in Threads
      /\ Top.at = "switch" /\ IsCall(Top)
  BY SwitchIs
<1>2. Kept' /\ Stacks' /\ Typed' /\ PlacesOK
  BY ContextSwitchKeeps DEF Kept, IInv
<1> DEFINE f == [Top EXCEPT !.at = "w_sstatus", !.old = NoThread, !.next = NoThread]
<1> DEFINE r == [stack[cur] EXCEPT ![Depth] = f]
<1>3. /\ r[Len(r)] = f /\ f.at = "w_sstatus" /\ Len(r) = Depth /\ Depth \in Nat /\ Depth >= 2
      /\ Depth > 2 => r[2] = stack[cur][2]
  BY <1>1, Saved
<1>4. Switched(r)
  BY WhoExecutes
<1> HIDE DEF r, f
<1>5. /\ cur' = (IF running = Top.old THEN cur ELSE running) /\ stack'[cur] = r
      /\ \A t \in Threads \ {cur} :
            \/ stack'[t] = stack[t] /\ (t = cur' => stack[t][Len(stack[t])].at = "w_sstatus" \/ t \notin Apps)
            \/ t = cur' /\ t \in Apps /\ stack'[t] = <<[at |-> "csrw", clean |-> ~sie /\ spp = "U"]>>
      /\ UNCHANGED <<running, ready, away, finished, created>>
  BY <1>4 DEF Switched
<1>6. Boot \in Threads /\ OThread \in Threads /\ Boot \notin Apps /\ OThread \notin Apps
  BY SwitchingAssumption DEF Threads
<1>7. \A k \in Threads : k # cur /\ k \notin Apps => stack'[k] = stack[k]
  BY <1>5
<1>8. ASSUME NEW k \in {Boot, OThread} PROVE SecondKept(k)
  <2>1. CASE k # cur
    BY <1>6, <1>7, <2>1 DEF SecondKept
  <2>2. CASE k = cur
    <3>1. stack'[k] = r /\ Depth = Len(stack[k]) /\ Top = stack[k][Depth]
      BY <1>5, <2>2 DEF Depth, Top
    <3>2. CASE Depth = 2
      <4>1. ~Mid(k)
        BY <1>1, <3>1, <3>2 DEF Mid
      <4>2. ~Mid(k)'
        <5>1. stack'[k][2].at = "w_sstatus"
          BY <1>3, <3>1, <3>2
        <5> QED BY <5>1 DEF Mid
      <4> QED BY <4>1, <4>2 DEF SecondKept
    <3>3. CASE Depth > 2
      BY <1>3, <2>2, <3>1, <3>3 DEF SecondKept
    <3> QED BY <1>3, <3>2, <3>3
  <2> QED BY <2>1, <2>2
<1>9. Top'.at \notin {"get", "set"}
  <2>1. CASE cur' = cur
    BY <1>3, <1>5, <2>1 DEF Top, Depth
  <2>2. CASE cur' # cur
    <3>1. cur' = running /\ cur' \in Threads \ {cur} /\ Top' = stack'[running][Len(stack'[running])]
      BY <1>1, <1>5, <2>2 DEF Top, Depth
    <3>2. CASE running \in Apps /\ stack'[running] = <<[at |-> "csrw", clean |-> ~sie /\ spp = "U"]>>
      <4> DEFINE b == [at |-> "csrw", clean |-> ~sie /\ spp = "U"]
      <4>1. b.at = "csrw" /\ stack'[running] = <<b>>
        BY <3>2
      <4> HIDE DEF b
      <4>2. Top' = b
        BY <3>1, <4>1
      <4> QED BY <4>1, <4>2
    <3>3. CASE stack'[running] = stack[running]
      <4>1. Waiting(running)
        BY <1>1, <3>1 DEF Shape
      <4>2. CASE Fresh(running)
        <5> DEFINE b == FirstFrame(running)
        <5>1. b.at \in {"csrw", "loop"}
          BY DEF FirstFrame
        <5>2. stack[running] = <<b>>
          BY <4>2 DEF Fresh
        <5> HIDE DEF b
        <5>3. Top' = b
          BY <3>1, <3>3, <5>2
        <5> QED BY <5>1, <5>3
      <4>3. CASE stack[running][Len(stack[running])].at = "w_sstatus"
        BY <3>1, <3>3, <4>3
      <4> QED BY <4>1, <4>2, <4>3 DEF Waiting
    <3> QED BY <1>5, <3>1, <3>2, <3>3
  <2> QED BY <2>1, <2>2
<1>10. ASSUME NEW t \in Threads PROVE Moves(t)
  <2>1. Total(t)' = Total(t) /\ (Extra(t)' <=> Extra(t))
    BY <1>1, <1>2, <1>5, <1>8, <1>9, QuietPlaces
  <2> QED BY <2>1 DEF Moves, One
<1>11. OThread \in finished /\ running = OThread => cur = OThread /\ cur' = OThread
  BY <1>2, <1>5 DEF PlacesOK
<1>12. EndedTwice => EndedTwice'
  <2>1. ASSUME EndedTwice PROVE EndedTwice'
    <3>1. OThread \in finished /\ Len(stack[OThread]) > 3 /\ cur # OThread
      BY <2>1 DEF EndedTwice
    <3>2. cur' # OThread
      BY <1>5, <1>11, <3>1
    <3>3. stack'[OThread] = stack[OThread]
      BY <1>6, <1>7, <3>1
    <3> QED BY <1>5, <3>1, <3>2, <3>3 DEF EndedTwice
  <2> QED BY <2>1
<1> QED BY <1>1, <1>2, <1>5, <1>10, <1>11, <1>12, PlacesMove

\* Something is broken: nothing changes.
LEMMA StutterKeeps ==
    ASSUME IInv, UNCHANGED vars PROVE IInv'
<1> USE DEF vars, csrs, sched, mem, sstatus, queues
<1>1. UNCHANGED <<mode, sie, spie, spp, sepc, running, ready, finished, created, away, broken,
                  cur, stack, context, hits>>
  OBVIOUS
<1>2. Typed'
  BY <1>1 DEF IInv, Typed, Fresh, FirstFrame
<1>3. Stacks'
  BY <1>1 DEF IInv, Stacks
<1>4. CleanOK'
  BY <1>1 DEF IInv, CleanOK, CleanStart, InBody
<1>5. Top' = Top /\ Depth' = Depth
  BY <1>1 DEF Top, Depth
<1>6. \A t : Total(t)' = Total(t) /\ (Placed(t)' <=> Placed(t))
  BY <1>1, <1>5 DEF Total, Count, One, Holds, TopHolds, Runs, Placed, Extra
<1>7. PlacesOK'
  BY <1>1, <1>6 DEF IInv, PlacesOK, EndedTwice
<1>8. Found'
  BY <1>1, <1>5 DEF IInv, Found
<1>9. (ContextsOK => Shape)'
  BY <1>1, <1>5 DEF IInv, ContextsOK, Shape, Waiting, Fresh, FirstFrame, Window, TrapCpu, InnerCpu,
                    KernelCpu, BaseCpu, RunningIs, Came
<1> QED BY <1>2, <1>3, <1>4, <1>7, <1>8, <1>9 DEF IInv


-----------------------------------------------------------------------------
\* The invariant.

LEMMA OrderOfThreads ==
    ASSUME NEW S, IsFiniteSet(S), NEW q \in SetToSeqs(S)
    PROVE  q \in Seq(S) /\ IsInjective(q) /\ Range(q) = S
<1> DEFINE n == Cardinality(S)
<1>1. n \in Nat
  BY FS_CardinalityType
<1>2. q \in [1..n -> S] /\ \A i, j \in 1..n : i # j => q[i] # q[j]
  BY DEF SetToSeqs
<1>3. IsFiniteSet(1..n) /\ Cardinality(1..n) = n
  <2> HIDE DEF n
  <2> QED BY <1>1, FS_Interval
<1>4. n = Cardinality(S)
  OBVIOUS
<1> HIDE DEF n
<1>5. IsInjective(q)
  BY <1>2 DEF IsInjective
<1>6. q \in Injection(1..n, S)
  BY <1>2, <1>5 DEF Injection
<1>7. q \in Surjection(1..n, S)
  BY <1>3, <1>4, <1>6, FS_Injection
<1>8. Range(q) = S
  BY <1>2, <1>7 DEF Surjection, Range
<1>9. q \in Seq(S)
  BY <1>1, <1>2
<1> QED BY <1>5, <1>8, <1>9

LEMMA FirstQueue ==
    ASSUME Init
    PROVE  /\ ready \in Seq(created) /\ IsInjective(ready)
           /\ Range(ready) = {OThread} \union (Apps \ Workers)
<1> DEFINE S == Apps \ Workers
<1>1. PICK q \in SetToSeqs(S) : ready = <<OThread>> \o q
  BY DEF Init
<1>2. IsFiniteSet(S) /\ OThread \notin S
  BY SwitchingAssumption, FS_Subset
<1>3. created = Threads \ Workers /\ S \subseteq created /\ OThread \in created
  BY SwitchingAssumption DEF Init, Threads
<1> HIDE DEF S
<1>4. q \in Seq(S) /\ IsInjective(q) /\ Range(q) = S
  BY <1>2, OrderOfThreads
<1>5. q \in Seq(created)
  BY <1>3, <1>4
<1> DEFINE p == <<OThread>>
<1>6. p \in Seq(created) /\ Range(p) = {OThread} /\ IsInjective(p)
  BY <1>3 DEF Range, IsInjective
<1> HIDE DEF p
<1>7. Range(p) \intersect Range(q) = {}
  BY <1>2, <1>4, <1>6
<1>8. /\ p \o q \in Seq(created) /\ Range(p \o q) = Range(p) \union Range(q) /\ IsInjective(p \o q)
  BY <1>4, <1>5, <1>6, <1>7, AllPut
<1> QED BY <1>1, <1>4, <1>6, <1>8 DEF p, S

LEMMA InitInvariant ==
    Init => IInv
<1>1. SUFFICES ASSUME Init PROVE IInv
  OBVIOUS
<1>2. /\ mode = "S" /\ sie = TRUE /\ spie = FALSE /\ spp = "U" /\ sepc = NoPlace
      /\ running = Boot /\ cur = Boot /\ created = Threads \ Workers /\ finished = {} /\ away = {}
      /\ broken = FALSE /\ stack = [t \in Threads |-> <<FirstFrame(t)>>]
      /\ context = [t \in Threads |-> t] /\ hits = 0
  BY <1>1 DEF Init
<1>3. /\ Boot \in Threads /\ OThread \in Threads /\ Boot # OThread /\ Boot \notin Apps /\ OThread \notin Apps
      /\ Workers \subseteq Apps /\ Apps \subseteq Threads /\ MaxHits \in Nat
  BY SwitchingAssumption DEF Threads
<1>4. /\ ready \in Seq(created) /\ IsInjective(ready)
      /\ Range(ready) = {OThread} \union (Apps \ Workers)
  BY <1>1, FirstQueue
<1>5. ASSUME NEW t \in Threads
      PROVE  /\ Fresh(t) /\ Len(stack[t]) = 1 /\ stack[t][1] = FirstFrame(t)
             /\ StackOK(t, stack[t], created)
  <2> DEFINE b == FirstFrame(t)
  <2>1. BaseOK(t, b) /\ b \in Frames(created)
    BY DEF BaseOK, BaseFrames, BasePlaces, FirstFrame, Frames
  <2>2. stack[t] = <<b>> /\ Fresh(t)
    BY <1>2 DEF Fresh
  <2> HIDE DEF b
  <2> DEFINE s == <<b>>
  <2>3. Len(s) = 1 /\ s[1] = b /\ s \in Seq(Frames(created)) /\ s # <<>>
    BY <2>1
  <2> HIDE DEF s
  <2>4. (\A i \in 2..Len(s) : FALSE) /\ (\A i \in 2..(Len(s) - 1) : FALSE)
    BY <2>3
  <2>5. StackOK(t, s, created)
    BY <2>1, <2>3, <2>4 DEF StackOK
  <2> QED BY <2>2, <2>3, <2>5 DEF s, b
<1>6. Depth = 1 /\ Top = FirstFrame(Boot) /\ Top.at = "loop"
  <2>1. Depth = 1 /\ Top = FirstFrame(Boot)
    BY <1>2, <1>3, <1>5 DEF Depth, Top
  <2> QED BY <1>3, <2>1 DEF FirstFrame
<1>7. Typed
  <2>1. hits \in 0..MaxHits
    BY <1>2, <1>3
  <2>2. context \in [Threads -> Threads]
    BY <1>2
  <2> QED BY <1>2, <1>3, <1>4, <1>5, <2>1, <2>2 DEF Typed
<1>8. Stacks
  BY <1>2, <1>5 DEF Stacks
<1>9. CleanOK
  <2>1. ASSUME NEW t \in Apps PROVE stack[t][1].clean = FALSE
    <3>1. stack[t][1] = FirstFrame(t)
      BY <1>3, <1>5
    <3> QED BY <3>1 DEF FirstFrame
  <2> QED BY <2>1 DEF CleanOK
<1>10. PlacesOK
  <2>1. ASSUME NEW t \in Threads PROVE Placed(t)
    <3>1. ~Holds(Boot, t) /\ ~Holds(OThread, t) /\ ~Extra(t)
      BY <1>3, <1>5 DEF Holds, Extra
    <3>2. ~TopHolds(t) /\ (Runs(t) <=> t = Boot) /\ t \notin away
      BY <1>2, <1>6 DEF TopHolds, Runs
    <3>3. Count(ready, t) = One(t \in Range(ready))
      BY <1>4, CountIs
    <3>4. One(t \in Range(ready)) + One(t = Boot) = One(t \in created)
      <4>1. t \in created <=> t = Boot \/ t \in Range(ready)
        BY <1>2, <1>3, <1>4 DEF Threads
      <4>2. ~(t = Boot /\ t \in Range(ready))
        BY <1>3, <1>4
      <4> QED BY <4>1, <4>2 DEF One
    <3>5. Total(t) = One(t \in Range(ready)) + One(t = Boot)
      <4>1. One(Holds(Boot, t)) = 0 /\ One(Holds(OThread, t)) = 0 /\ One(TopHolds(t)) = 0
            /\ One(t \in away) = 0 /\ One(Runs(t)) = One(t = Boot)
            /\ One(t \in Range(ready)) \in {0, 1} /\ One(t = Boot) \in {0, 1}
        BY <3>1, <3>2 DEF One
      <4> QED BY <3>3, <4>1 DEF Total
    <3>6. One(Extra(t)) = 0
      BY <3>1 DEF One
    <3> QED BY <1>2, <3>4, <3>5, <3>6 DEF Placed, One
  <2> QED BY <1>2, <2>1 DEF PlacesOK
<1>11. Found
  BY <1>2 DEF Found
<1>12. Shape
  <2>1. \A t \in Threads \ {cur} : Waiting(t) /\ (Window(t) => stack[t][2].next = t)
    BY <1>5 DEF Waiting, Window
  <2>2. ~Window(cur)
    BY <1>2, <1>3, <1>5 DEF Window
  <2>3. TrapCpu /\ InnerCpu
    BY <1>6 DEF TrapCpu, InnerCpu, IsTrap, IsCall, TrapPlaces, CallPlaces
  <2>4. KernelCpu /\ BaseCpu /\ RunningIs
    BY <1>2, <1>6, <2>2 DEF KernelCpu, BaseCpu, RunningIs
  <2> QED BY <2>1, <2>3, <2>4 DEF Shape
<1> QED BY <1>7, <1>8, <1>9, <1>10, <1>11, <1>12 DEF IInv

LEMMA StepInvariant ==
    IInv /\ [Next]_vars => IInv'
<1>1. SUFFICES ASSUME IInv, [Next]_vars PROVE IInv'
  OBVIOUS
<1>2. Kept' /\ PlacesOK' => IInv'
  BY DEF Kept, IInv
<1>3. CASE ReadSepc
  BY <1>1, <1>2, <1>3, ReadSepcKeeps, CallPlacesKept
<1>4. CASE ReadSstatus
  BY <1>1, <1>2, <1>4, ReadSstatusKeeps, CallPlacesKept
<1>5. CASE Put
  BY <1>1, <1>2, <1>5, PutKeeps, PutPlaces
<1>6. CASE Get
  BY <1>1, <1>2, <1>6, GetKeeps, GetPlaces
<1>7. CASE SetRunning
  BY <1>1, <1>2, <1>7, SetRunningKeeps, SetRunningPlaces
<1>8. CASE ContextSwitch
  BY <1>1, <1>2, <1>8, ContextSwitchKeeps, ContextSwitchPlaces
<1>9. CASE WriteSstatus
  BY <1>1, <1>2, <1>9, WriteSstatusKeeps, CallPlacesKept
<1>10. CASE WriteSepc
  BY <1>1, <1>2, <1>10, WriteSepcKeeps, WriteSepcPlaces
<1>11. CASE HandlerEnds
  BY <1>1, <1>2, <1>11, HandlerEndsKeeps, CallPlacesKept
<1>12. CASE TrapReturns
  BY <1>1, <1>2, <1>12, TrapReturnsKeeps, TrapReturnsPlaces
<1>13. CASE KernelThreadDispatches
  BY <1>1, <1>2, <1>13, KernelThreadDispatchesKeeps, KernelThreadDispatchesPlaces
<1>14. CASE OThreadEnds
  BY <1>1, <1>2, <1>14, OThreadEndsKeeps, OThreadEndsPlaces
<1>15. CASE SetReturnAddress
  BY <1>1, <1>2, <1>15, SetReturnAddressKeeps, BasePlacesKept
<1>16. CASE DropPrivilege
  BY <1>1, <1>2, <1>16, DropPrivilegeKeeps, BasePlacesKept
<1>17. CASE IllegalSret
  BY <1>1, <1>2, <1>17, IllegalSretKeeps, TrapPlacesKept
<1>18. CASE Compute
  BY <1>1, <1>2, <1>18, ComputeKeeps, BasePlacesKept
<1>19. CASE \E to \in {"ready", "away"} : EcallSwitches(to)
  <2>1. PICK to \in {"ready", "away"} : EcallSwitches(to)
    BY <1>19
  <2>2. EcallSwitches("ready") \/ EcallSwitches("away")
    BY <2>1
  <2> QED BY <1>1, <1>2, <2>1, <2>2, EcallSwitchesKeeps, TrapPlacesKept
<1>20. CASE EcallExit
  BY <1>1, <1>2, <1>20, EcallExitKeeps, EcallExitPlaces
<1>21. CASE \E t \in Workers : EcallCreates(t)
  BY <1>1, <1>2, <1>21, EcallCreatesKeeps, EcallCreatesPlaces
<1>22. CASE \E woken \in Woken : EcallGoesOn(woken)
  BY <1>1, <1>2, <1>22, EcallGoesOnKeeps, WakingPlaces
<1>23. CASE \E woken \in Woken, sliceEnds \in BOOLEAN : Interrupt(woken, sliceEnds)
  <2>1. PICK woken \in Woken, sliceEnds \in BOOLEAN : Interrupt(woken, sliceEnds)
    BY <1>23
  <2> QED BY <1>1, <1>2, <2>1, InterruptKeeps, WakingPlaces
<1>24. CASE Lost \/ UNCHANGED vars
  BY <1>1, <1>24, StutterKeeps DEF Lost
<1> QED BY <1>1, <1>3, <1>4, <1>5, <1>6, <1>7, <1>8, <1>9, <1>10, <1>11, <1>12, <1>13, <1>14,
           <1>15, <1>16, <1>17, <1>18, <1>19, <1>20, <1>21, <1>22, <1>23, <1>24
           DEF Next, KDispatchStep


\* The invariant holds in every reachable state: every stack is the base frame of
\* its thread with traps and dispatches in order, the registers are those of the
\* innermost one, and every live thread is in exactly the places of Total.
THEOREM SwitchingInvariant == Spec => []IInv
  BY InitInvariant, StepInvariant, PTL DEF Spec

-----------------------------------------------------------------------------
\* What follows from the invariant.

\* The state has its type: the queues hold created threads, and the frames on the
\* stacks are those of a thread, a trap or a kDispatch().
THEOREM SwitchingIsTyped == Spec => []TypeOK
<1>1. IInv => TypeOK
  <2>1. SUFFICES ASSUME IInv PROVE TypeOK
    OBVIOUS
  <2>2. Typed /\ Stacks
    BY <2>1 DEF IInv
  <2>3. Frames(created) \subseteq Base \union Trap \union Dispatch
    <3>1. BaseFrames \subseteq Base
      BY DEF BaseFrames, BasePlaces, Base, Places
    <3>2. TrapFrames \subseteq Trap
      BY DEF TrapFrames, TrapPlaces, Trap, Places
    <3>3. CallFrames(created) \subseteq Dispatch
      <4>1. created \subseteq Threads /\ CallPlaces \subseteq Places
        BY <2>2 DEF Typed, CallPlaces, Places
      <4> QED BY <4>1 DEF CallFrames, Dispatch
    <3> QED BY <3>1, <3>2, <3>3 DEF Frames
  <2>4. stack \in [Threads -> Seq(Base \union Trap \union Dispatch)]
    <3> DEFINE F == Base \union Trap \union Dispatch
    <3>1. ASSUME NEW t \in Threads PROVE stack[t] \in Seq(F)
      <4>1. stack[t] \in Seq(Frames(created))
        BY <2>2, StackIs
      <4> HIDE DEF F
      <4> QED BY <2>3, <4>1 DEF F
    <3>2. stack = [t \in Threads |-> stack[t]]
      BY <2>2 DEF Stacks
    <3> HIDE DEF F
    <3> QED BY <3>1, <3>2 DEF F
  <2>5. ready \in Seq(Threads) /\ {away, finished} \subseteq SUBSET created
    BY <2>2 DEF Typed
  <2> QED BY <2>2, <2>4, <2>5 DEF Typed, TypeOK
<1> QED BY <1>1, SwitchingInvariant, PTL

\* sret of supervisorTrap leaves for the interrupted instruction, or the one behind
\* the ecall, in the mode and with the interrupt enable bit of the interrupted code:
\* sstatus is restored before sepc, and what a tick in between finds in sepc is what
\* it restores.
THEOREM TrapsReturn == Spec => []TrapsReturnAsTheyCame
<1>1. IInv => TrapsReturnAsTheyCame
  <2>1. SUFFICES ASSUME IInv, At("leave") PROVE TrapsReturnAsTheyCame
    BY DEF TrapsReturnAsTheyCame
  <2>2. Shape /\ Top.at = "leave" /\ IsTrap(Top)
    BY <2>1, AtIs DEF IsTrap, TrapPlaces
  <2>3. /\ spp = Top.from /\ spie = Top.sie
        /\ sepc = IF Top.cause = "ecall" THEN PastEcall(Came(Depth)) ELSE Came(Depth)
    BY <2>2 DEF Shape, TrapCpu
  <2> QED BY <2>3 DEF TrapsReturnAsTheyCame, Came
<1> QED BY <1>1, SwitchingInvariant, PTL

\* popSppSpie() reached from a trap out of user mode, with interrupts disabled and
\* SPP clear, starts the body in user mode, and every trap of that thread returns
\* there.
THEOREM CleanStartsStay == Spec => []CleanStartsStayInUserMode
<1>1. IInv => CleanStartsStayInUserMode
  <2>1. SUFFICES ASSUME IInv, NEW t \in Apps, stack[t][1].clean
                 PROVE  /\ cur = t /\ Len(stack[t]) = 1 /\ mode = "U" => InBody(t)
                        /\ cur = t /\ Len(stack[t]) = 1 /\ InBody(t) => mode = "U"
                        /\ Len(stack[t]) > 1 /\ InBody(t) => stack[t][2].from = "U"
    BY DEF CleanStartsStayInUserMode
  <2>2. CleanStart(t)
    BY <2>1 DEF IInv, CleanOK
  <2>3. stack[t][1].at \in {"csrw", "sret", "compute", "ecall"}
    BY <2>1 DEF IInv, Stacks, StackOK, BaseOK, Threads
  <2> QED BY <2>1, <2>2, <2>3 DEF CleanStart, InBody
<1> QED BY <1>1, SwitchingInvariant, PTL

LEMMA TakenAre ==
    ASSUME NEW t \in Threads, NEW i \in DOMAIN stack[t], stack[t][i].at \in {"set", "switch"}
    PROVE  stack[t][i].next \in Taken
<1> DEFINE f == stack[t][i]
<1>1. f \in Range(stack[t])
  BY DEF Range
<1> HIDE DEF f
<1>2. f \in UNION {Range(stack[u]) : u \in Threads} /\ f.at \in {"set", "switch"}
  BY <1>1 DEF f
<1> QED BY <1>2 DEF Taken, f

LEMMA PlacesFound ==
    ASSUME IInv, NEW t \in Threads, Total(t) # 0
    PROVE  t \in {cur} \union Range(ready) \union away \union Taken
<1>1. Typed /\ Stacks /\ Found /\ cur \in Threads /\ ready \in Seq(created)
  BY DEF IInv, Typed
<1>2. \A k \in Threads : Len(stack[k]) \in Nat /\ DOMAIN stack[k] = 1..Len(stack[k])
  <2>1. \A k \in Threads : stack[k] \in Seq(Frames(created))
    BY <1>1, StackIs
  <2> QED BY <2>1
<1>3. \A k \in Threads : Len(stack[k]) > 1 => 2 \in DOMAIN stack[k]
  <2>1. \A n \in Nat : n > 1 => 2 \in 1..n
    OBVIOUS
  <2> QED BY <1>2, <2>1
<1>4. Depth \in DOMAIN stack[cur] /\ Top = stack[cur][Depth]
  <2>1. Depth \in Nat \ {0}
    BY <1>1, DepthsAre
  <2> QED BY <1>1, <1>2, <2>1 DEF Depth, Top
<1>5. \/ Count(ready, t) # 0 \/ Holds(Boot, t) \/ Holds(OThread, t) \/ TopHolds(t)
      \/ Runs(t) \/ t \in away
  <2>1. SUFFICES ASSUME Count(ready, t) = 0, ~Holds(Boot, t), ~Holds(OThread, t), ~TopHolds(t),
                        ~Runs(t), t \notin away
                 PROVE  Total(t) = 0
    OBVIOUS
  <2> QED BY <2>1 DEF Total, One
<1>6. Count(ready, t) # 0 => t \in Range(ready)
  BY <1>1, CountIs
<1>7. Holds(Boot, t) \/ Holds(OThread, t) => t \in Taken
  BY <1>3, TakenAre DEF Holds, Threads
<1>8. TopHolds(t) => t \in Taken
  BY <1>1, <1>4, TakenAre DEF TopHolds
<1>9. Runs(t) => t = cur \/ t \in Taken
  BY <1>1, <1>3, <1>4, TakenAre DEF Runs, Found
<1> QED BY <1>5, <1>6, <1>7, <1>8, <1>9

\* Ticks may come anywhere in kDispatch() of the boot and the output thread: no live
\* thread is forgotten until such a tick has ended the slice of the dead output
\* thread; in the ready queue an application thread is once, one of the two other
\* threads at most twice, a finished one never.
THEOREM NobodyForgotten == Spec => []NobodyIsForgotten
<1>1. IInv => NobodyIsForgotten
  <2>1. SUFFICES ASSUME IInv, ~EndedTwice PROVE NobodyIsForgotten
    BY DEF NobodyIsForgotten
  <2>2. Typed /\ (\A t \in Threads : Placed(t)) /\ created \subseteq Threads
    BY <2>1 DEF IInv, PlacesOK, Typed
  <2>3. ASSUME NEW t \in Threads
        PROVE  /\ Count(ready, t) <= (IF t \in finished THEN 0 ELSE IF t \in Apps THEN 1 ELSE 2)
               /\ t \in away => t \notin finished /\ Count(ready, t) = 0
               /\ t \in created \ finished => Total(t) # 0
    <3>1. Count(ready, t) \in Nat /\ Held(t) \in Nat /\ One(Runs(t)) \in {0, 1} /\ One(t \in away) \in {0, 1}
          /\ Total(t) = Count(ready, t) + Held(t) + One(Runs(t)) + One(t \in away)
      BY <2>2, HeldIs
    <3>2. Total(t) = IF t \in created \ finished THEN 1 + One(Extra(t)) ELSE 0
      BY <2>2 DEF Placed
    <3>3. One(Extra(t)) \in {0, 1} /\ (t \in Apps => One(Extra(t)) = 0)
          /\ (t \in away => One(t \in away) = 1 /\ t \in Apps)
      BY <2>2 DEF One, Extra, Typed
    <3>4. Count(ready, t) <= Total(t)
      BY <3>1
    <3>5. CASE t \notin created \ finished
      <4>1. Total(t) = 0
        BY <3>2, <3>5
      <4>2. Count(ready, t) = 0 /\ One(t \in away) = 0
        BY <3>1, <4>1
      <4> QED BY <3>3, <3>5, <4>2
    <3>6. CASE t \in created \ finished
      <4>1. Total(t) = 1 + One(Extra(t))
        BY <3>2, <3>6
      <4>2. Total(t) # 0 /\ Count(ready, t) <= 2 /\ (t \in Apps => Total(t) = 1)
        BY <3>1, <3>3, <3>4, <4>1
      <4>3. t \in Apps => Count(ready, t) <= 1
        BY <3>4, <4>2
      <4>4. t \in away => Count(ready, t) = 0
        BY <3>1, <3>3, <4>2
      <4> QED BY <3>6, <4>2, <4>3, <4>4
    <3> QED BY <3>5, <3>6
  <2>4. created \ finished \subseteq {cur} \union Range(ready) \union away \union Taken
    BY <2>1, <2>2, <2>3, PlacesFound
  <2>5. away \intersect (finished \union Range(ready)) = {}
    <3>1. \A t \in away : t \in Threads /\ ready \in Seq(created)
      BY <2>2 DEF Typed
    <3> QED BY <2>3, <3>1, CountIs
  <2> QED BY <2>3, <2>4, <2>5 DEF NobodyIsForgotten, Count
<1> QED BY <1>1, SwitchingInvariant, PTL

-----------------------------------------------------------------------------
\* What breaks.

\* Only the outer dispatch of a kernel thread can be interrupted while it puts or
\* gets a thread.
LEMMA ListsBreak ==
    ASSUME IInv, Shape, UsesLists, broken'
    PROVE  \E t \in {Boot, OThread} : Len(stack[t]) > 2 /\ stack[t][2].at \in {"put", "get"}
<1>0. PICK t \in Threads : \E i \in DOMAIN stack[t] :
         <<t, i>> # <<cur, Depth>> /\ stack[t][i].at \in {"put", "get"}
  BY DEF UsesLists
<1>1. PICK i \in DOMAIN stack[t] :
         <<t, i>> # <<cur, Depth>> /\ stack[t][i].at \in {"put", "get"}
  BY <1>0
<1> DEFINE s == stack[t]
<1> DEFINE n == Len(s)
<1>2. /\ Stacks /\ StackOK(t, s, created) /\ s \in Seq(Frames(created)) /\ n \in Nat \ {0}
      /\ s[1].at \in BasePlaces
  BY <1>1, StackIs DEF IInv, Stacks
<1>3. i \in 1..n /\ s[i].at \in {"put", "get"} /\ ~(t = cur /\ i = n)
  BY <1>1, <1>2 DEF Depth
<1>4. i # 1
  BY <1>2, <1>3 DEF BasePlaces
<1>5. i # n
  <2>1. ASSUME i = n PROVE FALSE
    <3>1. Waiting(t)
      BY <1>1, <1>3, <2>1 DEF Shape
    <3>2. ~Fresh(t)
      <4>1. Len(<<FirstFrame(t)>>) = 1
        OBVIOUS
      <4> QED BY <1>4, <2>1, <4>1 DEF Fresh
    <3> QED BY <1>3, <2>1, <3>1, <3>2 DEF Waiting
  <2> QED BY <2>1
<1> HIDE DEF n
<1>6. i \in 2..(n - 1) /\ i \in 2..n /\ n > 2
  BY <1>2, <1>3, <1>4, <1>5
<1>7. Covered(s, i) /\ FrameOK(t, s, i, created)
  BY <1>2, <1>6 DEF StackOK, n
<1>8. IsCall(s[i]) /\ ~IsTrap(s[i])
  BY <1>3 DEF IsCall, IsTrap, CallPlaces, TrapPlaces
<1>9. i = 2
  <2>1. ~(i > 2)
    BY <1>3, <1>7, <1>8 DEF Covered
  <2> QED BY <1>6, <2>1
<1>10. CallOK(t, s, i, created)
  BY <1>7, <1>8 DEF FrameOK, TrapOK, TrapFrames, IsTrap
<1>11. t \notin Apps
  BY <1>9, <1>10 DEF CallOK, InnerOK, OuterOK
<1> QED BY <1>1, <1>3, <1>6, <1>9, <1>11, ThreadsAre DEF n

\* Which steps touch lists and contexts.
LEMMA ListsAndContexts ==
    ASSUME [Next]_vars
    PROVE  \/ UNCHANGED vars
           \/ ContextSwitch /\ ~broken'
           \/ context' = context /\ Intact /\ (~broken' \/ UsesLists)
<1> USE DEF csrs, sched, mem, queues, At, Intact
<1>1. CASE ReadSepc \/ ReadSstatus \/ SetRunning \/ WriteSstatus \/ WriteSepc
  BY <1>1 DEF ReadSepc, ReadSstatus, SetRunning, WriteSstatus, WriteSepc
<1>2. CASE Put \/ Get
  BY <1>2 DEF Put, Get
<1>3. CASE ContextSwitch
  BY <1>3 DEF ContextSwitch
<1>4. CASE HandlerEnds \/ TrapReturns \/ DropPrivilege
  BY <1>4 DEF HandlerEnds, TrapReturns, DropPrivilege, Sret
<1>5. CASE KernelThreadDispatches \/ OThreadEnds \/ SetReturnAddress \/ Compute
  BY <1>5 DEF KernelThreadDispatches, OThreadEnds, SetReturnAddress, Compute
<1>6. CASE IllegalSret \/ EcallExit \/ \E to \in {"ready", "away"} : EcallSwitches(to)
  BY <1>6 DEF IllegalSret, EcallExit, EcallSwitches, Enter
<1>7. CASE \/ \E t \in Workers : EcallCreates(t)
           \/ \E woken \in Woken : EcallGoesOn(woken)
  BY <1>7 DEF EcallCreates, EcallGoesOn, Enter
<1>8. CASE \E woken \in Woken, sliceEnds \in BOOLEAN : Interrupt(woken, sliceEnds)
  BY <1>8 DEF Interrupt, Enter
<1>9. CASE Lost \/ UNCHANGED vars
  BY <1>9 DEF Lost
<1> QED BY <1>1, <1>2, <1>3, <1>4, <1>5, <1>6, <1>7, <1>8, <1>9 DEF Next, KDispatchStep

\* A context is overwritten with that of another thread only by contextSwitch() of
\* a dispatch in a tick that came between running = next and contextSwitch() of the
\* boot or the output thread; lists and heap are entered a second time only while
\* one of these two is inside put() or get().
THEOREM BreaksInWindows == Spec => BreaksOnlyInWindows
<1>1. IInv /\ [Next]_vars =>
        [/\ context' # context /\ ~Intact' =>
             cur \in {Boot, OThread} /\ stack[cur][2].at = "switch"
         /\ broken' => \E t \in {Boot, OThread} :
             Len(stack[t]) > 2 /\ stack[t][2].at \in {"put", "get"}]_vars
  <2>1. SUFFICES ASSUME IInv, [Next]_vars, ~UNCHANGED vars
                 PROVE  /\ context' # context /\ ~Intact' =>
                             cur \in {Boot, OThread} /\ stack[cur][2].at = "switch"
                        /\ broken' => \E t \in {Boot, OThread} :
                             Len(stack[t]) > 2 /\ stack[t][2].at \in {"put", "get"}
    OBVIOUS
  <2>2. CASE ContextSwitch /\ ~broken'
    <3>1. /\ Typed /\ cur \in Threads /\ Stacks /\ IsCall(Top)
          /\ Depth = 2 => cur \notin Apps /\ Top.old = cur /\ ~Window(cur)
          /\ Depth > 2 => Top.old = IF Window(cur) THEN stack[cur][2].next ELSE cur
      BY <2>1, <2>2, SwitchIs
    <3>2. Depth = 2 \/ Depth > 2
      <4>1. Depth \in Nat /\ Depth >= 2
        BY <3>1, CallIs
      <4> QED BY <4>1
    <3>3. ASSUME context' # context PROVE Window(cur)
      <4>1. SUFFICES ASSUME ~Window(cur) PROVE context' = context
        BY <3>3
      <4>2. Top.old = cur
        BY <3>1, <3>2, <4>1
      <4>3. context' = [context EXCEPT ![cur] = cur] /\ context[cur] = cur
            /\ context \in [Threads -> Threads]
        BY <2>2, <3>1, <4>2 DEF ContextSwitch, SavedContext, At, Intact, Typed
      <4> QED BY <4>3
    <3> QED BY <2>2, <3>1, <3>3, ThreadsAre DEF Window
  <2>3. CASE context' = context /\ Intact /\ (~broken' \/ UsesLists)
    <3>1. Shape
      BY <2>1, <2>3 DEF IInv, Intact, ContextsOK
    <3> QED BY <2>1, <2>3, <3>1, ListsBreak
  <2> QED BY <2>1, <2>2, <2>3, ListsAndContexts
<1> QED BY <1>1, SwitchingInvariant, PTL DEF Spec, BreaksOnlyInWindows


==============================================================================
