--------------------------- MODULE SwitchingStacks ---------------------------
(***************************************************************************)
(* The inductive invariant of Switching, and that every step keeps the     *)
(* part of it about stacks and registers. SwitchingProofs has the rest:    *)
(* the places of the threads, the initial states and the theorems.         *)
(***************************************************************************)
EXTENDS Switching, QueueLemmas, FiniteSetTheorems

-----------------------------------------------------------------------------
\* The inductive invariant: stacks.

TrapPlaces == {"return", "leave"}
CallPlaces ==
    {"r_sepc", "r_sstatus", "put", "get", "set", "switch", "w_sstatus", "w_sepc"}
BasePlaces == {"loop", "csrw", "sret", "compute", "ecall", "astray"}

BaseFrames == [at : BasePlaces, clean : BOOLEAN]
TrapFrames == [at : TrapPlaces, cause : {"ecall", "interrupt", "illegal"},
               from : {"U", "S"}, sie : BOOLEAN]
CallFrames(made) ==
    [at : CallPlaces, to : {"ready", "away"}, ksepc : SepcValues \union {NoPlace},
     ksstatus : {<<>>} \union (BOOLEAN \X BOOLEAN \X {"U", "S"}),
     old : made \union {NoThread}, next : made \union {NoThread}]
Frames(made) == BaseFrames \union TrapFrames \union CallFrames(made)

IsTrap(f) == f.at \in TrapPlaces
IsCall(f) == f.at \in CallPlaces

BaseOK(t, f) ==
    /\ f \in BaseFrames
    /\ f.at \in IF t \in Apps THEN {"csrw", "sret", "compute", "ecall"} ELSE {"loop", "astray"}

\* A trap interrupts a thread or a dispatch, never another trap; kernel code is
\* in supervisor mode.
TrapOK(t, s, i) ==
    /\ s[i] \in TrapFrames
    /\ ~IsTrap(s[i-1])
    /\ s[i].cause = "ecall" => s[i-1].at = "ecall"
    /\ IsCall(s[i-1]) \/ t \notin Apps \/ s[i-1].at = "csrw" => s[i].from = "S"

\* A dispatch in a trap has saved what the trap is to restore.
InnerOK(t, s, i) ==
    /\ i > 2 /\ s[i-1].at = "return"
    /\ s[i].at # "r_sepc" => s[i].ksepc = [of |-> t, at |-> s[i-2].at]
    /\ s[i].at \notin {"r_sepc", "r_sstatus"} =>
          s[i].ksstatus = <<FALSE, s[i-1].sie, s[i-1].from>>

\* A dispatch outside traps.
OuterOK(t, s, i) ==
    /\ i = 2 /\ t \notin Apps
    /\ s[i].at \in {"put", "get", "set", "switch"} => s[i].old = t
    /\ s[i].at \notin {"r_sepc", "r_sstatus"} => s[i].ksstatus # <<>>

CallOK(t, s, i, made) ==
    /\ s[i] \in CallFrames(made)
    /\ s[i].to = "away" => t \in Apps
    /\ s[i].at \in {"set", "switch"} => s[i].next \in made
    /\ s[i].at \in {"put", "get", "set", "switch"} => s[i].old \in made
    /\ InnerOK(t, s, i) \/ OuterOK(t, s, i)

FrameOK(t, s, i, made) == TrapOK(t, s, i) \/ CallOK(t, s, i, made)

\* What a frame may be at when another one is on top of it: only at w_sstatus can
\* a trap's dispatch be resumed with interrupts enabled.
Covered(s, i) ==
    /\ IsTrap(s[i]) => s[i].at = "return"
    /\ IsCall(s[i]) /\ i > 2 => s[i].at = "w_sstatus"

StackOK(t, s, made) ==
    /\ s \in Seq(Frames(made)) /\ s # <<>>
    /\ BaseOK(t, s[1])
    /\ \A i \in 2..Len(s) : FrameOK(t, s, i, made)
    /\ \A i \in 2..(Len(s) - 1) : Covered(s, i)

Stacks ==
    /\ stack = [t \in Threads |-> stack[t]]
    /\ \A t \in Threads : StackOK(t, stack[t], created)

\* A tick after running = next has come in the outer dispatch of kernel thread t.
Window(t) == t \notin Apps /\ Len(stack[t]) > 2 /\ stack[t][2].at = "switch"

\* A thread that does not execute is new, or somebody's dispatch has left it.
Fresh(t) == stack[t] = <<FirstFrame(t)>>
Waiting(t) == Fresh(t) \/ stack[t][Len(stack[t])].at = "w_sstatus"

\* The registers while cur executes: what a trap is to restore is in them, or in
\* the frame of its dispatch.
Came(i) == [of |-> cur, at |-> stack[cur][i-1].at]

TrapCpu ==
    IsTrap(Top) =>
        /\ ~sie /\ mode = "S" /\ spp = Top.from /\ spie = Top.sie
        /\ Top.at = "return" => sepc = Came(Depth)
        /\ Top.at = "leave" => sepc = IF Top.cause = "ecall" THEN PastEcall(Came(Depth))
                                      ELSE Came(Depth)
InnerCpu ==
    IsCall(Top) /\ Depth > 2 =>
        /\ mode = "S"
        /\ Top.at # "w_sstatus" => ~sie
        /\ Top.at \in {"r_sepc", "r_sstatus", "w_sepc"} =>
              spie = stack[cur][Depth-1].sie /\ spp = stack[cur][Depth-1].from
        /\ Top.at = "r_sepc" => sepc = Came(Depth - 1)
        /\ Top.at = "switch" => Top.old = IF Window(cur) THEN stack[cur][2].next ELSE cur
        /\ Top.at \in {"put", "get", "set"} => Top.old = running
KernelCpu == cur \notin Apps => mode = "S"
BaseCpu ==
    /\ Top.at = "csrw" => mode = "S"
    /\ Top.at = "sret" =>
        /\ sepc \in {[of |-> cur, at |-> "compute"], [of |-> cur, at |-> "sret"], NoPlace}
        /\ sepc = NoPlace => mode = "U"
        /\ sepc = [of |-> cur, at |-> "sret"] /\ mode = "S" => spp = "U"

RunningIs ==
    IF Top.at = "switch" THEN running = Top.next
    ELSE IF Window(cur) THEN running = stack[cur][2].next
    ELSE running = cur

ContextsOK == \A t \in Threads : context[t] = t

\* While every context is the one of its thread.
Shape ==
    /\ \A t \in Threads \ {cur} : Waiting(t) /\ (Window(t) => stack[t][2].next = t)
    /\ TrapCpu /\ InnerCpu /\ KernelCpu /\ BaseCpu /\ RunningIs

-----------------------------------------------------------------------------
\* The inductive invariant: clean starts, and the places of the threads.

CleanStart(t) ==
    /\ stack[t][1].at \in {"csrw", "sret"} =>
          /\ cur = t /\ Len(stack[t]) = 1 /\ ~sie /\ spp = "U" /\ mode = "S"
          /\ stack[t][1].at = "sret" => sepc = [of |-> t, at |-> "compute"]
    /\ InBody(t) /\ Len(stack[t]) = 1 => cur = t /\ mode = "U"
    /\ InBody(t) /\ Len(stack[t]) > 1 => stack[t][2].from = "U"
CleanOK == \A t \in Apps : stack[t][1].clean => CleanStart(t)

\* In how many places a thread is: the ready queue, the hands of a dispatch, the
\* processor (unless its dispatch has put it somewhere), the other queues.
Count(q, t) == Cardinality({i \in DOMAIN q : q[i] = t})
One(b) == IF b THEN 1 ELSE 0
Holds(k, t) == Len(stack[k]) > 1 /\ stack[k][2].at = "set" /\ stack[k][2].next = t
TopHolds(t) == Top.at = "set" /\ Top.next = t /\ (cur \in Apps \/ Depth > 2)
Runs(t) == t = running /\ t \notin finished /\ Top.at \notin {"get", "set"}
Total(t) ==
    Count(ready, t) + One(Holds(Boot, t)) + One(Holds(OThread, t)) + One(TopHolds(t))
      + One(Runs(t)) + One(t \in away)

\* A tick has come in the outer dispatch of t when it had put t in the ready queue.
Extra(t) == t \notin Apps /\ Len(stack[t]) > 2 /\ stack[t][2].at \in {"get", "set"}

\* A live thread is in one place, or in two if such a tick has put it there.
Placed(t) == Total(t) = IF t \in created \ finished THEN 1 + One(Extra(t)) ELSE 0
PlacesOK ==
    /\ OThread \in finished => Total(OThread) = 0 /\ (running = OThread => cur = OThread)
    /\ EndedTwice \/ \A t \in Threads : Placed(t)

Found ==
    \/ running = cur
    \/ Top.at = "switch" /\ Top.next = running
    \/ cur \notin Apps /\ Len(stack[cur]) > 1 /\ stack[cur][2].at = "switch"
       /\ stack[cur][2].next = running

Typed ==
    /\ {mode, spp} \subseteq {"U", "S"} /\ {sie, spie} \subseteq BOOLEAN
    /\ sepc \in SepcValues \union {NoPlace}
    /\ created \in SUBSET Threads /\ Boot \in created /\ OThread \in created
    /\ running \in created /\ cur \in created /\ ready \in Seq(created)
    /\ broken \in BOOLEAN
    /\ away \in SUBSET (created \intersect Apps)
    /\ finished \in SUBSET created /\ Boot \notin finished
    /\ context \in [Threads -> Threads]
    /\ hits \in 0..MaxHits
    /\ \A t \in Threads \ created : Fresh(t)

IInv ==
    /\ Typed /\ Stacks /\ CleanOK /\ PlacesOK /\ Found
    /\ ContextsOK => Shape

-----------------------------------------------------------------------------
\* Sequences.

LEMMA SeqIs ==
    ASSUME NEW S, NEW s \in Seq(S)
    PROVE  /\ Len(s) \in Nat /\ \A i \in 1..Len(s) : s[i] \in S
           /\ s # <<>> <=> Len(s) > 0
  OBVIOUS

LEMMA TopChanged ==
    ASSUME NEW S, NEW s \in Seq(S), s # <<>>, NEW f \in S
    PROVE  LET r == [s EXCEPT ![Len(s)] = f]
           IN  /\ r \in Seq(S) /\ Len(r) = Len(s) /\ r[Len(s)] = f
               /\ \A i \in 1..(Len(s) - 1) : r[i] = s[i]
<1>1. Len(s) \in Nat /\ Len(s) > 0 /\ DOMAIN s = 1..Len(s) /\ \A i \in 1..Len(s) : s[i] \in S
  OBVIOUS
<1> DEFINE r == [s EXCEPT ![Len(s)] = f]
<1>2. r = [i \in 1..Len(s) |-> IF i = Len(s) THEN f ELSE s[i]]
  BY <1>1
<1> HIDE DEF r
<1>3. DOMAIN r = 1..Len(s) /\ \A i \in 1..Len(s) : r[i] \in S
  BY <1>1, <1>2
<1>4. r \in Seq(S) /\ Len(r) = Len(s)
  <2>1. r = [i \in 1..Len(s) |-> r[i]]
    BY <1>2
  <2>2. r \in [1..Len(s) -> S]
    BY <1>3, <2>1
  <2> QED BY <1>1, <1>3, <2>2
<1>5. r[Len(s)] = f
  <2>1. Len(s) \in 1..Len(s)
    BY <1>1
  <2> QED BY <1>2, <2>1
<1>6. ASSUME NEW i \in 1..(Len(s) - 1) PROVE r[i] = s[i]
  <2> DEFINE n == Len(s)
  <2>1. n \in Nat /\ i \in 1..(n - 1)
    BY <1>1
  <2> HIDE DEF n
  <2>2. i \in 1..n /\ i # n
    BY <2>1
  <2> QED BY <1>2, <2>2 DEF n
<1> QED BY <1>4, <1>5, <1>6 DEF r

LEMMA Pushed ==
    ASSUME NEW S, NEW s \in Seq(S), NEW f \in S
    PROVE  LET r == Append(s, f)
           IN  /\ r \in Seq(S) /\ Len(r) = Len(s) + 1 /\ r[Len(s) + 1] = f
               /\ \A i \in 1..Len(s) : r[i] = s[i]
  OBVIOUS

LEMMA Popped ==
    ASSUME NEW S, NEW s \in Seq(S), NEW n \in 0..Len(s)
    PROVE  LET r == SubSeq(s, 1, n)
           IN  /\ r \in Seq(S) /\ Len(r) = n
               /\ \A i \in 1..n : r[i] = s[i]
  OBVIOUS

\* A stack of which only the top changes: pushed, popped or replaced above k.
LEMMA StackKeeps ==
    ASSUME NEW t, NEW s, NEW made, NEW more, StackOK(t, s, made), made \subseteq more,
           NEW k \in 0..Len(s), NEW r \in Seq(Frames(more)), Len(r) \in {k, k + 1}, Len(r) > 0,
           \A i \in 1..k : r[i] = s[i],
           k = 0 => BaseOK(t, r[1]),
           k > 0 /\ Len(r) = k + 1 => FrameOK(t, r, k + 1, more),
           k = Len(s) /\ k > 1 => Covered(s, k)
    PROVE  StackOK(t, r, more)
<1>1. Len(s) \in Nat /\ Len(r) \in Nat /\ k \in Nat
  BY DEF StackOK
<1>2. BaseOK(t, r[1])
  BY <1>1 DEF StackOK
<1>3. CallFrames(made) \subseteq CallFrames(more)
  BY DEF CallFrames
<1>4. ASSUME NEW i \in 2..Len(r) PROVE FrameOK(t, r, i, more)
  <2>1. CASE i = k + 1
    BY <1>1, <1>4, <2>1
  <2>2. CASE i # k + 1
    <3>1. i \in 2..Len(s) /\ r[i] = s[i] /\ r[i-1] = s[i-1] /\ (i > 2 => r[i-2] = s[i-2])
      BY <1>1, <1>4, <2>2
    <3>2. FrameOK(t, s, i, made)
      BY <3>1 DEF StackOK
    <3>3. TrapOK(t, s, i) => TrapOK(t, r, i)
      BY <3>1 DEF TrapOK
    <3>4. CallOK(t, s, i, made) => CallOK(t, r, i, more)
      BY <1>3, <3>1 DEF CallOK, InnerOK, OuterOK
    <3> QED BY <3>2, <3>3, <3>4 DEF FrameOK
  <2> QED BY <2>1, <2>2
<1>5. ASSUME NEW i \in 2..(Len(r) - 1) PROVE Covered(r, i)
  <2>1. i \in 2..k /\ r[i] = s[i]
    BY <1>1, <1>5
  <2>2. Covered(s, i)
    BY <1>1, <2>1 DEF StackOK
  <2> QED BY <2>1, <2>2 DEF Covered
<1> QED BY <1>1, <1>2, <1>4, <1>5 DEF StackOK


-----------------------------------------------------------------------------
\* Frames and the tops of stacks.

\* Only the stack of cur changes.
OnlyCur ==
    /\ cur' = cur /\ stack' = [t \in Threads |-> stack'[t]]
    /\ \A t \in Threads \ {cur} : stack'[t] = stack[t]

\* It keeps k frames and has one above them.
Keeps(k) ==
    /\ OnlyCur
    /\ Len(stack'[cur]) = k + 1
    /\ \A i \in 1..k : stack'[cur][i] = stack[cur][i]

LEMMA FramesAre ==
    ASSUME NEW made, NEW f \in Frames(made)
    PROVE  /\ f.at \in Places
           /\ f.at \in BasePlaces => f \in BaseFrames
           /\ IsTrap(f) => f \in TrapFrames
           /\ IsCall(f) => f \in CallFrames(made)
           /\ f.at \in BasePlaces \/ IsTrap(f) \/ IsCall(f)
<1>1. CASE f \in BaseFrames
  BY <1>1 DEF BaseFrames, BasePlaces, Places, IsTrap, TrapPlaces, IsCall, CallPlaces
<1>2. CASE f \in TrapFrames
  BY <1>2 DEF TrapFrames, BasePlaces, Places, IsTrap, TrapPlaces, IsCall, CallPlaces
<1>3. CASE f \in CallFrames(made)
  BY <1>3 DEF CallFrames, BasePlaces, Places, IsTrap, TrapPlaces, IsCall, CallPlaces
<1> QED BY <1>1, <1>2, <1>3 DEF Frames

LEMMA StackIs ==
    ASSUME Stacks, NEW t \in Threads
    PROVE  /\ stack[t] \in Seq(Frames(created)) /\ stack[t] # <<>>
           /\ Len(stack[t]) \in Nat \ {0}
           /\ \A i \in 1..Len(stack[t]) : stack[t][i] \in Frames(created)
           /\ stack[t][1] \in BaseFrames /\ stack[t][1].at \in BasePlaces
<1>1. StackOK(t, stack[t], created)
  BY DEF Stacks
<1>2. stack[t] \in Seq(Frames(created)) /\ stack[t] # <<>>
  BY <1>1 DEF StackOK
<1>3. stack[t][1] \in BaseFrames
  BY <1>1 DEF StackOK, BaseOK
<1>4. stack[t][1].at \in BasePlaces
  BY <1>3 DEF BaseFrames
<1> HIDE DEF Stacks
<1> QED BY <1>2, <1>3, <1>4, SeqIs

LEMMA TopIs ==
    ASSUME Stacks, cur \in Threads
    PROVE  /\ Depth \in Nat \ {0} /\ Top \in Frames(created) /\ Top.at \in Places
           /\ Top.at \in BasePlaces => Depth = 1 /\ BaseOK(cur, Top)
           /\ IsTrap(Top) => Depth > 1 /\ TrapOK(cur, stack[cur], Depth) /\ Top \in TrapFrames
           /\ IsCall(Top) =>
                 Depth > 1 /\ CallOK(cur, stack[cur], Depth, created) /\ Top \in CallFrames(created)
           /\ Top.at \in BasePlaces \/ IsTrap(Top) \/ IsCall(Top)
<1>1. StackOK(cur, stack[cur], created)
  BY DEF Stacks
<1>2. Depth \in Nat \ {0} /\ Top \in Frames(created) /\ stack[cur][1].at \in BasePlaces
  <2>1. Depth \in Nat \ {0} /\ stack[cur][1].at \in BasePlaces
        /\ \A i \in 1..Depth : stack[cur][i] \in Frames(created)
    BY StackIs DEF Depth
  <2> QED BY <2>1 DEF Top
<1>3. Depth = 1 => BaseOK(cur, Top)
  BY <1>1 DEF StackOK, Top
<1>4. Depth # 1 => FrameOK(cur, stack[cur], Depth, created)
  <2>1. Depth # 1 => Depth \in 2..Depth
    BY <1>2
  <2> QED BY <1>1, <2>1 DEF StackOK, Depth
<1>5. \A f : ~(f.at \in BasePlaces /\ IsTrap(f)) /\ ~(f.at \in BasePlaces /\ IsCall(f))
             /\ ~(IsTrap(f) /\ IsCall(f))
  BY DEF BasePlaces, IsTrap, IsCall, TrapPlaces, CallPlaces
<1>6. TrapOK(cur, stack[cur], Depth) => IsTrap(Top) /\ Top \in TrapFrames
  BY DEF TrapOK, Top, TrapFrames, IsTrap
<1>7. CallOK(cur, stack[cur], Depth, created) => IsCall(Top) /\ Top \in CallFrames(created)
  BY DEF CallOK, Top, CallFrames, IsCall
<1>8. Depth = 1 => Top.at \in BasePlaces
  BY <1>2 DEF Top
<1>9. Depth # 1 => Depth > 1
  BY <1>2
<1>10. Top.at \in Places
  BY <1>2, FramesAre
<1> QED BY <1>2, <1>3, <1>4, <1>5, <1>6, <1>7, <1>8, <1>9, <1>10 DEF FrameOK

LEMMA SetTopKeeps ==
    ASSUME Stacks, cur \in Threads, cur' = cur, NEW more, created \subseteq more,
           NEW f \in Frames(more), SetTop(f)
    PROVE  /\ Keeps(Depth - 1) /\ stack'[cur] \in Seq(Frames(more)) /\ Top' = f
           /\ stack'[cur][Depth] = f /\ Depth' = Depth
<1>1. Frames(created) \subseteq Frames(more)
  BY DEF Frames, CallFrames
<1> DEFINE S == Frames(more)
<1> DEFINE s == stack[cur]
<1>2. s \in Seq(S) /\ s # <<>> /\ Depth = Len(s) /\ Len(s) \in Nat \ {0}
  <2>1. s \in Seq(Frames(created)) /\ s # <<>> /\ Len(s) \in Nat \ {0}
    BY StackIs
  <2> QED BY <1>1, <2>1 DEF Depth
<1>3. stack = [t \in Threads |-> stack[t]]
  BY DEF Stacks
<1>4. stack' = [stack EXCEPT ![cur] = [s EXCEPT ![Depth] = f]]
  BY DEF SetTop
<1>5. stack' = [t \in Threads |-> stack'[t]] /\ stack'[cur] = [s EXCEPT ![Depth] = f]
      /\ \A t \in Threads \ {cur} : stack'[t] = stack[t]
  BY <1>3, <1>4
<1> DEFINE r == stack'[cur]
<1> HIDE DEF s, S
<1>6. f \in S
  BY DEF S
<1>7. r \in Seq(S) /\ Len(r) = Len(s) /\ r[Len(s)] = f /\ \A i \in 1..(Len(s) - 1) : r[i] = s[i]
  BY <1>2, <1>5, <1>6, TopChanged
<1>8. (Depth - 1) + 1 = Len(s)
  BY <1>2
<1>9. Depth' = Depth /\ Top' = f
  BY <1>2, <1>7 DEF Depth, Top
<1>10. \A i \in 1..(Depth - 1) : stack'[cur][i] = stack[cur][i]
  BY <1>2, <1>7 DEF s
<1>11. Len(stack'[cur]) = (Depth - 1) + 1
  BY <1>7, <1>8
<1>12. Keeps(Depth - 1)
  BY <1>5, <1>10, <1>11 DEF Keeps, OnlyCur
<1> QED BY <1>2, <1>7, <1>9, <1>12 DEF S

LEMMA PushKeeps ==
    ASSUME Stacks, cur \in Threads, cur' = cur, NEW f \in Frames(created),
           stack' = [stack EXCEPT ![cur] = Append(@, f)]
    PROVE  /\ Keeps(Depth) /\ stack'[cur] \in Seq(Frames(created)) /\ Top' = f
           /\ stack'[cur][Depth + 1] = f /\ Depth' = Depth + 1
<1> DEFINE S == Frames(created)
<1> DEFINE s == stack[cur]
<1> DEFINE r == stack'[cur]
<1>1. s \in Seq(S) /\ Depth = Len(s) /\ f \in S /\ Len(s) \in Nat
  BY StackIs DEF Depth
<1>2. stack' = [t \in Threads |-> stack'[t]] /\ r = Append(s, f)
      /\ \A t \in Threads \ {cur} : stack'[t] = stack[t]
  BY DEF Stacks
<1> HIDE DEF s, S
<1>3. r \in Seq(S) /\ Len(r) = Len(s) + 1 /\ r[Len(s) + 1] = f /\ \A i \in 1..Len(s) : r[i] = s[i]
  <2> HIDE DEF r
  <2> QED BY <1>1, <1>2, Pushed
<1>4. Depth' = Depth + 1 /\ Top' = f
  BY <1>1, <1>3 DEF Depth, Top
<1>5. \A i \in 1..Depth : stack'[cur][i] = stack[cur][i]
  BY <1>1, <1>3 DEF s
<1>6. Keeps(Depth)
  BY <1>1, <1>2, <1>3, <1>5 DEF Keeps, OnlyCur
<1> QED BY <1>1, <1>3, <1>4, <1>6 DEF S

\* The frame below the top becomes the top.
LEMMA PopKeeps ==
    ASSUME Stacks, cur \in Threads, cur' = cur, Depth > 1, NEW f \in Frames(created),
           \/ stack' = [stack EXCEPT ![cur] = Front(@)] /\ f = stack[cur][Depth - 1]
           \/ stack' = [stack EXCEPT ![cur] = Append(SubSeq(stack[cur], 1, Depth - 2), f)]
    PROVE  /\ Keeps(Depth - 2) /\ stack'[cur] \in Seq(Frames(created)) /\ Top' = f
           /\ stack'[cur][Depth - 1] = f /\ Depth' = Depth - 1
<1> DEFINE S == Frames(created)
<1> DEFINE s == stack[cur]
<1> DEFINE r == stack'[cur]
<1> DEFINE n == Depth
<1>1. s \in Seq(S) /\ n = Len(s) /\ f \in S /\ n \in Nat /\ n > 1
  BY StackIs DEF Depth
<1>2. stack' = [t \in Threads |-> stack'[t]]
      /\ (\A t \in Threads \ {cur} : stack'[t] = stack[t])
      /\ \/ r = SubSeq(s, 1, n - 1) /\ f = s[n-1]
         \/ r = Append(SubSeq(s, 1, n - 2), f)
  BY <1>1 DEF Stacks, Front
<1>3. r \in Seq(S) /\ Len(r) = n - 1 /\ r[n-1] = f /\ \A i \in 1..(n - 2) : r[i] = s[i]
  <2> HIDE DEF s, S, n, r
  <2>1. n - 1 \in 0..Len(s) /\ n - 2 \in 0..Len(s) /\ (n - 2) + 1 = n - 1
    BY <1>1
  <2>2. CASE r = SubSeq(s, 1, n - 1) /\ f = s[n-1]
    <3>1. r \in Seq(S) /\ Len(r) = n - 1 /\ \A i \in 1..(n - 1) : r[i] = s[i]
      BY <1>1, <2>1, <2>2, Popped
    <3>2. \A i \in 1..(n - 2) : i \in 1..(n - 1)
      BY <1>1
    <3>3. n - 1 \in 1..(n - 1)
      BY <1>1
    <3> QED BY <2>2, <3>1, <3>2, <3>3
  <2>3. CASE r = Append(SubSeq(s, 1, n - 2), f)
    <3> DEFINE q == SubSeq(s, 1, n - 2)
    <3>1. q \in Seq(S) /\ Len(q) = n - 2 /\ \A i \in 1..(n - 2) : q[i] = s[i]
      BY <1>1, <2>1, Popped
    <3>2. r = Append(q, f)
      BY <2>3
    <3> HIDE DEF q
    <3>3. r \in Seq(S) /\ Len(r) = Len(q) + 1 /\ r[Len(q) + 1] = f /\ \A i \in 1..Len(q) : r[i] = q[i]
      BY <1>1, <3>1, <3>2, Pushed
    <3> QED BY <2>1, <3>1, <3>3
  <2> QED BY <1>2, <2>2, <2>3
<1>4. Depth' = Depth - 1 /\ Top' = f
  BY <1>1, <1>3 DEF Depth, Top
<1>5. (Depth - 2) + 1 = n - 1
  BY <1>1
<1>6. Keeps(Depth - 2)
  BY <1>2, <1>3, <1>5 DEF Keeps, OnlyCur
<1> QED BY <1>3, <1>4, <1>6

\* More threads exist.
LEMMA StackGrows ==
    ASSUME NEW t, NEW s, NEW made, NEW more, StackOK(t, s, made), made \subseteq more
    PROVE  StackOK(t, s, more)
<1>1. Frames(made) \subseteq Frames(more) /\ CallFrames(made) \subseteq CallFrames(more)
  BY DEF Frames, CallFrames
<1>2. s \in Seq(Frames(more))
  BY <1>1 DEF StackOK
<1>3. \A i \in 2..Len(s) : FrameOK(t, s, i, made) => FrameOK(t, s, i, more)
  BY <1>1 DEF FrameOK, CallOK
<1> QED BY <1>2, <1>3 DEF StackOK

LEMMA StacksKeep ==
    ASSUME Stacks, cur \in Threads, created \subseteq created', NEW k \in 0..Depth, Keeps(k),
           stack'[cur] \in Seq(Frames(created')),
           k = 0 => BaseOK(cur, stack'[cur][1]),
           k > 0 => FrameOK(cur, stack'[cur], k + 1, created'),
           k = Depth /\ k > 1 => Covered(stack[cur], k)
    PROVE  Stacks'
<1>1. ASSUME NEW t \in Threads PROVE StackOK(t, stack[t], created)
  BY DEF Stacks
<1>2. ASSUME NEW t \in Threads \ {cur} PROVE StackOK(t, stack'[t], created')
  <2>1. stack'[t] = stack[t] /\ t \in Threads
    BY <1>2 DEF Keeps, OnlyCur
  <2>2. StackOK(t, stack[t], created)
    BY <1>1
  <2> QED BY <2>1, <2>2, StackGrows
<1>3. StackOK(cur, stack'[cur], created')
  <2> DEFINE s == stack[cur]
  <2> DEFINE r == stack'[cur]
  <2> DEFINE more == created'
  <2> DEFINE made == created
  <2>1. StackOK(cur, s, made) /\ made \subseteq more /\ k \in 0..Len(s) /\ r \in Seq(Frames(more))
        /\ Len(r) = k + 1 /\ (\A i \in 1..k : r[i] = s[i]) /\ k \in Nat
    BY <1>1, StackIs DEF Keeps, OnlyCur, Depth
  <2>2. /\ k = 0 => BaseOK(cur, r[1])
        /\ k > 0 => FrameOK(cur, r, k + 1, more)
        /\ k = Len(s) /\ k > 1 => Covered(s, k)
    BY DEF Depth
  <2> HIDE DEF s, r, more, made
  <2>3. Len(r) \in {k, k + 1} /\ Len(r) > 0
    BY <2>1
  <2>4. StackOK(cur, r, more)
    BY <2>1, <2>2, <2>3, StackKeeps
  <2> QED BY <2>4 DEF r, more
<1>4. cur' = cur /\ stack' = [t \in Threads |-> stack'[t]]
  BY DEF Keeps, OnlyCur
<1>5. \A t \in Threads : StackOK(t, stack'[t], created')
  BY <1>2, <1>3
<1> QED BY <1>4, <1>5 DEF Stacks

-----------------------------------------------------------------------------
\* Steps within kDispatch().

\* The frame under the top: of the trap that a dispatch is in.
Below == stack[cur][Depth - 1]

LEMMA CallIs ==
    ASSUME Stacks, cur \in Threads, IsCall(Top)
    PROVE  /\ Depth \in Nat /\ Depth >= 2 /\ Top \in CallFrames(created)
           /\ Top.to = "away" => cur \in Apps
           /\ Top.at \in {"set", "switch"} => Top.next \in created
           /\ Top.at \in {"put", "get", "set", "switch"} => Top.old \in created
           /\ Depth > 2 =>
                 /\ Below.at = "return" /\ Below \in TrapFrames
                 /\ Top.at # "r_sepc" => Top.ksepc = Came(Depth - 1)
                 /\ Top.at \notin {"r_sepc", "r_sstatus"} =>
                       Top.ksstatus = <<FALSE, Below.sie, Below.from>>
           /\ Depth = 2 =>
                 /\ cur \notin Apps
                 /\ Top.at \in {"put", "get", "set", "switch"} => Top.old = cur
                 /\ Top.at \notin {"r_sepc", "r_sstatus"} => Top.ksstatus # <<>>
<1>1. Depth \in Nat /\ Depth > 1 /\ CallOK(cur, stack[cur], Depth, created)
      /\ Top \in CallFrames(created)
  BY TopIs
<1>2. Depth >= 2
  BY <1>1
<1>3. Depth > 2 => InnerOK(cur, stack[cur], Depth)
  BY <1>1 DEF CallOK, OuterOK
<1>4. Depth = 2 => OuterOK(cur, stack[cur], Depth)
  BY <1>1 DEF CallOK, InnerOK
<1>5. Depth > 2 => Below \in Frames(created)
  <2>1. Depth > 2 => Depth - 1 \in 1..Depth
    BY <1>1
  <2> QED BY <2>1, StackIs DEF Below, Depth
<1>6. Depth > 2 => Below.at = "return"
  BY <1>3 DEF InnerOK, Below
<1>7. Below.at = "return" => IsTrap(Below)
  BY DEF IsTrap, TrapPlaces
<1>8. Depth > 2 => Below \in TrapFrames
  BY <1>5, <1>6, <1>7, FramesAre
<1>9. Depth > 2 => /\ Top.at # "r_sepc" => Top.ksepc = Came(Depth - 1)
                   /\ Top.at \notin {"r_sepc", "r_sstatus"} =>
                        Top.ksstatus = <<FALSE, Below.sie, Below.from>>
  <2>1. (Depth - 1) - 1 = Depth - 2
    BY <1>1
  <2> QED BY <1>3, <2>1 DEF InnerOK, Top, Below, Came
<1>10. Depth = 2 => /\ cur \notin Apps
                    /\ Top.at \in {"put", "get", "set", "switch"} => Top.old = cur
                    /\ Top.at \notin {"r_sepc", "r_sstatus"} => Top.ksstatus # <<>>
  BY <1>4 DEF OuterOK, Top
<1>11. /\ Top.to = "away" => cur \in Apps
       /\ Top.at \in {"set", "switch"} => Top.next \in created
       /\ Top.at \in {"put", "get", "set", "switch"} => Top.old \in created
  BY <1>1 DEF CallOK, Top
<1> QED BY <1>1, <1>2, <1>6, <1>8, <1>9, <1>10, <1>11

\* What a step that replaces the top of a stack leaves alone.
LEMMA BelowStays ==
    ASSUME Stacks, cur \in Threads, Keeps(Depth - 1), Depth' = Depth
    PROVE  /\ Depth > 1 => Below' = Below /\ stack'[cur'][1] = stack[cur][1]
                           /\ Came(Depth)' = Came(Depth)
           /\ Depth > 2 => Came(Depth - 1)' = Came(Depth - 1) /\ stack'[cur'][2] = stack[cur][2]
           /\ Depth > 2 => (Window(cur)' <=> Window(cur))
<1> DEFINE n == Depth
<1>1. n \in Nat \ {0} /\ n = Len(stack[cur])
  BY TopIs DEF Depth
<1>2. Depth' = n /\ cur' = cur /\ Len(stack'[cur]) = (n - 1) + 1
      /\ \A i \in 1..(n - 1) : stack'[cur][i] = stack[cur][i]
  BY DEF Keeps, OnlyCur
<1> HIDE DEF n
<1>3. n > 1 => n - 1 \in 1..(n - 1) /\ 1 \in 1..(n - 1)
  BY <1>1
<1>4. n > 2 => 2 \in 1..(n - 1) /\ (n - 1) - 1 \in 1..(n - 1)
  BY <1>1
<1>5. n > 1 => stack'[cur][n-1] = stack[cur][n-1] /\ stack'[cur'][1] = stack[cur][1]
  BY <1>2, <1>3
<1>6. n > 2 => stack'[cur][(n-1)-1] = stack[cur][(n-1)-1] /\ stack'[cur'][2] = stack[cur][2]
  BY <1>2, <1>4
<1>7. Len(stack'[cur]) = n
  BY <1>1, <1>2
<1>8. n = Depth
  BY DEF n
<1> QED BY <1>1, <1>2, <1>5, <1>6, <1>7, <1>8 DEF Below, Came, Window

\* Only one stack has changed: the others still wait.
LEMMA OthersWait ==
    ASSUME Shape, OnlyCur
    PROVE  (\A t \in Threads \ {cur} : Waiting(t) /\ (Window(t) => stack[t][2].next = t))'
<1>1. ASSUME NEW t \in Threads \ {cur}
      PROVE Waiting(t)' /\ (Window(t)' => stack'[t][2].next = t)
  <2>1. stack'[t] = stack[t] /\ Waiting(t) /\ (Window(t) => stack[t][2].next = t)
    BY DEF Keeps, OnlyCur, Shape
  <2> QED BY <2>1 DEF Waiting, Fresh, Window
<1> QED BY <1>1 DEF Keeps, OnlyCur

LEMMA OthersStayClean ==
    ASSUME CleanOK, Apps \subseteq Threads, OnlyCur,
           cur \in Apps /\ stack'[cur][1].clean => CleanStart(cur)'
    PROVE  CleanOK'
<1>1. ASSUME NEW t \in Apps, t # cur, stack'[t][1].clean PROVE CleanStart(t)'
  <2>1. stack'[t] = stack[t]
    BY <1>1 DEF Keeps, OnlyCur
  <2>2. CleanStart(t)
    BY <1>1, <2>1 DEF CleanOK
  <2> QED BY <1>1, <2>1, <2>2 DEF CleanStart, InBody, Keeps, OnlyCur
<1> QED BY <1>1 DEF CleanOK, Keeps, OnlyCur

\* From two frames on, a clean start is settled by them.
LEMMA DeepStaysClean ==
    ASSUME CleanOK, Stacks, cur \in Threads, NEW k \in Nat, Keeps(k),
           cur \in Apps => k >= 2 /\ Depth >= 2
    PROVE  CleanOK'
<1>1. ASSUME cur \in Apps, stack'[cur][1].clean PROVE CleanStart(cur)'
  <2>1. 1 \in 1..k /\ 2 \in 1..k /\ Len(stack'[cur]) > 1
    BY <1>1 DEF Keeps, OnlyCur
  <2>2. stack'[cur][1] = stack[cur][1] /\ stack'[cur][2] = stack[cur][2] /\ cur' = cur
    BY <2>1 DEF Keeps, OnlyCur
  <2>3. CleanStart(cur) /\ Len(stack[cur]) > 1
    BY <1>1, <2>2, StackIs DEF CleanOK, Depth
  <2> QED BY <2>1, <2>2, <2>3 DEF CleanStart, InBody
<1> QED BY <1>1, OthersStayClean DEF Threads, Keeps

\* A dispatch replaces its frame.
LEMMA CallTopChanges ==
    ASSUME Stacks, cur \in Threads, IsCall(Top), NEW f \in CallFrames(created), SetTop(f),
           cur' = cur, created' = created, f.to = Top.to,
           f.at \in {"set", "switch"} => f.next \in created,
           f.at \in {"put", "get", "set", "switch"} => f.old \in created,
           Depth > 2 =>
              /\ f.at # "r_sepc" => f.ksepc = Came(Depth - 1)
              /\ f.at \notin {"r_sepc", "r_sstatus"} =>
                    f.ksstatus = <<FALSE, Below.sie, Below.from>>,
           Depth = 2 =>
              /\ f.at \in {"put", "get", "set", "switch"} => f.old = cur
              /\ f.at \notin {"r_sepc", "r_sstatus"} => f.ksstatus # <<>>
    PROVE  Stacks' /\ Keeps(Depth - 1) /\ Depth' = Depth /\ Top' = f /\ IsCall(f)
<1>1. f \in Frames(created)
  BY DEF Frames
<1>2. Keeps(Depth - 1) /\ stack'[cur] \in Seq(Frames(created)) /\ Top' = f
      /\ stack'[cur][Depth] = f /\ Depth' = Depth
  BY <1>1, SetTopKeeps
<1>3. IsCall(f)
  BY DEF CallFrames, IsCall
<1>4. Depth \in Nat /\ Depth >= 2 /\ (Depth > 2 => Below.at = "return") /\ (Depth = 2 => cur \notin Apps)
      /\ (Top.to = "away" => cur \in Apps)
  BY CallIs
<1>5. (Depth - 1) + 1 = Depth /\ Depth - 1 \in 0..Depth /\ Depth - 1 # 0 /\ Depth - 1 # Depth
      /\ (Depth - 1) - 1 = Depth - 2
  BY <1>4
<1>6. (Below' = Below) /\ (Depth > 2 => Came(Depth - 1)' = Came(Depth - 1))
  BY <1>2, <1>4, BelowStays
<1>7. stack'[cur][Depth - 1] = Below
  BY <1>2, <1>6 DEF Below
<1>8. Depth > 2 => Came(Depth - 1) = [of |-> cur, at |-> stack'[cur][Depth - 2].at]
  BY <1>2, <1>5, <1>6 DEF Came
<1>9. Depth > 2 => InnerOK(cur, stack'[cur], Depth)
  BY <1>2, <1>4, <1>7, <1>8 DEF InnerOK
<1>10. Depth = 2 => OuterOK(cur, stack'[cur], Depth)
  BY <1>2, <1>4 DEF OuterOK
<1>11. CallOK(cur, stack'[cur], Depth, created')
  BY <1>2, <1>4, <1>9, <1>10 DEF CallOK
<1>12. FrameOK(cur, stack'[cur], (Depth - 1) + 1, created')
  BY <1>5, <1>11 DEF FrameOK
<1>13. Stacks'
  BY <1>2, <1>5, <1>12, StacksKeep
<1> QED BY <1>2, <1>3, <1>13

LEMMA CallTopShape ==
    ASSUME Shape, Stacks, cur \in Threads, Depth >= 2, NEW f, IsCall(f),
           Keeps(Depth - 1), Depth' = Depth, Top' = f, mode' = mode,
           Depth > 2 =>
              /\ mode = "S" /\ (f.at # "w_sstatus" => ~sie')
              /\ f.at \in {"r_sepc", "r_sstatus", "w_sepc"} =>
                    spie' = Below.sie /\ spp' = Below.from
              /\ f.at = "r_sepc" => sepc' = Came(Depth - 1)
              /\ f.at = "switch" => f.old = IF Window(cur) THEN stack[cur][2].next ELSE cur
              /\ f.at \in {"put", "get", "set"} => f.old = running',
           IF f.at = "switch" THEN running' = f.next
           ELSE IF Window(cur) THEN running' = stack[cur][2].next
           ELSE running' = cur
    PROVE  Shape'
<1>1. Depth \in Nat /\ cur' = cur
  BY TopIs DEF Keeps, OnlyCur
<1>2. /\ Below' = Below
      /\ Depth > 2 => Came(Depth - 1)' = Came(Depth - 1) /\ stack'[cur'][2] = stack[cur][2]
      /\ Depth > 2 => (Window(cur)' <=> Window(cur))
  BY <1>1, BelowStays
<1>3. ~IsTrap(f) /\ f.at # "csrw" /\ f.at # "sret"
  BY DEF IsTrap, IsCall, TrapPlaces, CallPlaces
<1>4. Depth <= 2 => ~Window(cur) /\ ~Window(cur)'
  BY <1>1 DEF Window, Depth
<1>5. TrapCpu' /\ BaseCpu'
  BY <1>3 DEF TrapCpu, BaseCpu
<1>6. KernelCpu'
  BY <1>1 DEF KernelCpu, Shape
<1>7. stack[cur][Depth - 1] = Below
  BY DEF Below
<1>8. stack'[cur'][Depth' - 1] = Below
  BY <1>2 DEF Below
<1>9. InnerCpu'
  BY <1>1, <1>2, <1>8 DEF InnerCpu
<1>10. RunningIs'
  BY <1>1, <1>2, <1>4 DEF RunningIs
<1>11. (\A t \in Threads \ {cur} : Waiting(t) /\ (Window(t) => stack[t][2].next = t))'
  BY OthersWait DEF Keeps
<1> QED BY <1>5, <1>6, <1>9, <1>10, <1>11 DEF Shape

\* What holds where a step may begin.
LEMMA AtIs ==
    ASSUME IInv, NEW p, At(p)
    PROVE  Shape /\ Stacks /\ Typed /\ CleanOK /\ PlacesOK /\ cur \in Threads /\ running \in Threads
           /\ Top.at = p /\ ContextsOK /\ ~broken
  BY DEF IInv, At, Intact, ContextsOK, Typed

\* What the registers are while a dispatch executes.
LEMMA CallCpu ==
    ASSUME Shape, Stacks, cur \in Threads, IsCall(Top)
    PROVE  /\ Depth > 2 =>
              /\ mode = "S" /\ (Top.at # "w_sstatus" => ~sie)
              /\ Top.at \in {"r_sepc", "r_sstatus", "w_sepc"} =>
                    spie = Below.sie /\ spp = Below.from
              /\ Top.at = "r_sepc" => sepc = Came(Depth - 1)
              /\ Top.at = "switch" => Top.old = IF Window(cur) THEN stack[cur][2].next ELSE cur
              /\ Top.at \in {"put", "get", "set"} => Top.old = running
           /\ IF Top.at = "switch" THEN running = Top.next
              ELSE IF Window(cur) THEN running = stack[cur][2].next
              ELSE running = cur
           /\ Window(cur) => Depth > 2
           /\ cur \notin Apps => mode = "S"
  BY DEF Shape, InnerCpu, RunningIs, KernelCpu, Below, Window, Depth

LEMMA IsCallAt ==
    ASSUME NEW p \in CallPlaces, Top.at = p PROVE IsCall(Top)
  BY DEF IsCall

\* The rest of the inductive invariant, apart from the places of the threads.
Kept == Typed /\ Stacks /\ CleanOK /\ Found /\ (ContextsOK => Shape)

\* Of a thread that no step starts: its stack is untouched.
LEMMA FreshStay ==
    ASSUME Typed, OnlyCur, created \subseteq created'
    PROVE  \A t \in Threads \ created' : Fresh(t)'
<1>1. ASSUME NEW t \in Threads \ created' PROVE Fresh(t)'
  <2>1. Fresh(t) /\ t # cur
    BY <1>1 DEF Typed
  <2>2. stack'[t] = stack[t]
    BY <1>1, <2>1 DEF Keeps, OnlyCur
  <2> QED BY <2>1, <2>2 DEF Fresh, FirstFrame
<1> QED BY <1>1

LEMMA CallStaysClean ==
    ASSUME CleanOK, Stacks, cur \in Threads, IsCall(Top), Keeps(Depth - 1)
    PROVE  CleanOK'
<1>1. Depth \in Nat /\ Depth >= 2 /\ (Depth = 2 => cur \notin Apps)
  BY CallIs
<1>2. Depth - 1 \in Nat /\ (cur \in Apps => Depth - 1 >= 2)
  BY <1>1
<1> QED BY <1>1, <1>2, DeepStaysClean

LEMMA ReadSepcKeeps ==
    ASSUME IInv, ReadSepc
    PROVE  Kept' /\ Keeps(Depth - 1) /\ Depth' = Depth /\ Top'.at = "r_sstatus"
<1>1. Shape /\ Stacks /\ Typed /\ CleanOK /\ cur \in Threads /\ Top.at = "r_sepc"
  BY AtIs DEF ReadSepc
<1>2. IsCall(Top)
  BY <1>1, IsCallAt DEF CallPlaces
<1> DEFINE f == [Top EXCEPT !.at = "r_sstatus", !.ksepc = sepc]
<1>3. Top \in CallFrames(created) /\ sepc \in SepcValues \union {NoPlace}
  BY <1>1, <1>2, CallIs DEF Typed
<1>4. f \in CallFrames(created) /\ f.at = "r_sstatus" /\ f.to = Top.to /\ f.ksepc = sepc
  BY <1>3 DEF CallFrames, CallPlaces
<1>5. SetTop(f) /\ UNCHANGED <<csrs, sched, cur, context, hits>>
  BY DEF ReadSepc
<1>6. UNCHANGED <<mode, sie, spie, spp, sepc, running, ready, away, broken, created, finished,
                  cur, context, hits>>
  BY <1>5 DEF csrs, sched, sstatus, queues
<1> HIDE DEF f
<1>7. Depth \in Nat /\ Depth >= 2
  BY <1>1, <1>2, CallIs
<1>8. /\ Depth > 2 => /\ mode = "S" /\ ~sie /\ sepc = Came(Depth - 1)
                      /\ spie = Below.sie /\ spp = Below.from
      /\ IF Window(cur) THEN running = stack[cur][2].next ELSE running = cur
  BY <1>1, <1>2, CallCpu
<1>9. Stacks' /\ Keeps(Depth - 1) /\ Depth' = Depth /\ Top' = f /\ IsCall(f)
  BY <1>1, <1>2, <1>4, <1>5, <1>6, <1>8, CallTopChanges
<1>10. Shape'
  BY <1>1, <1>4, <1>6, <1>7, <1>8, <1>9, CallTopShape
<1>11. CleanOK'
  BY <1>1, <1>2, <1>9, CallStaysClean
<1>12. \A t \in Threads \ created : Fresh(t)'
  BY <1>1, <1>6, <1>9, FreshStay DEF Keeps
<1>13. Typed'
  BY <1>1, <1>6, <1>12 DEF Typed
<1>14. Found'
  BY <1>10 DEF Found, Shape, RunningIs, Window
<1> QED BY <1>4, <1>9, <1>10, <1>11, <1>13, <1>14 DEF Kept

LEMMA FoundIs ==
    ASSUME Shape' PROVE Found'
  BY DEF Found, Shape, RunningIs, Window

LEMMA ReadSstatusKeeps ==
    ASSUME IInv, ReadSstatus
    PROVE  Kept' /\ Keeps(Depth - 1) /\ Depth' = Depth /\ Top'.at = "put"
<1>1. Shape /\ Stacks /\ Typed /\ CleanOK /\ cur \in Threads /\ Top.at = "r_sstatus"
  BY AtIs DEF ReadSstatus
<1>2. IsCall(Top)
  BY <1>1, IsCallAt DEF CallPlaces
<1> DEFINE f == [Top EXCEPT !.at = "put", !.ksstatus = sstatus, !.old = running]
<1>3. Top \in CallFrames(created) /\ sie \in BOOLEAN /\ spie \in BOOLEAN /\ spp \in {"U", "S"}
      /\ running \in created
  BY <1>1, <1>2, CallIs DEF Typed
<1>4. f \in CallFrames(created) /\ f.at = "put" /\ f.to = Top.to /\ f.ksepc = Top.ksepc
      /\ f.ksstatus = <<sie, spie, spp>> /\ f.old = running
  BY <1>3 DEF CallFrames, CallPlaces, sstatus
<1>5. SetTop(f) /\ UNCHANGED <<csrs, sched, cur, context, hits>>
  BY DEF ReadSstatus
<1>6. UNCHANGED <<mode, sie, spie, spp, sepc, running, ready, away, broken, created, finished,
                  cur, context, hits>>
  BY <1>5 DEF csrs, sched, sstatus, queues
<1> HIDE DEF f
<1>7. Depth \in Nat /\ Depth >= 2 /\ (Depth > 2 => Top.ksepc = Came(Depth - 1))
  BY <1>1, <1>2, CallIs
<1>8. /\ Depth > 2 => mode = "S" /\ sie = FALSE /\ spie = Below.sie /\ spp = Below.from
      /\ IF Window(cur) THEN running = stack[cur][2].next ELSE running = cur
      /\ Window(cur) => Depth > 2
  BY <1>1, <1>2, <1>3, CallCpu
<1>9. /\ Depth > 2 => f.ksepc = Came(Depth - 1) /\ f.ksstatus = <<FALSE, Below.sie, Below.from>>
      /\ Depth = 2 => f.old = cur
      /\ f.ksstatus # <<>>
  <2>1. Depth > 2 => f.ksepc = Came(Depth - 1)
    BY <1>4, <1>7
  <2>2. ASSUME Depth > 2 PROVE f.ksstatus = <<FALSE, Below.sie, Below.from>>
    BY <1>4, <1>8, <2>2
  <2>3. Depth = 2 => f.old = cur
    BY <1>4, <1>7, <1>8
  <2>4. f.ksstatus # <<>>
    BY <1>4
  <2> QED BY <2>1, <2>2, <2>3, <2>4
<1>10. Stacks' /\ Keeps(Depth - 1) /\ Depth' = Depth /\ Top' = f /\ IsCall(f)
  BY <1>1, <1>2, <1>3, <1>4, <1>5, <1>6, <1>9, CallTopChanges
<1>11. Shape'
  BY <1>1, <1>4, <1>6, <1>7, <1>8, <1>10, CallTopShape
<1>12. CleanOK'
  BY <1>1, <1>2, <1>10, CallStaysClean
<1>13. \A t \in Threads \ created : Fresh(t)'
  BY <1>1, <1>6, <1>10, FreshStay DEF Keeps
<1>14. Typed'
  BY <1>1, <1>6, <1>13 DEF Typed
<1> QED BY <1>4, <1>10, <1>11, <1>12, <1>14, FoundIs DEF Kept

LEMMA ListsUsed ==
    ASSUME UsesLists PROVE broken' \in BOOLEAN
  BY DEF UsesLists

\* Who is put somewhere: the thread that executes, or the one a dispatch was
\* about to switch to.
LEMMA OldIs ==
    ASSUME Shape, Stacks, Typed, cur \in Threads, Top.at \in {"put", "get", "set"}
    PROVE  Top.old = running /\ (Top.to = "away" => cur \in Apps /\ running = cur)
<1>1. IsCall(Top)
  BY DEF IsCall, CallPlaces
<1>2. Depth \in Nat /\ Depth >= 2 /\ (Depth = 2 => Top.old = cur) /\ (Top.to = "away" => cur \in Apps)
  BY <1>1, CallIs
<1>3. /\ Depth > 2 => Top.old = running
      /\ IF Window(cur) THEN running = stack[cur][2].next ELSE running = cur
      /\ Window(cur) => Depth > 2
  BY <1>1, CallCpu
<1>4. Window(cur) => cur \notin Apps
  BY DEF Window
<1> QED BY <1>2, <1>3, <1>4

LEMMA PutKeeps ==
    ASSUME IInv, Put
    PROVE  Kept' /\ Keeps(Depth - 1) /\ Depth' = Depth /\ Top'.at = "get"
<1>1. Shape /\ Stacks /\ Typed /\ CleanOK /\ cur \in Threads /\ Top.at = "put"
  BY AtIs DEF Put
<1>2. IsCall(Top)
  BY <1>1, IsCallAt DEF CallPlaces
<1> DEFINE f == [Top EXCEPT !.at = "get"]
<1>3. Top \in CallFrames(created)
  BY <1>1, <1>2, CallIs
<1>4. f \in CallFrames(created) /\ f.at = "get" /\ f.to = Top.to /\ f.ksepc = Top.ksepc
      /\ f.ksstatus = Top.ksstatus /\ f.old = Top.old
  BY <1>3 DEF CallFrames, CallPlaces
<1>5. SetTop(f) /\ UNCHANGED <<csrs, running, created, finished, cur, context, hits>>
  BY DEF Put, Goto
<1>6. UNCHANGED <<mode, sie, spie, spp, sepc, running, created, finished, cur, context, hits>>
  BY <1>5 DEF csrs, sstatus
<1> HIDE DEF f
<1>7. /\ Depth \in Nat /\ Depth >= 2 /\ Top.old \in created
      /\ Depth > 2 => Top.ksepc = Came(Depth - 1) /\ Top.ksstatus = <<FALSE, Below.sie, Below.from>>
      /\ Depth = 2 => Top.old = cur /\ Top.ksstatus # <<>>
  BY <1>1, <1>2, CallIs
<1>8. /\ Depth > 2 => mode = "S" /\ ~sie
      /\ IF Window(cur) THEN running = stack[cur][2].next ELSE running = cur
  BY <1>1, <1>2, CallCpu
<1>9. Top.old = running /\ (Top.to = "away" => cur \in Apps /\ running = cur)
  BY <1>1, OldIs
<1>10. Stacks' /\ Keeps(Depth - 1) /\ Depth' = Depth /\ Top' = f /\ IsCall(f)
  BY <1>1, <1>2, <1>4, <1>5, <1>6, <1>7, CallTopChanges
<1>11. Shape'
  BY <1>1, <1>4, <1>6, <1>7, <1>8, <1>9, <1>10, CallTopShape
<1>12. CleanOK'
  BY <1>1, <1>2, <1>10, CallStaysClean
<1>13. \A t \in Threads \ created : Fresh(t)'
  BY <1>1, <1>6, <1>10, FreshStay DEF Keeps
<1>14. ready \in Seq(created) /\ away \in SUBSET (created \intersect Apps)
  BY <1>1 DEF Typed
<1>15. ready' \in Seq(created)
  BY <1>7, <1>14, LastPut DEF Put
<1>16. away' \in SUBSET (created \intersect Apps)
  BY <1>7, <1>9, <1>14 DEF Put
<1>17. broken' \in BOOLEAN
  BY ListsUsed DEF Put
<1>18. Typed'
  BY <1>1, <1>6, <1>13, <1>15, <1>16, <1>17 DEF Typed
<1> QED BY <1>4, <1>10, <1>11, <1>12, <1>18, FoundIs DEF Kept

LEMMA GetKeeps ==
    ASSUME IInv, Get
    PROVE  Kept' 
           /\ Keeps(Depth - 1) /\ Depth' = Depth
           /\ IF ready = <<>> THEN Top'.at = "w_sstatus" /\ ready' = ready
              ELSE Top'.at = "set" /\ Top'.next = Head(ready) /\ ready' = Tail(ready)
<1>1. Shape /\ Stacks /\ Typed /\ CleanOK /\ cur \in Threads /\ Top.at = "get"
  BY AtIs DEF Get
<1>2. IsCall(Top)
  BY <1>1, IsCallAt DEF CallPlaces
<1>3. Top \in CallFrames(created) /\ ready \in Seq(created)
  BY <1>1, <1>2, CallIs DEF Typed
<1>4. PICK f : /\ SetTop(f)
               /\ \/ ready = <<>> /\ f = [Top EXCEPT !.at = "w_sstatus"] /\ ready' = ready
                  \/ ready # <<>> /\ f = [Top EXCEPT !.at = "set", !.next = Head(ready)]
                     /\ ready' = Tail(ready)
  BY DEF Get, Goto
<1>5. f \in CallFrames(created) /\ f.at \in {"w_sstatus", "set"} /\ f.to = Top.to
      /\ f.ksepc = Top.ksepc /\ f.ksstatus = Top.ksstatus /\ f.old = Top.old
      /\ (f.at = "set" => f.next \in created)
  <2>1. CASE ready = <<>>
    BY <1>3, <1>4, <2>1 DEF CallFrames, CallPlaces
  <2>2. CASE ready # <<>>
    <3> DEFINE h == Head(ready)
    <3>1. h \in created
      BY <1>3, <2>2, FirstTaken
    <3>2. f = [Top EXCEPT !.at = "set", !.next = h]
      BY <1>4, <2>2
    <3> HIDE DEF h
    <3> QED BY <1>3, <3>1, <3>2 DEF CallFrames, CallPlaces
  <2> QED BY <2>1, <2>2
<1>6. UNCHANGED <<mode, sie, spie, spp, sepc, running, away, created, finished, cur, context, hits>>
  BY DEF Get, csrs, sstatus
<1>7. /\ Depth \in Nat /\ Depth >= 2 /\ Top.old \in created
      /\ Depth > 2 => Top.ksepc = Came(Depth - 1) /\ Top.ksstatus = <<FALSE, Below.sie, Below.from>>
      /\ Depth = 2 => Top.old = cur /\ Top.ksstatus # <<>>
  BY <1>1, <1>2, CallIs
<1>8. /\ Depth > 2 => mode = "S" /\ ~sie
      /\ IF Window(cur) THEN running = stack[cur][2].next ELSE running = cur
  BY <1>1, <1>2, CallCpu
<1>9. Top.old = running
  BY <1>1, OldIs
<1>10. Stacks' /\ Keeps(Depth - 1) /\ Depth' = Depth /\ Top' = f /\ IsCall(f)
  BY <1>1, <1>2, <1>4, <1>5, <1>6, <1>7, CallTopChanges
<1>11. Shape'
  BY <1>1, <1>5, <1>6, <1>7, <1>8, <1>9, <1>10, CallTopShape
<1>12. CleanOK'
  BY <1>1, <1>2, <1>10, CallStaysClean
<1>13. \A t \in Threads \ created : Fresh(t)'
  BY <1>1, <1>6, <1>10, FreshStay DEF Keeps
<1>14. ready' \in Seq(created)
  BY <1>3, <1>4, FirstTaken
<1>15. broken' \in BOOLEAN
  BY ListsUsed DEF Get
<1>16. Typed'
  BY <1>1, <1>6, <1>13, <1>14, <1>15 DEF Typed
<1>17. IF ready = <<>> THEN f.at = "w_sstatus" /\ ready' = ready
       ELSE f.at = "set" /\ f.next = Head(ready) /\ ready' = Tail(ready)
  <2> DEFINE h == Head(ready)
  <2>1. ready # <<>> => f = [Top EXCEPT !.at = "set", !.next = h]
    BY <1>4
  <2> HIDE DEF h
  <2>2. ready # <<>> => f.at = "set" /\ f.next = h
    BY <1>3, <2>1 DEF CallFrames
  <2> QED BY <1>3, <1>4, <2>2 DEF CallFrames, h
<1> QED BY <1>10, <1>11, <1>12, <1>16, <1>17, FoundIs DEF Kept

LEMMA SetRunningKeeps ==
    ASSUME IInv, SetRunning
    PROVE  Kept' /\ Keeps(Depth - 1) /\ Depth' = Depth /\ Top'.at = "switch"
<1>1. Shape /\ Stacks /\ Typed /\ CleanOK /\ cur \in Threads /\ Top.at = "set"
  BY AtIs DEF SetRunning
<1>2. IsCall(Top)
  BY <1>1, IsCallAt DEF CallPlaces
<1> DEFINE f == [Top EXCEPT !.at = "switch"]
<1>3. Top \in CallFrames(created)
  BY <1>1, <1>2, CallIs
<1>4. f \in CallFrames(created) /\ f.at = "switch" /\ f.to = Top.to /\ f.ksepc = Top.ksepc
      /\ f.ksstatus = Top.ksstatus /\ f.old = Top.old /\ f.next = Top.next
  BY <1>3 DEF CallFrames, CallPlaces
<1>5. SetTop(f) /\ UNCHANGED <<csrs, queues, created, finished, cur, context, hits>>
      /\ running' = Top.next
  BY DEF SetRunning, Goto
<1>6. UNCHANGED <<mode, sie, spie, spp, sepc, ready, away, broken, created, finished,
                  cur, context, hits>>
  BY <1>5 DEF csrs, sstatus, queues
<1> HIDE DEF f
<1>7. /\ Depth \in Nat /\ Depth >= 2 /\ Top.old \in created /\ Top.next \in created
      /\ Depth > 2 => Top.ksepc = Came(Depth - 1) /\ Top.ksstatus = <<FALSE, Below.sie, Below.from>>
      /\ Depth = 2 => Top.old = cur /\ Top.ksstatus # <<>>
  BY <1>1, <1>2, CallIs
<1>8. /\ Depth > 2 => mode = "S" /\ ~sie
      /\ IF Window(cur) THEN running = stack[cur][2].next ELSE running = cur
  BY <1>1, <1>2, CallCpu
<1>9. Top.old = running
  BY <1>1, OldIs
<1>10. Stacks' /\ Keeps(Depth - 1) /\ Depth' = Depth /\ Top' = f /\ IsCall(f)
  BY <1>1, <1>2, <1>4, <1>5, <1>6, <1>7, CallTopChanges
<1>11. f.old = IF Window(cur) THEN stack[cur][2].next ELSE cur
  BY <1>4, <1>8, <1>9
<1>12. Shape'
  BY <1>1, <1>4, <1>5, <1>6, <1>7, <1>8, <1>10, <1>11, CallTopShape
<1>13. CleanOK'
  BY <1>1, <1>2, <1>10, CallStaysClean
<1>14. \A t \in Threads \ created : Fresh(t)'
  BY <1>1, <1>6, <1>10, FreshStay DEF Keeps
<1>15. Typed'
  BY <1>1, <1>5, <1>6, <1>7, <1>14 DEF Typed
<1> QED BY <1>4, <1>10, <1>12, <1>13, <1>15, FoundIs DEF Kept

LEMMA EpilogueIs ==
    Last(Epilogue) = "w_sepc"
  BY DEF Epilogue, Last

LEMMA WriteSstatusKeeps ==
    ASSUME IInv, WriteSstatus
    PROVE  Kept' /\ Keeps(Depth - 1) /\ Depth' = Depth /\ Top'.at = "w_sepc"
<1>1. Shape /\ Stacks /\ Typed /\ CleanOK /\ cur \in Threads /\ Top.at = "w_sstatus"
  BY AtIs DEF WriteSstatus
<1>2. IsCall(Top)
  BY <1>1, IsCallAt DEF CallPlaces
<1> DEFINE f == [Top EXCEPT !.at = "w_sepc"]
<1>3. Top \in CallFrames(created)
  BY <1>1, <1>2, CallIs
<1>4. f \in CallFrames(created) /\ f.at = "w_sepc" /\ f.to = Top.to /\ f.ksepc = Top.ksepc
      /\ f.ksstatus = Top.ksstatus
  BY <1>3 DEF CallFrames, CallPlaces
<1>5. SetTop(f) /\ UNCHANGED <<mode, sepc, sched, cur, context, hits>>
      /\ sie' = Top.ksstatus[1] /\ spie' = Top.ksstatus[2] /\ spp' = Top.ksstatus[3]
  BY EpilogueIs DEF WriteSstatus, Goto, Written, SstatusRead
<1>6. UNCHANGED <<mode, sepc, running, ready, away, broken, created, finished, cur, context, hits>>
  BY <1>5 DEF sched, queues
<1> HIDE DEF f
<1>7. /\ Depth \in Nat /\ Depth >= 2
      /\ Depth > 2 => Top.ksepc = Came(Depth - 1) /\ Top.ksstatus = <<FALSE, Below.sie, Below.from>>
      /\ Depth = 2 => Top.ksstatus # <<>>
  BY <1>1, <1>2, CallIs
<1>8. /\ Depth > 2 => mode = "S"
      /\ IF Window(cur) THEN running = stack[cur][2].next ELSE running = cur
  BY <1>1, <1>2, CallCpu
<1>9. ASSUME Depth > 2 PROVE sie' = FALSE /\ spie' = Below.sie /\ spp' = Below.from
  <2> DEFINE a == Below.sie
  <2> DEFINE b == Below.from
  <2>1. Top.ksstatus = <<FALSE, a, b>>
    BY <1>7, <1>9
  <2> HIDE DEF a, b
  <2>2. sie' = FALSE /\ spie' = a /\ spp' = b
    BY <1>5, <2>1
  <2> QED BY <2>2 DEF a, b
<1>10. Stacks' /\ Keeps(Depth - 1) /\ Depth' = Depth /\ Top' = f /\ IsCall(f)
  BY <1>1, <1>2, <1>4, <1>5, <1>6, <1>7, CallTopChanges
<1>11. Shape'
  BY <1>1, <1>4, <1>6, <1>7, <1>8, <1>9, <1>10, CallTopShape
<1>12. CleanOK'
  BY <1>1, <1>2, <1>10, CallStaysClean
<1>13. \A t \in Threads \ created : Fresh(t)'
  BY <1>1, <1>6, <1>10, FreshStay DEF Keeps
<1>14. sie' \in BOOLEAN /\ spie' \in BOOLEAN /\ spp' \in {"U", "S"}
  <2>1. Top.ksstatus # <<>>
    <3>1. CASE Depth > 2
      <4>1. Top.ksstatus = <<FALSE, Below.sie, Below.from>>
        BY <1>7, <3>1
      <4> QED BY <4>1
    <3>2. CASE Depth = 2
      BY <1>7, <3>2
    <3> QED BY <1>7, <3>1, <3>2
  <2>2. Top.ksstatus \in BOOLEAN \X BOOLEAN \X {"U", "S"}
    BY <1>3, <2>1 DEF CallFrames
  <2> QED BY <1>5, <2>2
<1>15. Typed'
  BY <1>1, <1>6, <1>13, <1>14 DEF Typed
<1> QED BY <1>4, <1>10, <1>11, <1>12, <1>15, FoundIs DEF Kept

\* What is below a dispatch executes again.
LEMMA PopViews ==
    ASSUME Stacks, cur \in Threads, Depth > 1, Keeps(Depth - 2), Depth' = Depth - 1
    PROVE  /\ Depth > 2 => Came(Depth)' = Came(Depth - 1) /\ stack'[cur'][1] = stack[cur][1]
           /\ Depth > 3 => Came(Depth - 1)' = Came(Depth - 2) /\ stack'[cur'][2] = stack[cur][2]
                           /\ (Window(cur)' <=> Window(cur)) /\ Below' = stack[cur][Depth - 2]
           /\ Depth <= 3 => ~Window(cur)'
<1> DEFINE n == Depth
<1>1. n \in Nat /\ n > 1 /\ n = Len(stack[cur])
  BY TopIs DEF Depth
<1>2. Depth' = n - 1 /\ cur' = cur /\ Len(stack'[cur]) = (n - 2) + 1
      /\ \A i \in 1..(n - 2) : stack'[cur][i] = stack[cur][i]
  BY DEF Keeps, OnlyCur
<1> HIDE DEF n
<1>3. n > 2 => (n - 1) - 1 \in 1..(n - 2) /\ 1 \in 1..(n - 2)
  BY <1>1
<1>4. n > 3 => 2 \in 1..(n - 2) /\ (n - 2) - 1 \in 1..(n - 2) /\ (n - 1) - 1 = n - 2
               /\ n - 2 \in 1..(n - 2)
  BY <1>1
<1>5. n > 2 => stack'[cur][(n-1)-1] = stack[cur][(n-1)-1] /\ stack'[cur'][1] = stack[cur][1]
  BY <1>2, <1>3
<1>6. n > 3 => stack'[cur][(n-2)-1] = stack[cur][(n-2)-1] /\ stack'[cur'][2] = stack[cur][2]
               /\ stack'[cur][(n-1)-1] = stack[cur][n-2]
  BY <1>2, <1>4
<1>7. Len(stack'[cur]) = n - 1 /\ (n > 3 => n - 1 > 2 /\ n > 2) /\ (n <= 3 => ~(n - 1 > 2))
  BY <1>1, <1>2
<1>8. n = Depth
  BY DEF n
<1>9. n > 2 => Came(Depth)' = Came(n - 1) /\ stack'[cur'][1] = stack[cur][1]
  BY <1>2, <1>5 DEF Came
<1>10. n > 3 => Came(Depth - 1)' = Came(n - 2) /\ Below' = stack[cur][n - 2]
  <2>1. (n - 1) - 1 = n - 2
    BY <1>1
  <2> QED BY <1>2, <1>6, <2>1 DEF Came, Below
<1>11. n > 3 => (Window(cur)' <=> Window(cur))
  BY <1>1, <1>2, <1>6, <1>7 DEF Window
<1>12. n <= 3 => ~Window(cur)'
  BY <1>2, <1>7 DEF Window
<1> QED BY <1>6, <1>8, <1>9, <1>10, <1>11, <1>12

LEMMA BelowIs ==
    ASSUME Stacks, cur \in Threads, Depth > 1
    PROVE  /\ Below \in Frames(created)
           /\ Depth = 2 => BaseOK(cur, Below) /\ Below = stack[cur][1]
           /\ Depth > 2 => FrameOK(cur, stack[cur], Depth - 1, created) /\ Covered(stack[cur], Depth - 1)
<1>1. StackOK(cur, stack[cur], created) /\ Depth \in Nat /\ Depth = Len(stack[cur])
  BY TopIs DEF Stacks, Depth
<1>2. Depth - 1 \in 1..Len(stack[cur])
  BY <1>1
<1>3. Below \in Frames(created)
  BY <1>2, StackIs DEF Below
<1>4. Depth = 2 => BaseOK(cur, Below) /\ Below = stack[cur][1]
  <2>1. Depth = 2 => Depth - 1 = 1
    OBVIOUS
  <2> QED BY <1>1, <2>1 DEF StackOK, Below
<1>5. Depth > 2 => Depth - 1 \in 2..Len(stack[cur]) /\ Depth - 1 \in 2..(Len(stack[cur]) - 1)
  BY <1>1
<1> QED BY <1>1, <1>3, <1>4, <1>5 DEF StackOK

\* Frames do not depend on those above them.
LEMMA FrameStays ==
    ASSUME NEW t, NEW made, NEW s, NEW r, NEW n \in Nat, FrameOK(t, s, n, made),
           n > 1, \A i \in 1..n : r[i] = s[i]
    PROVE  FrameOK(t, r, n, made)
<1>1. r[n] = s[n] /\ r[n-1] = s[n-1] /\ (n > 2 => r[n-2] = s[n-2])
  <2>1. n \in 1..n /\ n - 1 \in 1..n /\ (n > 2 => n - 2 \in 1..n)
    OBVIOUS
  <2> QED BY <2>1
<1> QED BY <1>1 DEF FrameOK, TrapOK, CallOK, InnerOK, OuterOK

LEMMA StacksPop ==
    ASSUME Stacks, cur \in Threads, cur' = cur, created' = created, Depth > 1,
           NEW f \in Frames(created),
           \/ stack' = [stack EXCEPT ![cur] = Front(@)] /\ f = stack[cur][Depth - 1]
           \/ stack' = [stack EXCEPT ![cur] = Append(SubSeq(stack[cur], 1, Depth - 2), f)],
           Depth > 2 => f = Below,
           Depth = 2 => BaseOK(cur, f)
    PROVE  Stacks' /\ Keeps(Depth - 2) /\ Top' = f /\ Depth' = Depth - 1
           /\ stack'[cur][Depth - 1] = f
<1>1. Keeps(Depth - 2) /\ stack'[cur] \in Seq(Frames(created)) /\ Top' = f
      /\ stack'[cur][Depth - 1] = f /\ Depth' = Depth - 1
  BY PopKeeps
<1> DEFINE n == Depth
<1> DEFINE s == stack[cur]
<1> DEFINE r == stack'[cur]
<1>2. n \in Nat /\ n > 1
  BY TopIs
<1>3. n > 2 => FrameOK(cur, s, n - 1, created) /\ s[n-1] = f
  BY BelowIs DEF Below
<1>4. r[n-1] = f /\ \A i \in 1..(n - 2) : r[i] = s[i]
  BY <1>1 DEF Keeps, OnlyCur
<1>5. n = 2 => BaseOK(cur, r[1])
  <2>1. n = 2 => n - 1 = 1
    OBVIOUS
  <2> QED BY <1>4, <2>1
<1> HIDE DEF n, s, r
<1>6. n > 2 => FrameOK(cur, r, n - 1, created)
  <2>1. n > 2 => \A i \in 1..(n - 1) : r[i] = s[i]
    BY <1>2, <1>3, <1>4
  <2>2. n > 2 => n - 1 \in Nat /\ n - 1 > 1
    BY <1>2
  <2> QED BY <1>3, <2>1, <2>2, FrameStays
<1>7. n - 2 \in 0..n /\ (n - 2) + 1 = n - 1 /\ n - 2 # n /\ (n - 2 > 0 <=> n > 2) /\ (n - 2 = 0 <=> n = 2)
  BY <1>2
<1>8. n - 2 = 0 => BaseOK(cur, r[1])
  BY <1>5, <1>7
<1>9. n - 2 > 0 => FrameOK(cur, r, (n - 2) + 1, created)
  BY <1>6, <1>7
<1>10. n = Depth /\ r = stack'[cur]
  BY DEF n, r
<1>11. Stacks'
  BY <1>1, <1>7, <1>8, <1>9, <1>10, StacksKeep
<1> QED BY <1>1, <1>11

\* From two frames on, a clean start is settled by them.
LEMMA SecondIsClean ==
    ASSUME CleanOK, Stacks, cur \in Threads, NEW k, Keeps(k),
           cur \in Apps => /\ Depth >= 2 /\ Depth' \in Nat /\ Depth' >= 2
                           /\ stack'[cur][1] = stack[cur][1]
                           /\ stack'[cur][2].from = stack[cur][2].from
    PROVE  CleanOK'
<1>1. ASSUME cur \in Apps, stack'[cur][1].clean PROVE CleanStart(cur)'
  <2>1. stack'[cur][1] = stack[cur][1] /\ stack'[cur][2].from = stack[cur][2].from /\ cur' = cur
    BY <1>1 DEF Keeps, OnlyCur
  <2>2. CleanStart(cur)
    BY <1>1, <2>1 DEF CleanOK
  <2> DEFINE n == Len(stack[cur])
  <2> DEFINE m == Len(stack'[cur])
  <2>3. n \in Nat /\ n >= 2 /\ m \in Nat /\ m >= 2
    BY <1>1, <2>1, StackIs DEF Depth
  <2> HIDE DEF n, m
  <2>4. n > 1 /\ n # 1 /\ m # 1
    BY <2>3
  <2>5. n = Len(stack[cur]) /\ m = Len(stack'[cur])
    BY DEF n, m
  <2> QED BY <2>1, <2>2, <2>4, <2>5 DEF CleanStart, InBody
<1> QED BY <1>1, OthersStayClean DEF Threads, Keeps

LEMMA WriteSepcKeeps ==
    ASSUME IInv, WriteSepc
    PROVE  Kept' /\ Keeps(Depth - 2) /\ Depth' = Depth - 1 /\ Top' = Below /\ (Depth > 2 => Below.at = "return")
<1>1. Shape /\ Stacks /\ Typed /\ CleanOK /\ cur \in Threads /\ Top.at = "w_sepc"
  BY AtIs DEF WriteSepc
<1>2. IsCall(Top)
  BY <1>1, IsCallAt DEF CallPlaces
<1>3. sepc' = Top.ksepc /\ stack' = [stack EXCEPT ![cur] = Front(@)]
  BY EpilogueIs DEF WriteSepc, Written
<1>4. UNCHANGED <<mode, sie, spie, spp, running, ready, away, broken, created, finished,
                  cur, context, hits>>
  BY DEF WriteSepc, sched, queues, sstatus
<1>5. /\ Depth \in Nat /\ Depth > 1 /\ Depth >= 2 /\ Top \in CallFrames(created)
      /\ Depth > 2 => Below.at = "return" /\ Below \in TrapFrames /\ Top.ksepc = Came(Depth - 1)
      /\ Depth = 2 => cur \notin Apps
  <2>1. Top.at # "r_sepc"
    BY <1>1
  <2>2. Depth \in Nat /\ Depth >= 2 /\ Top \in CallFrames(created)
        /\ (Depth > 2 => Below.at = "return" /\ Below \in TrapFrames /\ Top.ksepc = Came(Depth - 1))
        /\ (Depth = 2 => cur \notin Apps)
    BY <1>1, <1>2, <2>1, CallIs
  <2>3. Depth > 1
    BY <2>2
  <2> QED BY <2>2, <2>3
<1>6. Below \in Frames(created) /\ (Depth = 2 => BaseOK(cur, Below))
      /\ stack[cur][Depth - 1] = Below
  BY <1>1, <1>5, BelowIs DEF Below
<1>7. Stacks' /\ Keeps(Depth - 2) /\ Top' = Below /\ Depth' = Depth - 1 /\ stack'[cur][Depth - 1] = Below
  BY <1>1, <1>3, <1>4, <1>5, <1>6, StacksPop
<1>8. /\ Depth > 2 => Came(Depth)' = Came(Depth - 1) /\ stack'[cur'][1] = stack[cur][1]
      /\ Depth > 3 => stack'[cur'][2] = stack[cur][2] /\ (Window(cur)' <=> Window(cur))
      /\ Depth <= 3 => ~Window(cur)'
  BY <1>1, <1>5, <1>7, PopViews
<1>9. /\ Depth > 2 => mode = "S" /\ ~sie /\ spie = Below.sie /\ spp = Below.from
      /\ IF Window(cur) THEN running = stack[cur][2].next ELSE running = cur
      /\ Window(cur) => Depth > 2
      /\ cur \notin Apps => mode = "S"
  BY <1>1, <1>2, CallCpu
<1>10. Below.at # "switch" /\ Below.at # "csrw" /\ Below.at # "sret" /\ ~IsCall(Below)
       /\ (Depth = 2 => ~IsTrap(Below))
  BY <1>5, <1>6 DEF BaseOK, IsCall, IsTrap, TrapPlaces, CallPlaces
<1>11. Shape'
  <2>1. TrapCpu'
    <3>1. CASE Depth = 2
      BY <1>7, <1>10, <3>1 DEF TrapCpu
    <3>2. CASE Depth > 2
      BY <1>3, <1>4, <1>5, <1>7, <1>8, <1>9, <3>2 DEF TrapCpu
    <3> QED BY <1>5, <3>1, <3>2
  <2>2. InnerCpu' /\ BaseCpu'
    BY <1>7, <1>10 DEF InnerCpu, BaseCpu
  <2>3. KernelCpu'
    BY <1>4, <1>9 DEF KernelCpu
  <2>4. RunningIs'
    <3>1. CASE Depth > 3
      BY <1>4, <1>7, <1>8, <1>9, <1>10, <3>1 DEF RunningIs
    <3>2. CASE Depth = 3
      <4>1. stack[cur][2] = Below
        BY <1>6, <3>2
      <4>2. ~Window(cur)
        BY <1>10, <4>1 DEF Window
      <4> QED BY <1>4, <1>7, <1>8, <1>9, <1>10, <3>2, <4>2 DEF RunningIs
    <3>3. CASE Depth = 2
      BY <1>4, <1>7, <1>8, <1>9, <1>10, <3>3 DEF RunningIs
    <3> QED BY <1>5, <3>1, <3>2, <3>3
  <2>5. (\A t \in Threads \ {cur} : Waiting(t) /\ (Window(t) => stack[t][2].next = t))'
    BY <1>1, <1>7, OthersWait DEF Keeps
  <2> QED BY <2>1, <2>2, <2>3, <2>4, <2>5 DEF Shape
<1>12. CleanOK'
  <2>1. cur \in Apps => Depth > 2 /\ Depth' \in Nat /\ Depth' >= 2
    BY <1>5, <1>7
  <2>2. Depth > 2 => stack'[cur][2] = stack[cur][2]
    <3>1. CASE Depth > 3
      BY <1>4, <1>8, <3>1
    <3>2. CASE Depth = 3
      BY <1>6, <1>7, <3>2
    <3> QED BY <1>5, <3>1, <3>2
  <2> QED BY <1>1, <1>4, <1>5, <1>7, <1>8, <2>1, <2>2, SecondIsClean
<1>13. \A t \in Threads \ created : Fresh(t)'
  BY <1>1, <1>4, <1>7, FreshStay DEF Keeps
<1>14. sepc' \in SepcValues \union {NoPlace}
  BY <1>3, <1>5 DEF CallFrames
<1>15. Typed'
  BY <1>1, <1>4, <1>13, <1>14 DEF Typed
<1> QED BY <1>5, <1>7, <1>11, <1>12, <1>15, FoundIs DEF Kept

-----------------------------------------------------------------------------
\* The end of a trap.

LEMMA TrapIs ==
    ASSUME Stacks, cur \in Threads, IsTrap(Top)
    PROVE  /\ Depth \in Nat /\ Depth >= 2 /\ Depth > 1 /\ Top \in TrapFrames
           /\ ~IsTrap(Below)
           /\ Top.cause = "ecall" => Below.at = "ecall"
           /\ IsCall(Below) \/ cur \notin Apps \/ Below.at = "csrw" => Top.from = "S"
<1>1. Depth \in Nat \ {0} /\ Depth > 1 /\ TrapOK(cur, stack[cur], Depth) /\ Top \in TrapFrames
  BY TopIs
<1>2. Depth >= 2
  BY <1>1
<1> QED BY <1>1, <1>2 DEF TrapOK, Top, Below

LEMMA HandlerEndsKeeps ==
    ASSUME IInv, HandlerEnds
    PROVE  Kept' /\ Keeps(Depth - 1) /\ Depth' = Depth /\ Top'.at = "leave"
<1>1. Shape /\ Stacks /\ Typed /\ CleanOK /\ cur \in Threads /\ Top.at = "return"
  BY AtIs DEF HandlerEnds
<1>2. IsTrap(Top)
  BY <1>1 DEF IsTrap, TrapPlaces
<1>3. /\ Depth \in Nat /\ Depth >= 2 /\ Depth > 1 /\ Top \in TrapFrames
      /\ ~IsTrap(Below)
      /\ Top.cause = "ecall" => Below.at = "ecall"
      /\ IsCall(Below) \/ cur \notin Apps \/ Below.at = "csrw" => Top.from = "S"
  BY <1>1, <1>2, TrapIs
<1> DEFINE f == [Top EXCEPT !.at = "leave"]
<1>4. f \in TrapFrames /\ f.at = "leave" /\ f.cause = Top.cause /\ f.from = Top.from /\ f.sie = Top.sie
  BY <1>3 DEF TrapFrames, TrapPlaces
<1>5. SetTop(f) /\ sepc' = IF Top.cause = "ecall" THEN PastEcall(sepc) ELSE sepc
  BY DEF HandlerEnds, Goto
<1>6. UNCHANGED <<mode, sie, spie, spp, running, ready, away, broken, created, finished,
                  cur, context, hits>>
  BY DEF HandlerEnds, sched, queues, sstatus
<1> HIDE DEF f
<1>7. f \in Frames(created)
  BY <1>4 DEF Frames
<1>8. Keeps(Depth - 1) /\ stack'[cur] \in Seq(Frames(created)) /\ Top' = f
      /\ stack'[cur][Depth] = f /\ Depth' = Depth
  BY <1>1, <1>5, <1>6, <1>7, SetTopKeeps
<1>9. /\ Below' = Below /\ stack'[cur'][1] = stack[cur][1]
      /\ Came(Depth)' = Came(Depth)
      /\ Depth > 2 => stack'[cur'][2] = stack[cur][2]
      /\ Depth > 2 => (Window(cur)' <=> Window(cur))
  BY <1>1, <1>3, <1>8, BelowStays
<1>10. stack'[cur][Depth - 1] = Below
  BY <1>6, <1>8, <1>9 DEF Below
<1>11. IsTrap(f) /\ ~IsCall(f) /\ f.at \notin BasePlaces
  BY <1>4 DEF IsTrap, IsCall, TrapPlaces, CallPlaces, BasePlaces
<1>12. TrapOK(cur, stack'[cur], Depth)
  BY <1>3, <1>4, <1>8, <1>10 DEF TrapOK
<1>13. (Depth - 1) + 1 = Depth /\ Depth - 1 \in 0..Depth /\ Depth - 1 # 0 /\ Depth - 1 # Depth
  BY <1>3
<1>14. FrameOK(cur, stack'[cur], (Depth - 1) + 1, created')
  BY <1>12, <1>13 DEF FrameOK
<1>15. Stacks'
  BY <1>1, <1>6, <1>8, <1>13, <1>14, StacksKeep
<1>16. sepc = Came(Depth) /\ ~sie /\ mode = "S" /\ spp = Top.from /\ spie = Top.sie
  BY <1>1, <1>2 DEF Shape, TrapCpu
<1>17. Shape'
  <2>1. TrapCpu'
    BY <1>4, <1>5, <1>6, <1>8, <1>9, <1>16 DEF TrapCpu
  <2>2. InnerCpu' /\ BaseCpu'
    BY <1>4, <1>8, <1>11 DEF InnerCpu, BaseCpu
  <2>3. KernelCpu'
    BY <1>6, <1>16 DEF KernelCpu
  <2>4. Depth = 2 => ~Window(cur) /\ ~Window(cur)'
    BY <1>3, <1>6, <1>8 DEF Window, Depth
  <2>5. IF Window(cur) THEN running = stack[cur][2].next ELSE running = cur
    BY <1>1 DEF Shape, RunningIs
  <2>6. RunningIs'
    <3>1. CASE Depth > 2
      BY <1>4, <1>6, <1>8, <1>9, <2>5, <3>1 DEF RunningIs
    <3>2. CASE Depth = 2
      BY <1>4, <1>6, <1>8, <2>4, <2>5, <3>2 DEF RunningIs
    <3> QED BY <1>3, <3>1, <3>2
  <2>7. (\A t \in Threads \ {cur} : Waiting(t) /\ (Window(t) => stack[t][2].next = t))'
    BY <1>1, <1>8, OthersWait DEF Keeps
  <2> QED BY <2>1, <2>2, <2>3, <2>6, <2>7 DEF Shape
<1>18. CleanOK'
  <2>1. stack'[cur][2].from = stack[cur][2].from
    <3>1. CASE Depth > 2
      BY <1>6, <1>9, <3>1
    <3>2. CASE Depth = 2
      BY <1>4, <1>8, <3>2 DEF Top
    <3> QED BY <1>3, <3>1, <3>2
  <2> QED BY <1>1, <1>3, <1>6, <1>8, <1>9, <2>1, SecondIsClean
<1>19. \A t \in Threads \ created : Fresh(t)'
  BY <1>1, <1>6, <1>8, FreshStay DEF Keeps
<1>20. sepc' \in SepcValues \union {NoPlace}
  <2>1. Below.at \in Places
    BY <1>1, <1>3, BelowIs, FramesAre
  <2>2. Came(Depth) = [of |-> cur, at |-> Below.at]
    BY DEF Came, Below
  <2>3. Came(Depth) \in SepcValues
    BY <1>1, <2>1, <2>2 DEF SepcValues
  <2>4. PastEcall(Came(Depth)) \in SepcValues
    BY <2>3 DEF SepcValues, PastEcall, Places
  <2> QED BY <1>5, <1>16, <2>3, <2>4
<1>21. Typed'
  BY <1>1, <1>6, <1>19, <1>20 DEF Typed
<1> QED BY <1>4, <1>8, <1>15, <1>17, <1>18, <1>21, FoundIs DEF Kept

\* What sret resumes: the frame as it was, or the one behind the ecall.
LEMMA TrapResumes ==
    ASSUME IInv, TrapReturns
    PROVE  \E f \in Frames(created) :
             /\ stack' = [stack EXCEPT ![cur] = Append(SubSeq(stack[cur], 1, Depth - 2), f)]
             /\ IF Top.cause = "ecall" THEN Depth = 2 /\ f = [Below EXCEPT !.at = "compute"]
                ELSE f = Below /\ sepc = [of |-> cur, at |-> Below.at]
<1>1. Shape /\ Stacks /\ Typed /\ cur \in Threads /\ Top.at = "leave"
  BY AtIs DEF TrapReturns
<1>2. IsTrap(Top)
  BY <1>1 DEF IsTrap, TrapPlaces
<1>3. Depth \in Nat /\ Depth >= 2 /\ Depth > 1 /\ Top \in TrapFrames
      /\ (Top.cause = "ecall" => Below.at = "ecall")
  BY <1>1, <1>2, TrapIs
<1>4. Below \in Frames(created) /\ Below.at \in Places
      /\ (Depth > 2 => FrameOK(cur, stack[cur], Depth - 1, created))
  BY <1>1, <1>3, BelowIs, FramesAre
<1>5. Came(Depth) = [of |-> cur, at |-> Below.at] /\ Came(Depth) \in SepcValues
  BY <1>1, <1>4 DEF Came, Below, SepcValues
<1>6. sepc = IF Top.cause = "ecall" THEN PastEcall(Came(Depth)) ELSE Came(Depth)
  BY <1>1, <1>2 DEF Shape, TrapCpu
<1> DEFINE at == IF sepc # NoPlace /\ sepc.of = cur THEN sepc.at ELSE "astray"
<1> DEFINE f == [Below EXCEPT !.at = at]
<1>7. stack' = [stack EXCEPT ![cur] = Append(SubSeq(stack[cur], 1, Depth - 2), f)]
  BY DEF TrapReturns, Sret, Below
<1>8. CASE Top.cause = "ecall"
  <2>1. sepc = [of |-> cur, at |-> "compute"]
    BY <1>3, <1>5, <1>6, <1>8 DEF PastEcall
  <2>2. sepc # NoPlace
    BY <1>1, <2>1, PlaceAssumption DEF SepcValues, Places
  <2>3. f = [Below EXCEPT !.at = "compute"]
    BY <2>1, <2>2
  <2>4. Below.at = "ecall"
    BY <1>3, <1>8
  <2>5. Depth = 2
    <3>1. SUFFICES ASSUME Depth > 2 PROVE FALSE
      BY <1>3
    <3>2. TrapOK(cur, stack[cur], Depth - 1) \/ CallOK(cur, stack[cur], Depth - 1, created)
      BY <1>4, <3>1 DEF FrameOK
    <3>3. Below \in TrapFrames \/ Below \in CallFrames(created)
      BY <3>2 DEF TrapOK, CallOK, Below
    <3> QED BY <2>4, <3>3 DEF TrapFrames, CallFrames, TrapPlaces, CallPlaces
  <2>6. f \in Frames(created)
    <3>1. Below \in BaseFrames
      BY <1>4, <2>4, FramesAre DEF BasePlaces
    <3> QED BY <2>3, <3>1 DEF Frames, BaseFrames, BasePlaces
  <2> HIDE DEF f
  <2> QED BY <1>7, <1>8, <2>3, <2>5, <2>6
<1>9. CASE Top.cause # "ecall"
  <2>1. sepc = [of |-> cur, at |-> Below.at] /\ sepc # NoPlace
    BY <1>5, <1>6, <1>9, PlaceAssumption
  <2>2. at = Below.at
    BY <2>1
  <2>3. f = Below
    BY <1>4, <2>2 DEF Frames, BaseFrames, TrapFrames, CallFrames
  <2> HIDE DEF f
  <2> QED BY <1>4, <1>7, <1>9, <2>1, <2>3
<1> QED BY <1>8, <1>9

LEMMA TrapReturnsKeeps ==
    ASSUME IInv, TrapReturns
    PROVE  /\ Kept' /\ Keeps(Depth - 2) /\ Depth' = Depth - 1 /\ Depth >= 2
           /\ Depth = 2 => Top'.at \in BasePlaces
           /\ Depth > 3 => Top'.at = "w_sstatus"
           /\ Depth = 3 => cur \notin Apps /\ Top' = stack[cur][2] /\ stack'[cur][2] = stack[cur][2]
<1>1. Shape /\ Stacks /\ Typed /\ CleanOK /\ cur \in Threads /\ Top.at = "leave"
  BY AtIs DEF TrapReturns
<1>2. IsTrap(Top)
  BY <1>1 DEF IsTrap, TrapPlaces
<1>3. /\ Depth \in Nat /\ Depth >= 2 /\ Depth > 1 /\ Top \in TrapFrames
      /\ ~IsTrap(Below)
      /\ Top.cause = "ecall" => Below.at = "ecall"
      /\ IsCall(Below) \/ cur \notin Apps \/ Below.at = "csrw" => Top.from = "S"
  BY <1>1, <1>2, TrapIs
<1>4. ~sie /\ mode = "S" /\ spp = Top.from /\ spie = Top.sie
  BY <1>1, <1>2 DEF Shape, TrapCpu
<1>5. PICK f \in Frames(created) :
        /\ stack' = [stack EXCEPT ![cur] = Append(SubSeq(stack[cur], 1, Depth - 2), f)]
        /\ IF Top.cause = "ecall" THEN Depth = 2 /\ f = [Below EXCEPT !.at = "compute"]
           ELSE f = Below /\ sepc = [of |-> cur, at |-> Below.at]
  BY TrapResumes
<1>6. UNCHANGED <<running, ready, away, broken, created, finished, cur, context, hits>>
  BY DEF TrapReturns, Sret, sched, queues
<1>7. mode' = Top.from /\ sie' = Top.sie /\ spie' = TRUE /\ spp' = "U"
      /\ sepc' = IF Below.at = "sret" THEN sepc ELSE NoPlace
  BY <1>1, <1>4 DEF TrapReturns, Sret, Below
<1>8. /\ Below \in Frames(created)
      /\ Depth = 2 => BaseOK(cur, Below) /\ Below = stack[cur][1]
      /\ Depth > 2 => FrameOK(cur, stack[cur], Depth - 1, created) /\ Covered(stack[cur], Depth - 1)
  BY <1>1, <1>3, BelowIs
<1>9. /\ ~IsTrap(f) /\ f.at # "leave" /\ f.at # "return"
      /\ f.at = Below.at \/ (Top.cause = "ecall" /\ Below.at = "ecall" /\ f.at = "compute" /\ Depth = 2)
      /\ Depth = 2 => BaseOK(cur, f) /\ f.clean = Below.clean
      /\ Depth > 2 => f = Below
  <2>1. CASE Top.cause = "ecall"
    <3>1. Below \in BaseFrames /\ cur \in Apps /\ Below.at = "ecall"
      BY <1>3, <1>5, <1>8, <2>1 DEF BaseOK
    <3>2. f.at = "compute" /\ f \in BaseFrames /\ f.clean = Below.clean
      BY <1>5, <2>1, <3>1 DEF BaseFrames, BasePlaces
    <3> QED BY <1>5, <2>1, <3>1, <3>2 DEF BaseOK, IsTrap, TrapPlaces
  <2>2. CASE Top.cause # "ecall"
    BY <1>3, <1>5, <1>8, <2>2 DEF IsTrap, TrapPlaces
  <2> QED BY <2>1, <2>2
<1>10. Stacks' /\ Keeps(Depth - 2) /\ Top' = f /\ Depth' = Depth - 1 /\ stack'[cur][Depth - 1] = f
  BY <1>1, <1>3, <1>5, <1>6, <1>9, StacksPop
<1>11. /\ Depth > 2 => stack'[cur'][1] = stack[cur][1]
       /\ Depth > 3 => stack'[cur'][2] = stack[cur][2] /\ (Window(cur)' <=> Window(cur))
       /\ Depth <= 3 => ~Window(cur)'
  BY <1>1, <1>3, <1>10, PopViews
<1>12. Depth = 3 => Below = stack[cur][2]
  BY DEF Below
<1>13. Depth > 3 /\ IsCall(f) => f.at = "w_sstatus"
  <2>1. Depth > 3 => Depth - 1 > 2
    BY <1>3
  <2> QED BY <1>3, <1>8, <1>9, <2>1 DEF Covered, Below
<1>14. Depth = 2 => ~IsCall(f) /\ ~IsCall(Below)
  BY <1>8, <1>9 DEF BaseOK, IsCall, CallPlaces
<1>15. Depth > 2 => IsCall(f)
  <2>1. Depth > 2 => IsTrap(Below) \/ IsCall(Below)
    <3>1. Depth > 2 => TrapOK(cur, stack[cur], Depth - 1) \/ CallOK(cur, stack[cur], Depth - 1, created)
      BY <1>8 DEF FrameOK
    <3> QED BY <3>1 DEF TrapOK, CallOK, Below, TrapFrames, CallFrames, IsTrap, IsCall
  <2> QED BY <1>3, <1>9, <2>1
<1>16. Shape'
  <2>1. TrapCpu'
    BY <1>9, <1>10 DEF TrapCpu
  <2>2. InnerCpu'
    <3>1. ASSUME IsCall(f), Depth' > 2 PROVE f.at = "w_sstatus" /\ mode' = "S"
      <4>1. Depth > 3 /\ Depth > 2
        BY <1>3, <1>10, <3>1
      <4> QED BY <1>3, <1>7, <1>9, <1>13, <3>1, <4>1
    <3> QED BY <1>10, <3>1 DEF InnerCpu
  <2>3. KernelCpu'
    BY <1>3, <1>6, <1>7 DEF KernelCpu
  <2>4. BaseCpu'
    <3>1. ASSUME f.at = "csrw" PROVE mode' = "S"
      BY <1>3, <1>7, <1>9, <3>1
    <3>2. ASSUME f.at = "sret" PROVE sepc' = [of |-> cur, at |-> "sret"] /\ sepc' # NoPlace
      <4>1. Below.at = "sret" /\ Top.cause # "ecall"
        BY <1>3, <1>9, <3>2
      <4>2. sepc' = [of |-> cur, at |-> "sret"]
        BY <1>5, <1>7, <4>1
      <4> QED BY <1>1, <4>2, PlaceAssumption DEF SepcValues, Places
    <3> QED BY <1>6, <1>7, <1>10, <3>1, <3>2 DEF BaseCpu
  <2>5. IF Window(cur) THEN running = stack[cur][2].next ELSE running = cur
    BY <1>1 DEF Shape, RunningIs
  <2>6. RunningIs'
    <3>1. CASE Depth > 3
      <4>1. f.at # "switch"
        <5>1. Depth > 2
          BY <1>3, <3>1
        <5> QED BY <1>13, <1>15, <3>1, <5>1
      <4> QED BY <1>6, <1>10, <1>11, <2>5, <3>1, <4>1 DEF RunningIs
    <3>2. CASE Depth = 3
      <4>1. Depth > 2 /\ Depth <= 3
        BY <3>2
      <4>2. f = stack[cur][2] /\ IsCall(f)
        BY <1>9, <1>12, <1>15, <3>2, <4>1
      <4>3. cur \notin Apps
        <5>1. Depth - 1 = 2
          BY <3>2
        <5>2. FrameOK(cur, stack[cur], 2, created)
          BY <1>8, <4>1, <5>1
        <5> QED BY <4>2, <5>2 DEF FrameOK, TrapOK, CallOK, InnerOK, OuterOK, TrapFrames,
                  IsCall, TrapPlaces, CallPlaces
      <4>4. Window(cur) <=> f.at = "switch"
        BY <3>2, <4>2, <4>3 DEF Window, Depth
      <4> QED BY <1>6, <1>10, <1>11, <2>5, <4>1, <4>2, <4>4 DEF RunningIs
    <3>3. CASE Depth = 2
      <4>1. ~Window(cur) /\ f.at # "switch" /\ Depth <= 3
        BY <1>14, <3>3 DEF Window, Depth, IsCall, CallPlaces
      <4> QED BY <1>6, <1>10, <1>11, <2>5, <4>1 DEF RunningIs
    <3> QED BY <1>3, <3>1, <3>2, <3>3
  <2>7. (\A t \in Threads \ {cur} : Waiting(t) /\ (Window(t) => stack[t][2].next = t))'
    BY <1>1, <1>10, OthersWait DEF Keeps
  <2> QED BY <2>1, <2>2, <2>3, <2>4, <2>6, <2>7 DEF Shape
<1>17. CleanOK'
  <2>1. CASE Depth > 2
    <3>1. Depth >= 2 /\ Depth' \in Nat /\ Depth' >= 2
      BY <1>3, <1>10, <2>1
    <3>2. stack'[cur][2] = stack[cur][2]
      <4>1. CASE Depth > 3
        BY <1>6, <1>11, <4>1
      <4>2. CASE Depth = 3
        BY <1>9, <1>10, <1>12, <4>2
      <4> QED BY <1>3, <2>1, <4>1, <4>2
    <3> QED BY <1>1, <1>6, <1>10, <1>11, <2>1, <3>1, <3>2, SecondIsClean
  <2>2. CASE Depth = 2
    <3>1. stack'[cur][1] = f /\ Depth' = 1 /\ Len(stack'[cur]) = 1 /\ f.clean = Below.clean
      BY <1>6, <1>9, <1>10, <2>2 DEF Depth
    <3>2. ASSUME cur \in Apps, f.clean PROVE CleanStart(cur)'
      <4>1. CleanStart(cur) /\ Below = stack[cur][1]
        BY <1>1, <1>8, <2>2, <3>1, <3>2 DEF CleanOK
      <4>2. Len(stack[cur]) = 2 /\ Top = stack[cur][2]
        BY <2>2 DEF Depth, Top
      <4>3. Below.at \in {"csrw", "sret", "compute", "ecall"}
        BY <1>8, <2>2, <3>2 DEF BaseOK
      <4>4. Below.at \in {"compute", "ecall"}
        BY <4>1, <4>2, <4>3 DEF CleanStart
      <4>5. Top.from = "U"
        BY <3>2, <4>1, <4>2, <4>4 DEF CleanStart, InBody
      <4>6. f.at \in {"compute", "ecall"}
        BY <1>9, <4>4
      <4> QED BY <1>6, <1>7, <3>1, <4>5, <4>6 DEF CleanStart, InBody
    <3> QED BY <1>1, <1>10, <3>1, <3>2, OthersStayClean DEF Threads, Keeps
  <2> QED BY <1>3, <2>1, <2>2
<1>18. \A t \in Threads \ created : Fresh(t)'
  BY <1>1, <1>6, <1>10, FreshStay DEF Keeps
<1>19. mode' \in {"U", "S"} /\ sie' \in BOOLEAN
  BY <1>3, <1>7 DEF TrapFrames
<1>20. Typed'
  BY <1>1, <1>6, <1>7, <1>18, <1>19 DEF Typed
<1>21. Depth = 2 => f.at \in BasePlaces
  BY <1>9 DEF BaseOK, BaseFrames
<1>22. Depth > 3 => f.at = "w_sstatus"
  <2>1. Depth > 3 => Depth > 2
    BY <1>3
  <2> QED BY <1>13, <1>15, <2>1
<1>23. Depth = 3 => cur \notin Apps /\ f = stack[cur][2] /\ stack'[cur][2] = f
  <2>1. ASSUME Depth = 3 PROVE cur \notin Apps
    <3>1. Depth - 1 = 2 /\ Depth > 2
      BY <2>1
    <3>2. FrameOK(cur, stack[cur], 2, created) /\ IsCall(stack[cur][2])
      BY <1>8, <1>9, <1>12, <1>15, <2>1, <3>1
    <3> QED BY <3>2 DEF FrameOK, TrapOK, CallOK, InnerOK, OuterOK, TrapFrames,
              IsCall, TrapPlaces, CallPlaces
  <2> QED BY <1>9, <1>10, <1>12, <2>1
<1> QED BY <1>3, <1>10, <1>16, <1>17, <1>20, <1>21, <1>22, <1>23, FoundIs DEF Kept

-----------------------------------------------------------------------------
\* Threads outside traps.

LEMMA BaseIs ==
    ASSUME Stacks, cur \in Threads, Top.at \in BasePlaces
    PROVE  /\ Depth = 1 /\ BaseOK(cur, Top) /\ Top \in BaseFrames /\ Top = stack[cur][1]
           /\ Len(stack[cur]) = 1 /\ ~Window(cur)
<1>1. Depth = 1 /\ BaseOK(cur, Top)
  BY TopIs
<1>2. Top = stack[cur][1] /\ Len(stack[cur]) = 1 /\ Top \in BaseFrames
  BY <1>1 DEF Top, Depth, BaseOK
<1> QED BY <1>1, <1>2 DEF Window

\* A thread outside traps replaces its frame.
LEMMA BaseChanges ==
    ASSUME Stacks, cur \in Threads, Depth = 1, cur' = cur, created' = created,
           NEW f, BaseOK(cur, f),
           \/ SetTop(f)
           \/ stack' = [stack EXCEPT ![cur] = Append(<<>>, f)]
    PROVE  Stacks' /\ Keeps(0) /\ Top' = f /\ Depth' = 1 /\ stack'[cur] = <<f>>
<1>1. f \in Frames(created) /\ stack = [t \in Threads |-> stack[t]] /\ Len(stack[cur]) = 1
  BY DEF Frames, BaseOK, Stacks, Depth
<1>2. stack[cur] \in Seq(Frames(created)) /\ stack[cur] # <<>>
  BY StackIs
<1>3. stack' = [t \in Threads |-> stack'[t]] /\ \A t \in Threads \ {cur} : stack'[t] = stack[t]
  BY <1>1 DEF SetTop
<1>4. stack'[cur] = <<f>>
  <2>1. CASE SetTop(f)
    <3> DEFINE s == stack[cur]
    <3>1. stack'[cur] = [s EXCEPT ![1] = f]
      BY <1>1, <2>1 DEF SetTop
    <3>2. s \in Seq(Frames(created)) /\ s # <<>> /\ Len(s) = 1
      BY <1>1, <1>2
    <3> HIDE DEF s
    <3>3. [s EXCEPT ![1] = f] = <<f>>
      BY <1>1, <3>2
    <3> QED BY <3>1, <3>3
  <2>2. CASE stack' = [stack EXCEPT ![cur] = Append(<<>>, f)]
    BY <1>1, <2>2
  <2> QED BY <2>1, <2>2
<1>5. Len(stack'[cur]) = 1 /\ stack'[cur] \in Seq(Frames(created)) /\ stack'[cur][1] = f
  BY <1>1, <1>4
<1>6. Keeps(0)
  BY <1>3, <1>5 DEF Keeps, OnlyCur
<1>7. Top' = f /\ Depth' = 1
  BY <1>5 DEF Top, Depth
<1>8. Stacks'
  BY <1>5, <1>6, StacksKeep
<1> QED BY <1>4, <1>6, <1>7, <1>8

LEMMA BaseShape ==
    ASSUME Shape, Stacks, cur \in Threads, OnlyCur, NEW f, Top' = f, Depth' = 1,
           f.at \in BasePlaces, running' = cur, cur \notin Apps => mode' = "S",
           f.at = "csrw" => mode' = "S",
           f.at = "sret" => sepc' = [of |-> cur, at |-> "compute"]
    PROVE  Shape'
<1>1. cur' = cur /\ ~Window(cur)'
  BY DEF OnlyCur, Window, Depth
<1>2. ~IsTrap(f) /\ ~IsCall(f)
  BY DEF BasePlaces, IsTrap, IsCall, TrapPlaces, CallPlaces
<1>3. TrapCpu' /\ InnerCpu'
  BY <1>2 DEF TrapCpu, InnerCpu
<1>4. KernelCpu'
  BY <1>1 DEF KernelCpu
<1>5. f.at = "sret" => sepc' # NoPlace /\ sepc' # [of |-> cur, at |-> "sret"]
  BY PlaceAssumption DEF SepcValues, Places
<1>6. BaseCpu'
  BY <1>1, <1>5 DEF BaseCpu
<1>7. f.at # "switch"
  BY DEF BasePlaces
<1>8. RunningIs'
  BY <1>1, <1>7 DEF RunningIs
<1>9. (\A t \in Threads \ {cur} : Waiting(t) /\ (Window(t) => stack[t][2].next = t))'
  BY OthersWait
<1> QED BY <1>3, <1>4, <1>6, <1>8, <1>9 DEF Shape

LEMMA BaseCpuIs ==
    ASSUME Shape, Stacks, cur \in Threads, Top.at \in BasePlaces
    PROVE  running = cur /\ (cur \notin Apps => mode = "S") /\ BaseCpu
<1>1. ~Window(cur)
  BY BaseIs
<1>2. Top.at # "switch"
  BY DEF BasePlaces
<1> QED BY <1>1, <1>2 DEF Shape, RunningIs, KernelCpu

LEMMA SetReturnAddressKeeps ==
    ASSUME IInv, SetReturnAddress
    PROVE  Kept' /\ Keeps(0) /\ Depth' = 1 /\ Depth = 1 /\ Top'.at = "sret"
<1>1. Shape /\ Stacks /\ Typed /\ CleanOK /\ cur \in Threads /\ Top.at = "csrw"
  BY AtIs DEF SetReturnAddress
<1>2. Top.at \in BasePlaces
  BY <1>1 DEF BasePlaces
<1>3. Depth = 1 /\ BaseOK(cur, Top) /\ Top \in BaseFrames /\ Top = stack[cur][1] /\ Len(stack[cur]) = 1
  BY <1>1, <1>2, BaseIs
<1> DEFINE f == [Top EXCEPT !.at = "sret"]
<1>4. cur \in Apps /\ BaseOK(cur, f) /\ f.at = "sret" /\ f.at \in BasePlaces /\ f.clean = Top.clean
  BY <1>1, <1>3 DEF BaseOK, BaseFrames, BasePlaces
<1>5. SetTop(f) /\ sepc' = [of |-> cur, at |-> "compute"]
  BY DEF SetReturnAddress, Goto
<1>6. UNCHANGED <<mode, sie, spie, spp, running, ready, away, broken, created, finished,
                  cur, context, hits>>
  BY DEF SetReturnAddress, sched, queues, sstatus
<1> HIDE DEF f
<1>7. Stacks' /\ Keeps(0) /\ Top' = f /\ Depth' = 1 /\ stack'[cur] = <<f>>
  BY <1>1, <1>3, <1>4, <1>5, <1>6, BaseChanges
<1>8. running = cur /\ BaseCpu
  BY <1>1, <1>2, BaseCpuIs
<1>9. Shape'
  BY <1>1, <1>4, <1>5, <1>6, <1>7, <1>8, BaseShape DEF Keeps
<1>10. CleanOK'
  <2>1. stack'[cur][1] = f /\ Len(stack'[cur]) = 1
    BY <1>7
  <2>2. ASSUME f.clean PROVE CleanStart(cur)'
    <3>1. CleanStart(cur)
      BY <1>1, <1>3, <1>4, <2>2 DEF CleanOK
    <3>2. ~InBody(cur)'
      BY <1>4, <1>6, <2>1 DEF InBody
    <3> QED BY <1>1, <1>3, <1>5, <1>6, <2>1, <3>1, <3>2 DEF CleanStart
  <2> QED BY <1>1, <1>7, <2>1, <2>2, OthersStayClean DEF Threads, Keeps
<1>11. \A t \in Threads \ created : Fresh(t)'
  BY <1>1, <1>6, <1>7, FreshStay DEF Keeps
<1>12. sepc' \in SepcValues
  BY <1>1, <1>5 DEF SepcValues, Places
<1>13. Typed'
  BY <1>1, <1>6, <1>11, <1>12 DEF Typed
<1> QED BY <1>3, <1>4, <1>7, <1>9, <1>10, <1>13, FoundIs DEF Kept

LEMMA DropPrivilegeKeeps ==
    ASSUME IInv, DropPrivilege
    PROVE  Kept' /\ Keeps(0) /\ Depth' = 1 /\ Depth = 1 /\ Top'.at \in BasePlaces
<1>1. Shape /\ Stacks /\ Typed /\ CleanOK /\ cur \in Threads /\ Top.at = "sret" /\ mode = "S"
  BY AtIs DEF DropPrivilege
<1>2. Top.at \in BasePlaces
  BY <1>1 DEF BasePlaces
<1>3. Depth = 1 /\ BaseOK(cur, Top) /\ Top \in BaseFrames /\ Top = stack[cur][1] /\ Len(stack[cur]) = 1
  BY <1>1, <1>2, BaseIs
<1>4. running = cur /\ BaseCpu
  BY <1>1, <1>2, BaseCpuIs
<1> DEFINE at == IF sepc # NoPlace /\ sepc.of = cur THEN sepc.at ELSE "astray"
<1> DEFINE f == [Top EXCEPT !.at = at]
<1>5. /\ sepc # NoPlace
      /\ \/ sepc = [of |-> cur, at |-> "compute"]
         \/ sepc = [of |-> cur, at |-> "sret"] /\ spp = "U"
  BY <1>1, <1>4 DEF BaseCpu
<1>6. /\ cur \in Apps /\ BaseOK(cur, f) /\ f.at \in {"compute", "sret"} /\ f.at \in BasePlaces
      /\ f.clean = Top.clean
      /\ f.at = "sret" => sepc = [of |-> cur, at |-> "sret"] /\ spp = "U"
      /\ sepc = [of |-> cur, at |-> "compute"] => f.at = "compute"
  <2>1. at = sepc.at /\ at \in {"compute", "sret"} /\ (at = "sret" => sepc # [of |-> cur, at |-> "compute"])
    BY <1>5
  <2>2. (sepc = [of |-> cur, at |-> "compute"] => at = "compute")
        /\ (at = "sret" => sepc = [of |-> cur, at |-> "sret"] /\ spp = "U")
    BY <1>5, <2>1
  <2> HIDE DEF at
  <2> QED BY <1>1, <1>3, <2>1, <2>2 DEF BaseOK, BaseFrames, BasePlaces
<1>7. /\ stack' = [stack EXCEPT ![cur] = Append(<<>>, f)]
      /\ mode' = spp /\ sie' = spie /\ spie' = TRUE /\ spp' = "U"
      /\ sepc' = NoPlace
  BY <1>1 DEF DropPrivilege, Sret
<1>8. UNCHANGED <<running, ready, away, broken, created, finished, cur, context, hits>>
  BY DEF DropPrivilege, Sret, sched, queues
<1> HIDE DEF f
<1>9. Stacks' /\ Keeps(0) /\ Top' = f /\ Depth' = 1 /\ stack'[cur] = <<f>>
  BY <1>1, <1>3, <1>6, <1>7, <1>8, BaseChanges
<1>10. Shape'
  <2>1. cur' = cur /\ ~Window(cur)'
    BY <1>8, <1>9 DEF Window, Depth
  <2>2. TrapCpu' /\ InnerCpu'
    BY <1>6, <1>9 DEF TrapCpu, InnerCpu, IsTrap, IsCall, TrapPlaces, CallPlaces
  <2>3. KernelCpu'
    BY <1>6, <2>1 DEF KernelCpu
  <2>4. BaseCpu'
    <3>1. NoPlace # [of |-> cur, at |-> "sret"]
      BY <1>1, PlaceAssumption DEF SepcValues, Places
    <3> QED BY <1>6, <1>7, <1>9, <2>1, <3>1 DEF BaseCpu
  <2>5. RunningIs'
    BY <1>4, <1>6, <1>8, <1>9, <2>1 DEF RunningIs
  <2>6. (\A t \in Threads \ {cur} : Waiting(t) /\ (Window(t) => stack[t][2].next = t))'
    BY <1>1, <1>9, OthersWait DEF Keeps
  <2> QED BY <2>2, <2>3, <2>4, <2>5, <2>6 DEF Shape
<1>11. CleanOK'
  <2>1. stack'[cur][1] = f /\ Len(stack'[cur]) = 1
    BY <1>9
  <2>2. ASSUME f.clean PROVE CleanStart(cur)'
    <3>1. CleanStart(cur)
      BY <1>1, <1>3, <1>6, <2>2 DEF CleanOK
    <3>2. sepc = [of |-> cur, at |-> "compute"] /\ spp = "U"
      BY <1>1, <1>3, <3>1 DEF CleanStart
    <3>3. f.at = "compute" /\ mode' = "U"
      BY <1>6, <1>7, <3>2
    <3> QED BY <1>8, <2>1, <3>3 DEF CleanStart, InBody
  <2> QED BY <1>1, <1>9, <2>1, <2>2, OthersStayClean DEF Threads, Keeps
<1>12. \A t \in Threads \ created : Fresh(t)'
  BY <1>1, <1>8, <1>9, FreshStay DEF Keeps
<1>13. Typed'
  BY <1>1, <1>7, <1>8, <1>12 DEF Typed
<1> QED BY <1>3, <1>6, <1>9, <1>10, <1>11, <1>13, FoundIs DEF Kept

LEMMA ComputeKeeps ==
    ASSUME IInv, Compute
    PROVE  Kept' /\ Keeps(0) /\ Depth' = 1 /\ Depth = 1 /\ Top'.at = "ecall"
<1>1. Shape /\ Stacks /\ Typed /\ CleanOK /\ cur \in Threads /\ Top.at = "compute"
  BY AtIs DEF Compute
<1>2. Top.at \in BasePlaces
  BY <1>1 DEF BasePlaces
<1>3. Depth = 1 /\ BaseOK(cur, Top) /\ Top \in BaseFrames /\ Top = stack[cur][1] /\ Len(stack[cur]) = 1
  BY <1>1, <1>2, BaseIs
<1> DEFINE f == [Top EXCEPT !.at = "ecall"]
<1>4. cur \in Apps /\ BaseOK(cur, f) /\ f.at = "ecall" /\ f.at \in BasePlaces /\ f.clean = Top.clean
  BY <1>1, <1>3 DEF BaseOK, BaseFrames, BasePlaces
<1>5. SetTop(f)
  BY DEF Compute, Goto
<1>6. UNCHANGED <<mode, sie, spie, spp, sepc, running, ready, away, broken, created, finished,
                  cur, context, hits>>
  BY DEF Compute, csrs, sched, queues, sstatus
<1> HIDE DEF f
<1>7. Stacks' /\ Keeps(0) /\ Top' = f /\ Depth' = 1 /\ stack'[cur] = <<f>>
  BY <1>1, <1>3, <1>4, <1>5, <1>6, BaseChanges
<1>8. running = cur
  BY <1>1, <1>2, BaseCpuIs
<1>9. Shape'
  BY <1>1, <1>4, <1>6, <1>7, <1>8, BaseShape DEF Keeps
<1>10. CleanOK'
  <2>1. stack'[cur][1] = f /\ Len(stack'[cur]) = 1
    BY <1>7
  <2>2. ASSUME f.clean PROVE CleanStart(cur)'
    <3>1. CleanStart(cur)
      BY <1>1, <1>3, <1>4, <2>2 DEF CleanOK
    <3>2. mode = "U"
      BY <1>1, <1>3, <1>4, <3>1 DEF CleanStart, InBody
    <3> QED BY <1>4, <1>6, <2>1, <3>2 DEF CleanStart, InBody
  <2> QED BY <1>1, <1>7, <2>1, <2>2, OthersStayClean DEF Threads, Keeps
<1>11. \A t \in Threads \ created : Fresh(t)'
  BY <1>1, <1>6, <1>7, FreshStay DEF Keeps
<1>12. Typed'
  BY <1>1, <1>6, <1>11 DEF Typed
<1> QED BY <1>3, <1>4, <1>7, <1>9, <1>10, <1>12, FoundIs DEF Kept

LEMMA CallStarts ==
    ASSUME NEW made, NEW to \in {"ready", "away"}
    PROVE  /\ Call(to) \in CallFrames(made) /\ Call(to) \in Frames(made)
           /\ Call(to).at = "r_sepc" /\ Call(to).to = to /\ IsCall(Call(to)) /\ ~IsTrap(Call(to))
  BY DEF Call, CallFrames, Frames, CallPlaces, IsCall, IsTrap, TrapPlaces

\* A dispatch outside traps begins.
LEMMA OuterShape ==
    ASSUME Shape, cur \in Threads, OnlyCur, NEW f, Top' = f, Depth' = 2, f.at = "r_sepc",
           running' = cur, mode' = "S"
    PROVE  Shape'
<1>1. cur' = cur /\ ~Window(cur)'
  BY DEF OnlyCur, Window, Depth
<1>2. ~IsTrap(f) /\ f.at \notin {"csrw", "sret", "switch"}
  BY DEF IsTrap, TrapPlaces
<1>3. TrapCpu' /\ InnerCpu' /\ BaseCpu' /\ KernelCpu' /\ RunningIs'
  BY <1>1, <1>2 DEF TrapCpu, InnerCpu, BaseCpu, KernelCpu, RunningIs
<1>4. (\A t \in Threads \ {cur} : Waiting(t) /\ (Window(t) => stack[t][2].next = t))'
  BY OthersWait
<1> QED BY <1>3, <1>4 DEF Shape

LEMMA KernelThreadDispatchesKeeps ==
    ASSUME IInv, KernelThreadDispatches
    PROVE  Kept' /\ OnlyCur /\ Depth' = 2 /\ Depth = 1 /\ Top'.at = "r_sepc"
<1>1. Shape /\ Stacks /\ Typed /\ CleanOK /\ cur \in Threads /\ Top.at = "loop"
  BY AtIs DEF KernelThreadDispatches
<1>2. Top.at \in BasePlaces
  BY <1>1 DEF BasePlaces
<1>3. Depth = 1 /\ cur \notin Apps
  BY <1>1, <1>2, BaseIs DEF BaseOK
<1>4. running = cur /\ mode = "S"
  BY <1>1, <1>2, <1>3, BaseCpuIs
<1> DEFINE f == Call("ready")
<1>5. f \in CallFrames(created) /\ f \in Frames(created) /\ f.at = "r_sepc" /\ f.to = "ready"
  BY CallStarts
<1>6. stack' = [stack EXCEPT ![cur] = Append(@, f)]
  BY DEF KernelThreadDispatches
<1>7. UNCHANGED <<mode, sie, spie, spp, sepc, running, ready, away, broken, created, finished,
                  cur, context, hits>>
  BY DEF KernelThreadDispatches, csrs, sched, queues, sstatus
<1> HIDE DEF f
<1>8. Keeps(1) /\ stack'[cur] \in Seq(Frames(created)) /\ Top' = f
      /\ stack'[cur][2] = f /\ Depth' = 2
  <2>1. Keeps(Depth) /\ stack'[cur] \in Seq(Frames(created)) /\ Top' = f
        /\ stack'[cur][Depth + 1] = f /\ Depth' = Depth + 1
    BY <1>1, <1>5, <1>6, <1>7, PushKeeps
  <2>2. Keeps(1)
    BY <1>3, <2>1
  <2> QED BY <1>3, <2>1, <2>2
<1>9. OuterOK(cur, stack'[cur], 2)
  BY <1>3, <1>5, <1>8 DEF OuterOK
<1>10. FrameOK(cur, stack'[cur], 2, created)
  BY <1>5, <1>8, <1>9 DEF FrameOK, CallOK
<1>11. Stacks'
  BY <1>1, <1>3, <1>7, <1>8, <1>10, StacksKeep
<1>12. Shape'
  BY <1>1, <1>4, <1>5, <1>7, <1>8, OuterShape DEF Keeps
<1>13. CleanOK'
  BY <1>1, <1>3, <1>8, OthersStayClean DEF Threads, Keeps
<1>14. \A t \in Threads \ created : Fresh(t)'
  BY <1>1, <1>7, <1>8, FreshStay DEF Keeps
<1>15. Typed'
  BY <1>1, <1>7, <1>14 DEF Typed
<1> QED BY <1>3, <1>5, <1>8, <1>11, <1>12, <1>13, <1>15, FoundIs DEF Kept, Keeps

LEMMA OThreadEndsKeeps ==
    ASSUME IInv, OThreadEnds PROVE Kept' /\ running = OThread /\ cur = OThread /\ Depth = 1
<1>1. Shape /\ Stacks /\ Typed /\ CleanOK /\ cur \in Threads /\ Top.at = "loop" /\ cur = OThread
  BY AtIs DEF OThreadEnds
<1>2. Top.at \in BasePlaces
  BY <1>1 DEF BasePlaces
<1>3. Depth = 1 /\ cur \notin Apps /\ Top \in BaseFrames /\ Top = stack[cur][1] /\ BaseOK(cur, Top)
  BY <1>1, <1>2, BaseIs DEF BaseOK
<1>4. running = cur /\ mode = "S"
  BY <1>1, <1>2, <1>3, BaseCpuIs
<1> DEFINE f == Call("ready")
<1> DEFINE b == [Top EXCEPT !.at = "astray"]
<1>5. f \in CallFrames(created) /\ f \in Frames(created) /\ f.at = "r_sepc" /\ f.to = "ready"
  BY CallStarts
<1>6. BaseOK(cur, b) /\ b \in Frames(created)
  BY <1>3 DEF BaseOK, BaseFrames, BasePlaces, Frames
<1>7. stack' = [stack EXCEPT ![cur] = <<b, f>>]
  BY <1>3 DEF OThreadEnds
<1>8. UNCHANGED <<mode, sie, spie, spp, sepc, running, ready, away, broken, created,
                  cur, context, hits>> /\ finished' = finished \union {running}
  BY DEF OThreadEnds, csrs, queues, sstatus
<1> HIDE DEF f, b
<1>9. stack = [t \in Threads |-> stack[t]] /\ \A t \in Threads : StackOK(t, stack[t], created)
  BY <1>1 DEF Stacks
<1>10. OnlyCur /\ stack'[cur] = <<b, f>>
  BY <1>1, <1>7, <1>8, <1>9 DEF OnlyCur
<1> DEFINE r == <<b, f>>
<1>11. Len(r) = 2 /\ r[1] = b /\ r[2] = f /\ r \in Seq(Frames(created)) /\ r # <<>>
  BY <1>5, <1>6
<1> HIDE DEF r
<1>12. FrameOK(cur, r, 2, created)
  BY <1>3, <1>5, <1>11 DEF FrameOK, CallOK, OuterOK
<1>13. StackOK(cur, r, created)
  <2>1. \A i \in 2..Len(r) : i = 2
    BY <1>11
  <2>2. \A i \in 2..(Len(r) - 1) : FALSE
    BY <1>11
  <2> QED BY <1>6, <1>11, <1>12, <2>1, <2>2 DEF StackOK
<1>14. Stacks'
  <2>1. ASSUME NEW t \in Threads PROVE StackOK(t, stack'[t], created)
    BY <1>9, <1>10, <1>13 DEF OnlyCur, r
  <2> QED BY <1>8, <1>10, <2>1 DEF Stacks, OnlyCur
<1>15. Top' = f /\ Depth' = 2
  BY <1>8, <1>10, <1>11 DEF Top, Depth, r
<1>16. Shape'
  BY <1>1, <1>4, <1>5, <1>8, <1>10, <1>15, OuterShape
<1>17. CleanOK'
  BY <1>1, <1>3, <1>10, OthersStayClean DEF Threads
<1>18. \A t \in Threads \ created : Fresh(t)'
  BY <1>1, <1>8, <1>10, FreshStay
<1>19. finished' \in SUBSET created /\ Boot \notin finished'
  BY <1>1, <1>4, <1>8, SwitchingAssumption DEF Typed
<1>20. Typed'
  BY <1>1, <1>8, <1>18, <1>19 DEF Typed
<1> QED BY <1>1, <1>3, <1>4, <1>14, <1>16, <1>17, <1>20, FoundIs DEF Kept

-----------------------------------------------------------------------------
\* Trap entry.

\* A trap takes one or two frames on the stack of cur.
LEMMA EnterStacks ==
    ASSUME Stacks, cur \in Threads, cur' = cur, created \subseteq created',
           NEW g \in TrapFrames, NEW to \in {"ready", "away"}, to = "away" => cur \in Apps,
           NEW calls \in {<<>>, <<Call(to)>>},
           stack' = [stack EXCEPT ![cur] = @ \o <<g>> \o calls],
           g.at = "return", ~IsTrap(Top), g.cause = "ecall" => Top.at = "ecall",
           IsCall(Top) \/ cur \notin Apps \/ Top.at = "csrw" => g.from = "S",
           IsCall(Top) /\ Depth > 2 => Top.at = "w_sstatus"
    PROVE  /\ Stacks' /\ OnlyCur
           /\ \A i \in 1..Depth : stack'[cur][i] = stack[cur][i]
           /\ stack'[cur][Depth + 1] = g
           /\ \/ calls = <<>> /\ Depth' = Depth + 1 /\ Top' = g
              \/ calls # <<>> /\ Depth' = Depth + 2 /\ Top' = Call(to)
<1> DEFINE s == stack[cur]
<1> DEFINE n == Depth
<1> DEFINE c == Call(to)
<1> DEFINE S == Frames(created')
<1>1. /\ n \in Nat \ {0} /\ n = Len(s) /\ s \in Seq(Frames(created)) /\ s # <<>>
      /\ StackOK(cur, s, created)
  BY StackIs DEF Stacks, Depth
<1>2. Frames(created) \subseteq S
  BY DEF Frames, CallFrames
<1>3. s \in Seq(S)
  BY <1>1, <1>2
<1>4. g \in S /\ c \in S /\ c \in CallFrames(created') /\ c.at = "r_sepc" /\ c.to = to
      /\ IsCall(c) /\ ~IsTrap(c)
  BY CallStarts DEF Frames
<1>5. IsTrap(g) /\ ~IsCall(g)
  BY DEF IsTrap, IsCall, TrapPlaces, CallPlaces
<1>6. s[n] = Top
  BY DEF Top
<1>7. stack = [t \in Threads |-> stack[t]] /\ \A t \in Threads : StackOK(t, stack[t], created)
  BY DEF Stacks
<1>8. OnlyCur /\ stack'[cur] = (s \o <<g>>) \o calls
  BY <1>7 DEF OnlyCur
<1> DEFINE r == Append(s, g)
<1> DEFINE q == Append(r, c)
<1>9. s \o <<g>> = r
  BY <1>1, <1>3, <1>4
<1> HIDE DEF s, n, S, c
<1>10. r \in Seq(S) /\ Len(r) = n + 1 /\ r[n+1] = g /\ \A i \in 1..n : r[i] = s[i]
  BY <1>1, <1>3, <1>4, Pushed
<1> HIDE DEF r
<1>11. q \in Seq(S) /\ Len(q) = n + 2 /\ q[n+2] = c /\ \A i \in 1..(n+1) : q[i] = r[i]
  <2>1. q \in Seq(S) /\ Len(q) = Len(r) + 1 /\ q[Len(r) + 1] = c /\ \A i \in 1..Len(r) : q[i] = r[i]
    BY <1>4, <1>10, Pushed
  <2>2. Len(r) + 1 = n + 2
    BY <1>1, <1>10
  <2> QED BY <1>10, <2>1, <2>2
<1>12. StackOK(cur, r, created')
  <2>1. TrapOK(cur, r, n + 1)
    <3>1. (n + 1) - 1 = n /\ n \in 1..n
      BY <1>1
    <3>2. r[n] = Top
      BY <1>6, <1>10, <3>1
    <3> QED BY <1>10, <3>1, <3>2 DEF TrapOK
  <2>2. FrameOK(cur, r, n + 1, created')
    BY <2>1 DEF FrameOK
  <2>3. Covered(s, n)
    <3>1. n = Depth
      BY DEF n
    <3> QED BY <1>6, <3>1 DEF Covered
  <2>4. n \in 0..Len(s) /\ Len(r) \in {n, n + 1} /\ Len(r) > 0 /\ n # 0 /\ r \in Seq(Frames(created'))
    BY <1>1, <1>10 DEF S
  <2> QED BY <1>1, <1>10, <2>2, <2>3, <2>4, StackKeeps
<1>13. StackOK(cur, q, created')
  <2> DEFINE m == n + 1
  <2>1. m \in Nat /\ m > 1 /\ m + 1 = n + 2 /\ m - 1 = n
    BY <1>1
  <2>2. r[m] = g /\ q[m] = g /\ q[m+1] = c
    <3>1. m \in 1..(n+1)
      BY <1>1
    <3> QED BY <1>10, <1>11, <2>1, <3>1
  <2>3. to = "away" => cur \in Apps
    OBVIOUS
  <2>4. CallOK(cur, q, m + 1, created')
    <3>1. m + 1 > 2 /\ (m + 1) - 1 = m
      BY <2>1
    <3>2. InnerOK(cur, q, m + 1)
      BY <1>4, <2>2, <3>1 DEF InnerOK
    <3> QED BY <1>4, <2>2, <3>2 DEF CallOK
  <2>5. FrameOK(cur, q, m + 1, created')
    BY <2>4 DEF FrameOK
  <2>6. Covered(r, m)
    BY <1>5, <2>2 DEF Covered
  <2>7. m \in 0..Len(r) /\ Len(q) \in {m, m + 1} /\ Len(q) > 0 /\ m # 0 /\ q \in Seq(Frames(created'))
        /\ \A i \in 1..m : q[i] = r[i]
    BY <1>1, <1>10, <1>11 DEF S
  <2> HIDE DEF m
  <2> QED BY <1>12, <2>5, <2>6, <2>7, StackKeeps
<1>14. n = Depth /\ s = stack[cur] /\ c = Call(to)
  BY DEF n, s, c
<1>15. CASE calls = <<>>
  <2>1. stack'[cur] = r
    <3>1. r \o <<>> = r
      BY <1>10
    <3> QED BY <1>8, <1>9, <1>15, <3>1
  <2>2. Depth' = n + 1 /\ Top' = g
    BY <1>1, <1>8, <1>10, <2>1 DEF Depth, Top, OnlyCur
  <2>3. \A t \in Threads : StackOK(t, stack'[t], created')
    <3>1. ASSUME NEW t \in Threads, t # cur PROVE StackOK(t, stack'[t], created')
      <4>1. stack'[t] = stack[t] /\ StackOK(t, stack[t], created)
        BY <1>7, <1>8, <3>1 DEF OnlyCur
      <4> QED BY <4>1, StackGrows
    <3> QED BY <1>12, <2>1, <3>1
  <2>4. Stacks'
    BY <1>8, <2>3 DEF Stacks, OnlyCur
  <2> QED BY <1>8, <1>10, <1>14, <1>15, <2>1, <2>2, <2>4
<1>16. CASE calls = <<Call(to)>>
  <2>1. stack'[cur] = q
    BY <1>8, <1>9, <1>10, <1>4, <1>16 DEF c
  <2>2. Depth' = n + 2 /\ Top' = c
    BY <1>1, <1>8, <1>11, <2>1 DEF Depth, Top, OnlyCur
  <2>3. \A t \in Threads : StackOK(t, stack'[t], created')
    <3>1. ASSUME NEW t \in Threads, t # cur PROVE StackOK(t, stack'[t], created')
      <4>1. stack'[t] = stack[t] /\ StackOK(t, stack[t], created)
        BY <1>7, <1>8, <3>1 DEF OnlyCur
      <4> QED BY <4>1, StackGrows
    <3> QED BY <1>13, <2>1, <3>1
  <2>4. Stacks'
    BY <1>8, <2>3 DEF Stacks, OnlyCur
  <2>5. \A i \in 1..n : q[i] = s[i]
    <3>1. \A i \in 1..n : i \in 1..(n+1)
      BY <1>1
    <3> QED BY <1>10, <1>11, <3>1
  <2>6. q[n+1] = g
    <3>1. n + 1 \in 1..(n+1)
      BY <1>1
    <3> QED BY <1>10, <1>11, <3>1
  <2> QED BY <1>8, <1>14, <1>16, <2>1, <2>2, <2>4, <2>5, <2>6
<1> QED BY <1>15, <1>16

Entering ==
    /\ OnlyCur
    /\ \A i \in 1..Depth : stack'[cur][i] = stack[cur][i]
    /\ stack'[cur][Depth + 1].at = "return" /\ Depth' \in {Depth + 1, Depth + 2}
    /\ Top'.at \in {"return", "r_sepc"} /\ Depth' > 1
    /\ ~IsTrap(Top) /\ (IsCall(Top) => sie)

\* What a trap needs, and what the registers are after it.
LEMMA Entered ==
    ASSUME Shape, Stacks, CleanOK, Typed, cur \in Threads,
           NEW cause \in {"ecall", "interrupt", "illegal"},
           NEW to \in {"ready", "away"}, to = "away" => cur \in Apps,
           NEW calls \in {<<>>, <<Call(to)>>},
           Enter(cause, calls), created \subseteq created', running' = running,
           cause = "ecall" => Top.at = "ecall",
           mode = "U" \/ sie \/ Top.at = "ecall"
    PROVE  /\ Stacks' /\ Shape' /\ CleanOK' /\ Entering
           /\ mode' = "S" /\ sie' = FALSE /\ spie' \in BOOLEAN /\ spp' \in {"U", "S"}
           /\ sepc' \in SepcValues
<1> DEFINE g == [at |-> "return", cause |-> cause, from |-> mode, sie |-> sie]
<1>1. g \in TrapFrames /\ g.at = "return" /\ g.from = mode /\ g.sie = sie /\ g.cause = cause
  BY DEF TrapFrames, TrapPlaces, Typed
<1>2. /\ stack' = [stack EXCEPT ![cur] = @ \o <<g>> \o calls]
      /\ sepc' = [of |-> cur, at |-> Top.at] /\ spp' = mode /\ spie' = sie /\ sie' = FALSE
      /\ mode' = "S" /\ cur' = cur
  BY DEF Enter
<1> HIDE DEF g
<1>3. ~IsTrap(Top)
  BY DEF Shape, TrapCpu, IsTrap, TrapPlaces
<1>4. cur \notin Apps => mode = "S"
  BY DEF Shape, KernelCpu
<1>5. /\ Depth \in Nat \ {0} /\ Top.at \in Places
      /\ Top.at \in BasePlaces => Depth = 1 /\ BaseOK(cur, Top)
      /\ Top.at \in BasePlaces \/ IsCall(Top)
  BY <1>3, TopIs
<1>6. ASSUME IsCall(Top) PROVE sie /\ mode = "S" /\ (Depth > 2 => Top.at = "w_sstatus")
  <2>1. Depth \in Nat /\ Depth >= 2 /\ (Depth = 2 => cur \notin Apps)
    BY <1>6, CallIs
  <2>2. Depth > 2 => mode = "S" /\ (Top.at # "w_sstatus" => ~sie)
    BY <1>6, CallCpu
  <2>3. mode = "S"
    BY <1>4, <2>1, <2>2
  <2>4. Top.at # "ecall"
    BY <1>6 DEF IsCall, CallPlaces
  <2>5. sie
    BY <2>3, <2>4
  <2> QED BY <2>2, <2>3, <2>5
<1>7. Top.at = "csrw" => mode = "S"
  BY DEF Shape, BaseCpu
<1>8. /\ Stacks' /\ OnlyCur
      /\ \A i \in 1..Depth : stack'[cur][i] = stack[cur][i]
      /\ stack'[cur][Depth + 1] = g
      /\ \/ calls = <<>> /\ Depth' = Depth + 1 /\ Top' = g
         \/ calls # <<>> /\ Depth' = Depth + 2 /\ Top' = Call(to)
  BY <1>1, <1>2, <1>3, <1>4, <1>6, <1>7, EnterStacks
<1>9. sepc' \in SepcValues
  BY <1>2, <1>5 DEF SepcValues
<1>10. Call(to).at = "r_sepc" /\ IsCall(Call(to)) /\ ~IsTrap(Call(to))
  BY CallStarts
<1>11. Top'.at \in {"return", "r_sepc"} /\ Depth' > 1 /\ Depth' \in {Depth + 1, Depth + 2}
       /\ stack'[cur][Depth + 1].at = "return"
  BY <1>1, <1>5, <1>8, <1>10
<1>12. stack'[cur][Depth] = Top /\ 1 \in 1..Depth
  <2>1. Depth \in 1..Depth /\ 1 \in 1..Depth
    BY <1>5
  <2> QED BY <1>8, <2>1 DEF Top
<1>13. Shape'
  <2>1. TrapCpu'
    <3>1. ASSUME Top' = g, Depth' = Depth + 1
          PROVE  sepc' = Came(Depth)'
      <4>1. (Depth + 1) - 1 = Depth
        BY <1>5
      <4> QED BY <1>2, <1>12, <3>1, <4>1 DEF Came
    <3>2. g.at # "leave"
      BY <1>1
    <3> QED BY <1>1, <1>2, <1>8, <1>10, <3>1, <3>2 DEF TrapCpu
  <2>2. InnerCpu'
    <3>1. ~IsCall(g)
      BY <1>1 DEF IsCall, CallPlaces
    <3>2. ASSUME Top' = Call(to), Depth' = Depth + 2
          PROVE  sepc' = Came(Depth - 1)' /\ stack'[cur'][Depth' - 1] = g
      <4>1. (Depth + 2) - 1 = Depth + 1 /\ (Depth + 1) - 1 = Depth
        BY <1>5
      <4> QED BY <1>2, <1>8, <1>12, <3>2, <4>1 DEF Came
    <3> QED BY <1>1, <1>2, <1>8, <1>10, <3>1, <3>2 DEF InnerCpu
  <2>3. KernelCpu' /\ BaseCpu'
    BY <1>2, <1>11 DEF KernelCpu, BaseCpu
  <2>4. RunningIs'
    <3>1. running = (IF Top.at = "switch" THEN Top.next
                     ELSE IF Window(cur) THEN stack[cur][2].next ELSE cur)
      BY DEF Shape, RunningIs
    <3>2. Top'.at # "switch"
      BY <1>11
    <3>3. Len(stack[cur]) = Depth /\ Len(stack'[cur]) = Depth'
      BY <1>2 DEF Depth
    <3>4. CASE Depth = 1
      <4>1. stack'[cur][2].at = "return"
        BY <1>11, <3>4
      <4>2. ~Window(cur)' /\ ~Window(cur)
        BY <1>2, <3>3, <3>4, <4>1 DEF Window
      <4>3. Top.at # "switch"
        BY <1>5, <3>4, CallIs DEF IsCall, CallPlaces, BasePlaces
      <4> QED BY <1>2, <3>1, <3>2, <4>2, <4>3 DEF RunningIs
    <3>5. CASE Depth = 2
      <4>1. stack'[cur][2] = Top
        BY <1>12, <3>5
      <4>2. ~Window(cur) /\ Len(stack'[cur]) > 2
        BY <1>11, <3>3, <3>5 DEF Window
      <4>3. cur \notin Apps
        <5>1. IsCall(Top)
          BY <1>5, <3>5
        <5> QED BY <3>5, <5>1, CallIs
      <4> QED BY <1>2, <3>1, <3>2, <4>1, <4>2, <4>3 DEF RunningIs, Window
    <3>6. CASE Depth > 2
      <4>1. 2 \in 1..Depth /\ Len(stack[cur]) > 2 /\ Len(stack'[cur]) > 2
        BY <1>5, <1>11, <3>3, <3>6
      <4>2. stack'[cur][2] = stack[cur][2]
        BY <1>8, <4>1
      <4>3. Window(cur)' <=> Window(cur)
        BY <1>2, <4>1, <4>2 DEF Window
      <4>4. Top.at # "switch"
        <5>1. IsCall(Top)
          BY <1>5, <3>6
        <5> QED BY <1>6, <3>6, <5>1
      <4> QED BY <1>2, <3>1, <3>2, <4>2, <4>3, <4>4 DEF RunningIs
    <3> QED BY <1>5, <3>4, <3>5, <3>6
  <2>5. (\A t \in Threads \ {cur} : Waiting(t) /\ (Window(t) => stack[t][2].next = t))'
    BY <1>8, OthersWait
  <2> QED BY <2>1, <2>2, <2>3, <2>4, <2>5 DEF Shape
<1>14. CleanOK'
  <2>1. ASSUME cur \in Apps, stack'[cur][1].clean PROVE CleanStart(cur)'
    <3>1. stack'[cur][1] = stack[cur][1]
      BY <1>8, <1>12
    <3>2. CleanStart(cur)
      BY <2>1, <3>1 DEF CleanOK
    <3>3. Len(stack[cur]) = Depth /\ Len(stack'[cur]) = Depth' /\ Depth' # 1 /\ Depth' > 1
      BY <1>2, <1>5, <1>11 DEF Depth
    <3>4. stack[cur][1].at \notin {"csrw", "sret"}
      <4>1. ASSUME stack[cur][1].at \in {"csrw", "sret"} PROVE FALSE
        <5>1. ~sie /\ mode = "S" /\ Depth = 1
          BY <3>2, <3>3, <4>1 DEF CleanStart
        <5>2. Top.at \in {"csrw", "sret"}
          BY <4>1, <5>1 DEF Top
        <5> QED BY <5>1, <5>2
      <4> QED BY <4>1
    <3>5. InBody(cur) => stack'[cur][2].from = "U"
      <4>1. CASE Depth = 1
        <5>1. InBody(cur) => mode = "U"
          BY <3>2, <3>3, <4>1 DEF CleanStart
        <5> QED BY <1>1, <1>8, <4>1, <5>1
      <4>2. CASE Depth > 1
        <5>1. 2 \in 1..Depth
          BY <1>5, <4>2
        <5> QED BY <1>8, <3>2, <3>3, <4>2, <5>1 DEF CleanStart
      <4> QED BY <1>5, <4>1, <4>2
    <3> QED BY <1>2, <3>1, <3>3, <3>4, <3>5 DEF CleanStart, InBody
  <2> QED BY <1>8, <2>1, OthersStayClean DEF Threads
<1>15. mode \in {"U", "S"} /\ sie \in BOOLEAN
  BY DEF Typed
<1>16. Entering
  BY <1>3, <1>6, <1>8, <1>11 DEF Entering
<1> QED BY <1>2, <1>8, <1>9, <1>13, <1>14, <1>15, <1>16

LEMMA IllegalSretKeeps ==
    ASSUME IInv, IllegalSret PROVE Kept' /\ Entering
<1>1. Shape /\ Stacks /\ Typed /\ CleanOK /\ cur \in Threads /\ Top.at = "sret" /\ mode = "U"
  BY AtIs DEF IllegalSret
<1>2. Enter("illegal", <<>>) /\ UNCHANGED <<sched, hits>>
  BY DEF IllegalSret
<1>3. UNCHANGED <<running, ready, away, broken, created, finished, cur, context, hits>>
  BY <1>2 DEF Enter, sched, queues
<1>4. /\ Stacks' /\ Shape' /\ CleanOK' /\ Entering
      /\ mode' = "S" /\ sie' = FALSE /\ spie' \in BOOLEAN /\ spp' \in {"U", "S"} /\ sepc' \in SepcValues
  BY <1>1, <1>2, <1>3, Entered
<1>5. \A t \in Threads \ created : Fresh(t)'
  BY <1>1, <1>3, <1>4, FreshStay DEF Entering
<1>6. Typed'
  BY <1>1, <1>3, <1>4, <1>5 DEF Typed
<1> QED BY <1>4, <1>6, FoundIs DEF Kept

\* Where a system call begins.
LEMMA EcallIs ==
    ASSUME IInv, At("ecall")
    PROVE  /\ Shape /\ Stacks /\ Typed /\ CleanOK /\ cur \in Threads /\ Top.at = "ecall"
           /\ Depth = 1 /\ cur \in Apps /\ running = cur
<1>1. Shape /\ Stacks /\ Typed /\ CleanOK /\ cur \in Threads /\ Top.at = "ecall"
  BY AtIs
<1>2. Top.at \in BasePlaces
  BY <1>1 DEF BasePlaces
<1>3. Depth = 1 /\ cur \in Apps
  BY <1>1, <1>2, BaseIs DEF BaseOK
<1> QED BY <1>1, <1>2, <1>3, BaseCpuIs

LEMMA EcallSwitchesKeeps ==
    ASSUME IInv, NEW to \in {"ready", "away"}, EcallSwitches(to) PROVE Kept' /\ Entering
<1>1. /\ Shape /\ Stacks /\ Typed /\ CleanOK /\ cur \in Threads /\ Top.at = "ecall"
      /\ cur \in Apps
  BY EcallIs DEF EcallSwitches
<1>2. Enter("ecall", <<Call(to)>>) /\ UNCHANGED <<sched, hits>>
  BY DEF EcallSwitches
<1>3. UNCHANGED <<running, ready, away, broken, created, finished, cur, context, hits>>
  BY <1>2 DEF Enter, sched, queues
<1>4. /\ Stacks' /\ Shape' /\ CleanOK' /\ Entering
      /\ mode' = "S" /\ sie' = FALSE /\ spie' \in BOOLEAN /\ spp' \in {"U", "S"} /\ sepc' \in SepcValues
  BY <1>1, <1>2, <1>3, Entered
<1>5. \A t \in Threads \ created : Fresh(t)'
  BY <1>1, <1>3, <1>4, FreshStay DEF Entering
<1>6. Typed'
  BY <1>1, <1>3, <1>4, <1>5 DEF Typed
<1> QED BY <1>4, <1>6, FoundIs DEF Kept

LEMMA EcallExitKeeps ==
    ASSUME IInv, EcallExit PROVE Kept' /\ Entering
<1>1. /\ Shape /\ Stacks /\ Typed /\ CleanOK /\ cur \in Threads /\ Top.at = "ecall"
      /\ cur \in Apps /\ running = cur
  BY EcallIs DEF EcallExit
<1>2. Enter("ecall", <<Call("ready")>>) /\ UNCHANGED <<running, queues, created, hits>>
      /\ finished' = finished \union {running}
  BY DEF EcallExit
<1>3. UNCHANGED <<running, ready, away, broken, created, cur, context, hits>>
  BY <1>2 DEF Enter, queues
<1>4. /\ Stacks' /\ Shape' /\ CleanOK' /\ Entering
      /\ mode' = "S" /\ sie' = FALSE /\ spie' \in BOOLEAN /\ spp' \in {"U", "S"} /\ sepc' \in SepcValues
  BY <1>1, <1>2, <1>3, Entered
<1>5. \A t \in Threads \ created : Fresh(t)'
  BY <1>1, <1>3, <1>4, FreshStay DEF Entering
<1>6. finished' \in SUBSET created /\ Boot \notin finished'
  BY <1>1, <1>2, SwitchingAssumption DEF Typed
<1>7. Typed'
  BY <1>1, <1>3, <1>4, <1>5, <1>6 DEF Typed
<1> QED BY <1>4, <1>7, FoundIs DEF Kept

LEMMA EcallCreatesKeeps ==
    ASSUME IInv, NEW t \in Workers, EcallCreates(t) PROVE Kept' /\ Entering
<1>1. /\ Shape /\ Stacks /\ Typed /\ CleanOK /\ cur \in Threads /\ Top.at = "ecall"
      /\ cur \in Apps
  BY EcallIs DEF EcallCreates
<1>2. Enter("ecall", <<>>) /\ UNCHANGED <<running, away, finished, hits>> /\ UsesLists
      /\ created' = created \union {t} /\ ready' = Append(ready, t) /\ t \in Apps
  BY DEF EcallCreates
<1>3. UNCHANGED <<running, away, finished, cur, context, hits>>
  BY <1>2 DEF Enter
<1>4. created \subseteq created' /\ created' \in SUBSET Threads /\ t \in created'
  BY <1>1, <1>2 DEF Typed, Threads
<1>5. /\ Stacks' /\ Shape' /\ CleanOK' /\ Entering
      /\ mode' = "S" /\ sie' = FALSE /\ spie' \in BOOLEAN /\ spp' \in {"U", "S"} /\ sepc' \in SepcValues
  BY <1>1, <1>2, <1>3, <1>4, Entered
<1>6. \A u \in Threads \ created' : Fresh(u)'
  BY <1>1, <1>4, <1>5, FreshStay DEF Entering
<1>7. ready' \in Seq(created')
  <2>1. ready \in Seq(created')
    BY <1>1, <1>4 DEF Typed
  <2> QED BY <1>2, <1>4, <2>1, LastPut
<1>8. broken' \in BOOLEAN
  BY <1>2, ListsUsed
<1>9. Typed'
  BY <1>1, <1>3, <1>4, <1>5, <1>6, <1>7, <1>8 DEF Typed
<1> QED BY <1>5, <1>9, FoundIs DEF Kept

LEMMA Woke ==
    ASSUME Typed, NEW woken \in Woken, Wake(woken)
    PROVE  ready' \in Seq(created) /\ away' \in SUBSET (created \intersect Apps) /\ away' \subseteq away
<1>1. woken \in Seq(created)
  <2>1. CASE woken = <<>>
    BY <2>1
  <2>2. CASE woken # <<>>
    <3>1. PICK t \in away : woken = <<t>>
      BY <2>2 DEF Woken
    <3>2. t \in created
      BY <3>1 DEF Typed
    <3> QED BY <3>1, <3>2
  <2> QED BY <2>1, <2>2
<1>2. ready \in Seq(created) /\ away \in SUBSET (created \intersect Apps)
  BY DEF Typed
<1> QED BY <1>1, <1>2, AllPut DEF Wake

LEMMA EcallGoesOnKeeps ==
    ASSUME IInv, NEW woken \in Woken, EcallGoesOn(woken) PROVE Kept' /\ Entering
<1>1. /\ Shape /\ Stacks /\ Typed /\ CleanOK /\ cur \in Threads /\ Top.at = "ecall"
      /\ cur \in Apps
  BY EcallIs DEF EcallGoesOn
<1>2. Enter("ecall", <<>>) /\ UNCHANGED <<running, created, finished, hits>> /\ UsesLists
      /\ Wake(woken)
  BY DEF EcallGoesOn
<1>3. UNCHANGED <<running, created, finished, cur, context, hits>>
  BY <1>2 DEF Enter
<1>4. /\ Stacks' /\ Shape' /\ CleanOK' /\ Entering
      /\ mode' = "S" /\ sie' = FALSE /\ spie' \in BOOLEAN /\ spp' \in {"U", "S"} /\ sepc' \in SepcValues
  BY <1>1, <1>2, <1>3, Entered
<1>5. \A u \in Threads \ created : Fresh(u)'
  BY <1>1, <1>3, <1>4, FreshStay DEF Entering
<1>6. ready' \in Seq(created) /\ away' \in SUBSET (created \intersect Apps)
  BY <1>1, <1>2, Woke
<1>7. broken' \in BOOLEAN
  BY <1>2, ListsUsed
<1>8. Typed'
  BY <1>1, <1>3, <1>4, <1>5, <1>6, <1>7 DEF Typed
<1> QED BY <1>4, <1>8, FoundIs DEF Kept

LEMMA InterruptKeeps ==
    ASSUME IInv, NEW woken \in Woken, NEW sliceEnds \in BOOLEAN, Interrupt(woken, sliceEnds)
    PROVE  Kept' /\ Entering
<1>1. /\ Shape /\ Stacks /\ Typed /\ CleanOK /\ cur \in Threads
  BY DEF Interrupt, IInv, Intact, ContextsOK, Typed
<1>2. UNCHANGED <<running, created, finished>> /\ Wake(woken) /\ (mode = "U" \/ sie)
      /\ Enter("interrupt", IF sliceEnds THEN <<Call("ready")>> ELSE <<>>)
      /\ (broken' = broken \/ UsesLists)
  BY DEF Interrupt
<1>3. UNCHANGED <<running, created, finished, cur, context>>
  BY <1>2 DEF Enter
<1> DEFINE calls == IF sliceEnds THEN <<Call("ready")>> ELSE <<>>
<1>4. Enter("interrupt", calls) /\ calls \in {<<>>, <<Call("ready")>>}
  BY <1>2
<1> HIDE DEF calls
<1>5. /\ Stacks' /\ Shape' /\ CleanOK' /\ Entering
      /\ mode' = "S" /\ sie' = FALSE /\ spie' \in BOOLEAN /\ spp' \in {"U", "S"} /\ sepc' \in SepcValues
  BY <1>1, <1>2, <1>3, <1>4, Entered
<1>6. \A u \in Threads \ created : Fresh(u)'
  BY <1>1, <1>3, <1>5, FreshStay DEF Entering
<1>7. ready' \in Seq(created) /\ away' \in SUBSET (created \intersect Apps)
  BY <1>1, <1>2, Woke
<1>8. broken' \in BOOLEAN
  BY <1>1, <1>2, ListsUsed DEF Typed
<1>9. hits' \in 0..MaxHits
  <2>1. hits \in 0..MaxHits /\ hits' \in {hits, hits + 1} /\ hits' <= MaxHits
    BY <1>1 DEF Typed, Interrupt
  <2> QED BY <2>1, SwitchingAssumption
<1>10. Typed'
  BY <1>1, <1>3, <1>5, <1>6, <1>7, <1>8, <1>9 DEF Typed
<1> QED BY <1>5, <1>10, FoundIs DEF Kept

-----------------------------------------------------------------------------
\* The context switch.

\* Stack r is s with the call f as its top.
Replaces(t, s, n, f, r, made) ==
    /\ StackOK(t, s, made) /\ n \in Nat /\ n = Len(s) /\ n >= 2
    /\ f \in CallFrames(made) /\ f.at = "w_sstatus"
    /\ f.to = "away" => t \in Apps
    /\ n > 2 => /\ s[n-1].at = "return" /\ f.ksepc = [of |-> t, at |-> s[n-2].at]
                /\ f.ksstatus = <<FALSE, s[n-1].sie, s[n-1].from>>
    /\ n = 2 => t \notin Apps /\ f.ksstatus # <<>>
    /\ r \in Seq(Frames(made)) /\ Len(r) = n /\ r[n] = f /\ \A i \in 1..(n - 1) : r[i] = s[i]

LEMMA CallReplaced ==
    ASSUME NEW t, NEW made, NEW s, NEW n, NEW f, NEW r, Replaces(t, s, n, f, r, made)
    PROVE  StackOK(t, r, made) /\ r[1] = s[1] /\ (n > 2 => r[2] = s[2])
<1> USE DEF Replaces
<1> DEFINE k == n - 1
<1>1. k + 1 = n /\ k \in 0..n /\ k # 0 /\ k # n /\ 1 \in 1..k /\ n - 1 \in 1..k
      /\ (n > 2 => 2 \in 1..k /\ n - 2 \in 1..k) /\ (n = 2 \/ n > 2)
  OBVIOUS
<1>2. \A i \in 1..k : r[i] = s[i]
  OBVIOUS
<1> HIDE DEF k
<1>3. r[1] = s[1] /\ (n > 2 => r[2] = s[2]) /\ r[n-1] = s[n-1] /\ (n > 2 => r[n-2] = s[n-2])
  BY <1>1, <1>2
<1>4. ASSUME n > 2 PROVE InnerOK(t, r, n)
  <2>1. r[n-1].at = "return" /\ f.ksepc = [of |-> t, at |-> r[n-2].at]
        /\ f.ksstatus = <<FALSE, r[n-1].sie, r[n-1].from>>
    BY <1>3, <1>4
  <2> QED BY <1>4, <2>1 DEF InnerOK
<1>5. n = 2 => OuterOK(t, r, n)
  BY DEF OuterOK
<1>6. CallOK(t, r, n, made)
  BY <1>1, <1>4, <1>5 DEF CallOK
<1>7. FrameOK(t, r, k + 1, made)
  BY <1>1, <1>6 DEF FrameOK
<1>8. k \in 0..Len(s) /\ Len(r) \in {k, k + 1} /\ Len(r) > 0 /\ k # Len(s) /\ k # 0
  BY <1>1
<1>9. StackOK(t, r, made)
  BY <1>2, <1>7, <1>8, StackKeeps
<1> QED BY <1>3, <1>9

\* The stack that is left is kept up to its top.
LEMMA Saved ==
    ASSUME Stacks, cur \in Threads, Top.at = "switch"
    PROVE  LET f == [Top EXCEPT !.at = "w_sstatus", !.old = NoThread, !.next = NoThread]
               r == [stack[cur] EXCEPT ![Depth] = f]
           IN  /\ StackOK(cur, r, created) /\ r[Len(r)] = f /\ f.at = "w_sstatus" /\ IsCall(f)
               /\ Len(r) = Depth /\ Depth \in Nat /\ Depth >= 2 /\ r[1] = stack[cur][1]
               /\ Depth > 2 => r[2] = stack[cur][2]
               /\ Last(r) = f
<1>1. IsCall(Top)
  BY IsCallAt DEF CallPlaces
<1>2. /\ Depth \in Nat /\ Depth >= 2 /\ Top \in CallFrames(created)
      /\ Top.to = "away" => cur \in Apps
      /\ Depth > 2 => Below.at = "return" /\ Top.ksepc = Came(Depth - 1)
                      /\ Top.ksstatus = <<FALSE, Below.sie, Below.from>>
      /\ Depth = 2 => cur \notin Apps /\ Top.ksstatus # <<>>
  BY <1>1, CallIs
<1> DEFINE f == [Top EXCEPT !.at = "w_sstatus", !.old = NoThread, !.next = NoThread]
<1>3. /\ f \in CallFrames(created) /\ f.at = "w_sstatus" /\ f.to = Top.to /\ f.ksepc = Top.ksepc
      /\ f.ksstatus = Top.ksstatus
  BY <1>2 DEF CallFrames, CallPlaces
<1> HIDE DEF f
<1> DEFINE s == stack[cur]
<1> DEFINE n == Depth
<1> DEFINE S == Frames(created)
<1>4. s \in Seq(S) /\ s # <<>> /\ n = Len(s) /\ StackOK(cur, s, created) /\ f \in S
  BY <1>3, StackIs DEF Stacks, Depth, Frames
<1>5. (Depth - 1) - 1 = Depth - 2
  BY <1>2
<1>6. n > 2 => /\ s[n-1].at = "return" /\ f.ksepc = [of |-> cur, at |-> s[n-2].at]
               /\ f.ksstatus = <<FALSE, s[n-1].sie, s[n-1].from>>
  BY <1>2, <1>3, <1>5 DEF Below, Came
<1>7. n \in Nat /\ n >= 2 /\ n = Depth /\ (n = 2 => cur \notin Apps /\ f.ksstatus # <<>>)
      /\ (f.to = "away" => cur \in Apps)
  BY <1>2, <1>3
<1> DEFINE r == [s EXCEPT ![n] = f]
<1>8. s = stack[cur]
  OBVIOUS
<1> HIDE DEF s, n, S
<1>9. r \in Seq(S) /\ Len(r) = n /\ r[n] = f /\ \A i \in 1..(n - 1) : r[i] = s[i]
  BY <1>4, TopChanged
<1> HIDE DEF r
<1>10. StackOK(cur, r, created) /\ r[1] = s[1] /\ (n > 2 => r[2] = s[2])
  <2>1. StackOK(cur, s, created) /\ n \in Nat /\ n = Len(s) /\ n >= 2
    BY <1>4, <1>7
  <2>2. f \in CallFrames(created) /\ f.at = "w_sstatus" /\ (f.to = "away" => cur \in Apps)
    BY <1>3, <1>7
  <2>3. r \in Seq(Frames(created)) /\ Len(r) = n /\ r[n] = f /\ \A i \in 1..(n - 1) : r[i] = s[i]
    BY <1>9 DEF S
  <2>4. n = 2 => cur \notin Apps /\ f.ksstatus # <<>>
    BY <1>7
  <2>5. Replaces(cur, s, n, f, r, created)
    BY <1>6, <2>1, <2>2, <2>3, <2>4 DEF Replaces
  <2> QED BY <2>5, CallReplaced
<1>11. IsCall(f) /\ Last(r) = f
  BY <1>3, <1>9 DEF IsCall, CallPlaces, Last
<1>12. r = [stack[cur] EXCEPT ![Depth] = f]
  BY <1>7, <1>8 DEF r
<1> QED BY <1>3, <1>7, <1>8, <1>9, <1>10, <1>11, <1>12 DEF f

\* Who executes after the switch, and on which stacks.
Switched(r) ==
    /\ context' = [context EXCEPT ![Top.old] = cur]
    /\ cur' = IF running = Top.old THEN cur ELSE running
    /\ stack' = [t \in Threads |-> stack'[t]]
    /\ stack'[cur] = r
    /\ \A t \in Threads \ {cur} :
          \/ stack'[t] = stack[t] /\ (t = cur' => stack[t][Len(stack[t])].at = "w_sstatus" \/ t \notin Apps)
          \/ t = cur' /\ t \in Apps /\ stack[t] = <<[at |-> "csrw", clean |-> FALSE]>>
             /\ stack'[t] = <<[at |-> "csrw", clean |-> ~sie /\ spp = "U"]>>
    /\ UNCHANGED <<mode, sie, spie, spp, sepc, running, ready, away, broken, created, finished, hits>>

LEMMA WhoExecutes ==
    ASSUME IInv, ContextSwitch,
           NEW f, f = [Top EXCEPT !.at = "w_sstatus", !.old = NoThread, !.next = NoThread],
           NEW r, r = [stack[cur] EXCEPT ![Depth] = f]
    PROVE  Switched(r)
<1>1. Shape /\ Stacks /\ Typed /\ cur \in Threads /\ running \in Threads /\ Top.at = "switch" /\ ContextsOK
  BY AtIs DEF ContextSwitch
<1>2. r[Len(r)] = f /\ f.at = "w_sstatus" /\ Last(r) = f
  BY <1>1, Saved
<1> DEFINE saved == [stack EXCEPT ![cur][Depth] =
                        [@ EXCEPT !.at = "w_sstatus", !.old = NoThread, !.next = NoThread]]
<1>3. /\ context' = [context EXCEPT ![Top.old] = cur] /\ cur' = context'[running]
      /\ stack' = IF Last(saved[cur']).at # "csrw" THEN saved
                  ELSE [saved EXCEPT ![cur'][1].clean = ~sie /\ spp = "U"]
  BY DEF ContextSwitch, SavedContext
<1>4. UNCHANGED <<mode, sie, spie, spp, sepc, running, ready, away, broken, created, finished, hits>>
  BY DEF ContextSwitch, csrs, sched, sstatus, queues
<1>5. stack = [t \in Threads |-> stack[t]]
  BY <1>1 DEF Stacks
<1>6. saved = [stack EXCEPT ![cur] = r]
  BY DEF Top
<1>7. context \in [Threads -> Threads] /\ \A t \in Threads : context[t] = t
  BY <1>1 DEF Typed, ContextsOK
<1>8. cur' = IF running = Top.old THEN cur ELSE running
  BY <1>1, <1>3, <1>7
<1>9. saved[cur] = r /\ saved = [t \in Threads |-> saved[t]]
      /\ \A t \in Threads \ {cur} : saved[t] = stack[t]
  BY <1>1, <1>5, <1>6
<1> HIDE DEF saved
<1>10. CASE cur' = cur
  <2>1. stack' = saved
    BY <1>2, <1>3, <1>9, <1>10
  <2> QED BY <1>3, <1>4, <1>8, <1>9, <1>10, <2>1 DEF Switched
<1>11. CASE cur' # cur
  <2>1. cur' = running /\ running \in Threads \ {cur} /\ saved[running] = stack[running]
    BY <1>1, <1>8, <1>9, <1>11
  <2> DEFINE s == stack[running]
  <2>2. Waiting(running) /\ s \in Seq(Frames(created)) /\ s # <<>>
    BY <1>1, <2>1, StackIs DEF Shape
  <2>3. Last(s) = s[Len(s)]
    BY DEF Last
  <2>4. CASE Last(s).at # "csrw"
    <3>1. stack' = saved
      BY <1>3, <2>1, <2>4
    <3>2. s[Len(s)].at = "w_sstatus" \/ running \notin Apps
      <4>1. CASE Fresh(running)
        BY <2>3, <2>4, <4>1 DEF Fresh, FirstFrame
      <4> QED BY <2>2, <4>1 DEF Waiting
    <3>3. \A t \in Threads \ {cur} :
             stack'[t] = stack[t] /\ (t = cur' => stack[t][Len(stack[t])].at = "w_sstatus" \/ t \notin Apps)
      BY <1>9, <2>1, <3>1, <3>2
    <3> QED BY <1>3, <1>4, <1>8, <1>9, <3>1, <3>3 DEF Switched
  <2>5. CASE Last(s).at = "csrw"
    <3>1. s = <<[at |-> "csrw", clean |-> FALSE]>> /\ running \in Apps
      <4>1. Fresh(running)
        BY <2>2, <2>3, <2>5 DEF Waiting
      <4> DEFINE b == FirstFrame(running)
      <4>2. s = <<b>>
        BY <4>1 DEF Fresh
      <4>3. b.at = "csrw"
        <5> HIDE DEF b, s
        <5> QED BY <2>3, <2>5, <4>2
      <4> QED BY <4>2, <4>3 DEF FirstFrame
    <3> DEFINE c == (~sie /\ spp = "U")
    <3>2. stack' = [saved EXCEPT ![running][1].clean = c]
      BY <1>3, <2>1, <2>5
    <3> HIDE DEF c
    <3>3. stack'[running] = [s EXCEPT ![1].clean = c]
      BY <1>9, <2>1, <3>2
    <3>4. stack'[running] = <<[at |-> "csrw", clean |-> c]>>
      BY <3>1, <3>3
    <3>5. stack' = [t \in Threads |-> stack'[t]] /\ stack'[cur] = r
          /\ \A t \in Threads \ {cur, running} : stack'[t] = stack[t]
      BY <1>1, <1>9, <2>1, <3>2
    <3> QED BY <1>3, <1>4, <1>8, <2>1, <3>1, <3>4, <3>5 DEF Switched, c
  <2> QED BY <2>4, <2>5
<1> QED BY <1>10, <1>11

\* At the switch.
LEMMA SwitchIs ==
    ASSUME IInv, ContextSwitch
    PROVE  /\ Shape /\ Stacks /\ Typed /\ CleanOK /\ cur \in Threads /\ running \in Threads
           /\ Top.at = "switch" /\ IsCall(Top) /\ mode = "S" /\ running = Top.next
           /\ Top.old \in Threads
           /\ Depth = 2 => cur \notin Apps /\ Top.old = cur /\ ~Window(cur)
           /\ Depth > 2 => Top.old = IF Window(cur) THEN stack[cur][2].next ELSE cur
<1>1. /\ Shape /\ Stacks /\ Typed /\ CleanOK /\ cur \in Threads /\ running \in Threads
      /\ Top.at = "switch"
  BY AtIs DEF ContextSwitch
<1>2. IsCall(Top)
  BY <1>1, IsCallAt DEF CallPlaces
<1>3. /\ Depth \in Nat /\ Depth >= 2 /\ Top.old \in created
      /\ Depth = 2 => cur \notin Apps /\ Top.old = cur
  BY <1>1, <1>2, CallIs
<1>4. /\ Depth > 2 => /\ mode = "S"
                      /\ Top.old = IF Window(cur) THEN stack[cur][2].next ELSE cur
      /\ running = Top.next
      /\ Window(cur) => Depth > 2
      /\ cur \notin Apps => mode = "S"
  BY <1>1, <1>2, CallCpu
<1>5. Depth = 2 \/ Depth > 2
  BY <1>3
<1>6. Depth = 2 => ~Window(cur)
  BY <1>4
<1> QED BY <1>1, <1>2, <1>3, <1>4, <1>5, <1>6 DEF Typed

LEMMA ContextSwitchKeeps ==
    ASSUME IInv, ContextSwitch PROVE Kept'
<1>1. /\ Shape /\ Stacks /\ Typed /\ CleanOK /\ cur \in Threads /\ running \in Threads
      /\ Top.at = "switch" /\ IsCall(Top) /\ mode = "S" /\ running = Top.next
      /\ Top.old \in Threads
      /\ Depth = 2 => cur \notin Apps /\ Top.old = cur /\ ~Window(cur)
      /\ Depth > 2 => Top.old = IF Window(cur) THEN stack[cur][2].next ELSE cur
  BY SwitchIs
<1> DEFINE f == [Top EXCEPT !.at = "w_sstatus", !.old = NoThread, !.next = NoThread]
<1> DEFINE r == [stack[cur] EXCEPT ![Depth] = f]
<1>2. /\ StackOK(cur, r, created) /\ r[Len(r)] = f /\ f.at = "w_sstatus" /\ IsCall(f)
      /\ Len(r) = Depth /\ Depth \in Nat /\ Depth >= 2 /\ r[1] = stack[cur][1]
      /\ Depth > 2 => r[2] = stack[cur][2]
  BY <1>1, Saved
<1>3. Switched(r)
  BY WhoExecutes
<1> HIDE DEF r, f
<1>4. Depth = 2 \/ Depth > 2
  BY <1>2
<1>5. Depth = Len(stack[cur])
  BY DEF Depth
<1>6. /\ context' = [context EXCEPT ![Top.old] = cur]
      /\ cur' = IF running = Top.old THEN cur ELSE running
      /\ stack' = [t \in Threads |-> stack'[t]] /\ stack'[cur] = r
      /\ UNCHANGED <<mode, sie, spie, spp, sepc, running, ready, away, broken, created, finished, hits>>
      /\ cur' \in {cur, running} /\ cur' \in Threads
  BY <1>1, <1>3 DEF Switched
<1>7. ASSUME NEW t \in Threads, t # cur
      PROVE  \/ stack'[t] = stack[t] /\ (t = cur' => stack[t][Len(stack[t])].at = "w_sstatus" \/ t \notin Apps)
             \/ t = cur' /\ t \in Apps /\ stack[t] = <<[at |-> "csrw", clean |-> FALSE]>>
                /\ stack'[t] = <<[at |-> "csrw", clean |-> ~sie /\ spp = "U"]>>
  BY <1>3, <1>7 DEF Switched
<1>8. Stacks'
  <2>1. ASSUME NEW t \in Threads, t # cur PROVE StackOK(t, stack'[t], created)
    <3>1. CASE stack'[t] = stack[t]
      BY <1>1, <3>1 DEF Stacks
    <3>2. CASE t \in Apps /\ stack'[t] = <<[at |-> "csrw", clean |-> ~sie /\ spp = "U"]>>
      <4> DEFINE b == [at |-> "csrw", clean |-> ~sie /\ spp = "U"]
      <4>1. b \in BaseFrames /\ b.at = "csrw"
        BY DEF BaseFrames, BasePlaces
      <4> HIDE DEF b
      <4>2. BaseOK(t, b) /\ b \in Frames(created)
        BY <3>2, <4>1 DEF BaseOK, Frames
      <4> DEFINE q == <<b>>
      <4>3. q[1] = b /\ Len(q) = 1 /\ q # <<>> /\ q \in Seq(Frames(created))
        BY <4>2
      <4>4. stack'[t] = q
        BY <3>2 DEF b
      <4> HIDE DEF q
      <4>5. 2..Len(q) = {} /\ 2..(Len(q) - 1) = {}
        BY <4>3
      <4> QED BY <4>2, <4>3, <4>4, <4>5 DEF StackOK
    <3> QED BY <1>7, <2>1, <3>1, <3>2
  <2>2. \A t \in Threads : StackOK(t, stack'[t], created)
    BY <1>2, <1>6, <2>1
  <2> QED BY <1>6, <2>2 DEF Stacks
<1>9. ContextsOK' => Top.old = cur /\ cur' = running
  BY <1>1, <1>6 DEF ContextsOK, Typed
<1>10. Found'
  <2>1. CASE cur' = running
    BY <1>6, <2>1 DEF Found
  <2>2. CASE cur' # running
    <3>1. Top.old = running /\ cur' = cur /\ running # cur
      BY <1>6, <2>2
    <3>2. Depth > 2 /\ Window(cur) /\ running = stack[cur][2].next
      BY <1>1, <1>4, <3>1
    <3>3. Len(r) > 1 /\ r[2] = stack[cur][2]
      BY <1>2, <3>2
    <3> QED BY <1>6, <3>1, <3>2, <3>3 DEF Found, Window
  <2> QED BY <2>1, <2>2
<1>11. ASSUME NEW t \in Threads, t # cur, t # cur' PROVE stack'[t] = stack[t] /\ Waiting(t)
  BY <1>1, <1>7, <1>11 DEF Shape
<1>12. Shape' \/ ~ContextsOK'
  <2>1. SUFFICES ASSUME ContextsOK' PROVE Shape'
    OBVIOUS
  <2>2. Top.old = cur /\ cur' = running
    BY <1>9, <2>1
  <2>3. Window(cur) => stack[cur][2].next = cur
    BY <1>1, <1>4, <2>2
  <2>4. \/ /\ Window(cur) <=> Window(cur)'
           /\ Window(cur) => stack'[cur][2] = stack[cur][2]
        \/ cur' # cur
    <3>1. CASE Depth = 2
      BY <1>1, <1>2, <1>6, <3>1 DEF Window
    <3>2. CASE Depth > 2
      BY <1>2, <1>5, <1>6, <3>2 DEF Window
    <3> QED BY <1>4, <3>1, <3>2
  <2>5. ASSUME NEW t \in Threads \ {running}
        PROVE  Waiting(t)' /\ (Window(t)' => stack'[t][2].next = t)
    <3>1. CASE t # cur
      <4>1. stack'[t] = stack[t] /\ Waiting(t) /\ (Window(t) => stack[t][2].next = t)
        BY <1>1, <1>11, <2>2, <2>5, <3>1 DEF Shape
      <4> QED BY <4>1 DEF Waiting, Fresh, Window
    <3>2. CASE t = cur
      <4>1. stack'[t][Len(stack'[t])].at = "w_sstatus"
        BY <1>2, <1>6, <3>2
      <4>2. Waiting(t)'
        BY <4>1 DEF Waiting
      <4>3. Window(t)' => Depth > 2 /\ stack'[t][2] = stack[t][2]
        BY <1>2, <1>6, <3>2 DEF Window
      <4>4. Window(t)' => Window(cur)
        BY <1>5, <3>2, <4>3 DEF Window
      <4> QED BY <2>3, <3>2, <4>2, <4>3, <4>4
    <3> QED BY <3>1, <3>2
  <2>6. Top'.at \in {"w_sstatus", "csrw", "loop"}
        /\ (Window(cur)' => stack'[cur'][2].next = cur')
        /\ (cur' \notin Apps \/ Top'.at # "loop")
    <3>1. CASE cur' = cur
      <4>1. Top' = f
        BY <1>2, <1>6, <3>1 DEF Top, Depth
      <4>2. Window(cur)' => Window(cur) /\ stack'[cur'][2] = stack[cur][2]
        BY <2>4, <3>1
      <4> QED BY <1>2, <2>3, <3>1, <4>1, <4>2
    <3>2. CASE cur' # cur
      <4> DEFINE t == running
      <4>1. t \in Threads /\ t # cur /\ cur' = t /\ Waiting(t) /\ (Window(t) => stack[t][2].next = t)
        BY <1>1, <2>2, <3>2 DEF Shape
      <4>2. CASE stack'[t] = stack[t]
        <5>1. Top' = stack[t][Len(stack[t])]
          BY <4>1, <4>2 DEF Top, Depth
        <5>2. Window(cur)' => Window(t)
          BY <4>1, <4>2 DEF Window
        <5>3. Fresh(t) => Top'.at = FirstFrame(t).at /\ FirstFrame(t).at \in {"csrw", "loop"}
                          /\ (t \notin Apps \/ FirstFrame(t).at = "csrw")
          BY <5>1 DEF Fresh, FirstFrame
        <5>4. Top'.at = "w_sstatus" \/ Fresh(t)
          BY <4>1, <5>1 DEF Waiting
        <5> QED BY <4>1, <4>2, <5>2, <5>3, <5>4
      <4>3. CASE stack'[t] = <<[at |-> "csrw", clean |-> ~sie /\ spp = "U"]>>
        <5> DEFINE b == [at |-> "csrw", clean |-> ~sie /\ spp = "U"]
        <5>1. b.at = "csrw"
          OBVIOUS
        <5> HIDE DEF b
        <5>2. Len(stack'[t]) = 1 /\ stack'[t][1] = b
          BY <4>3 DEF b
        <5>3. Top' = b /\ ~Window(cur)'
          BY <4>1, <5>2 DEF Top, Depth, Window
        <5> QED BY <4>1, <5>1, <5>3
      <4> QED BY <1>7, <4>1, <4>2, <4>3
    <3> QED BY <3>1, <3>2
  <2>7. TrapCpu' /\ BaseCpu' /\ KernelCpu' /\ InnerCpu'
    BY <1>1, <1>6, <2>6 DEF TrapCpu, BaseCpu, KernelCpu, InnerCpu, IsTrap, TrapPlaces,
       IsCall, CallPlaces
  <2>8. RunningIs'
    BY <1>6, <2>2, <2>6 DEF RunningIs
  <2> QED BY <1>6, <2>2, <2>5, <2>7, <2>8 DEF Shape
<1>13. CleanOK'
  <2>1. ASSUME NEW t \in Apps, stack'[t][1].clean PROVE CleanStart(t)'
    <3>0. t \in Threads
      BY DEF Threads
    <3>1. CASE t = cur
      <4>1. Depth > 2 /\ stack'[t][1] = stack[t][1] /\ stack'[t][2] = stack[t][2]
            /\ Len(stack'[t]) = Len(stack[t]) /\ Len(stack[t]) > 1 /\ Len(stack[t]) # 1
        BY <1>1, <1>2, <1>4, <1>5, <1>6, <2>1, <3>1
      <4>2. CleanStart(t)
        BY <1>1, <2>1, <4>1 DEF CleanOK
      <4> QED BY <4>1, <4>2 DEF CleanStart, InBody
    <3>2. CASE t # cur /\ stack'[t] = stack[t]
      <4>1. CleanStart(t)
        BY <1>1, <2>1, <3>2 DEF CleanOK
      <4> QED BY <3>2, <4>1 DEF CleanStart, InBody
    <3>3. CASE t # cur /\ t = cur' /\ stack'[t] = <<[at |-> "csrw", clean |-> ~sie /\ spp = "U"]>>
      <4> DEFINE b == [at |-> "csrw", clean |-> ~sie /\ spp = "U"]
      <4>1. b.at = "csrw" /\ (b.clean => ~sie /\ spp = "U")
        OBVIOUS
      <4> HIDE DEF b
      <4>2. Len(stack'[t]) = 1 /\ stack'[t][1] = b
        BY <3>3 DEF b
      <4>3. ~sie /\ spp = "U"
        BY <2>1, <4>1, <4>2
      <4> QED BY <1>1, <1>6, <3>3, <4>1, <4>2, <4>3 DEF CleanStart, InBody
    <3> QED BY <1>7, <3>0, <3>1, <3>2, <3>3
  <2> QED BY <2>1 DEF CleanOK
<1>14. \A t \in Threads \ created : Fresh(t)'
  <2>1. ASSUME NEW t \in Threads \ created PROVE Fresh(t)'
    <3>1. t # cur /\ t # cur' /\ Fresh(t)
      BY <1>1, <1>6, <2>1 DEF Typed
    <3>2. stack'[t] = stack[t]
      BY <1>11, <2>1, <3>1
    <3> QED BY <3>1, <3>2 DEF Fresh, FirstFrame
  <2> QED BY <2>1
<1>15. Typed'
  <2>1. cur' \in created /\ context' \in [Threads -> Threads]
    BY <1>1, <1>6 DEF Typed
  <2> QED BY <1>1, <1>6, <1>14, <2>1 DEF Typed
<1> QED BY <1>8, <1>10, <1>12, <1>13, <1>15 DEF Kept

=============================================================================
