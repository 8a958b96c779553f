-------------------------------- MODULE Heap --------------------------------
(***************************************************************************)
(* What mem_alloc() and mem_free() promise, with no lists and no search: a *)
(* request for n blocks gets n free blocks in a row, whichever, and is     *)
(* refused only if there are none; no two grants overlap.                  *)
(***************************************************************************)
EXTENDS Integers

CONSTANTS Blocks, Lengths, Null

VARIABLES
    used,       \* the granted stretches: first block |-> number of blocks
    wanted,     \* the blocks the running request asks for, 0 if none runs
    answer      \* what the last request was given, its first block or Null

Init == used = [b \in {} |-> 0] /\ wanted = 0 /\ answer = Null

Stretch(b, n) == b..(b + n - 1)

\* n blocks from b on lie in the heap (block 0 is not part of it) and are free.
Fits(b, n) ==
    /\ Stretch(b, n) \subseteq 1..(Blocks - 1)
    /\ \A c \in DOMAIN used : Stretch(b, n) \intersect Stretch(c, used[c]) = {}

Ask(n) ==
    /\ wanted = 0
    /\ wanted' = n
    /\ UNCHANGED <<used, answer>>

Grant(b) ==
    /\ wanted # 0
    /\ Fits(b, wanted)
    /\ used' = [c \in DOMAIN used \union {b} |-> IF c = b THEN wanted ELSE used[c]]
    /\ wanted' = 0
    /\ answer' = b

Refuse ==
    /\ wanted # 0
    /\ \A b \in 1..(Blocks - 1) : ~Fits(b, wanted)
    /\ wanted' = 0
    /\ answer' = Null
    /\ UNCHANGED used

Release(b) ==
    /\ wanted = 0
    /\ used' = [c \in DOMAIN used \ {b} |-> used[c]]
    /\ UNCHANGED <<wanted, answer>>

Next ==
    \/ \E n \in Lengths : Ask(n)
    \/ \E b \in 1..(Blocks - 1) : Grant(b)
    \/ Refuse
    \/ \E b \in DOMAIN used : Release(b)

Spec == Init /\ [][Next]_<<used, wanted, answer>>

=============================================================================
