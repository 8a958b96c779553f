-------------------------------- MODULE Fifo --------------------------------
(***************************************************************************)
(* What a console buffer promises: characters leave in the order in which  *)
(* they came, at most Capacity of them wait, and one that comes while that *)
(* many wait is dropped.                                                   *)
(***************************************************************************)
EXTENDS Naturals, Sequences

CONSTANTS Chars, Capacity, Nothing

VARIABLES
    queue,      \* the characters that wait
    last        \* the character that left last

Init == queue = <<>> /\ last = Nothing

Put(c) ==
    /\ Len(queue) < Capacity
    /\ queue' = Append(queue, c)
    /\ UNCHANGED last

Get ==
    /\ queue # <<>>
    /\ last' = Head(queue)
    /\ queue' = Tail(queue)

Next == Get \/ \E c \in Chars : Put(c)

Spec == Init /\ [][Next]_<<queue, last>>

=============================================================================
