----------------------------- MODULE ByteQueue -----------------------------
(***************************************************************************)
(* What one RTT ring promises: a bounded queue of bytes.  Bytes go in at   *)
(* one end a whole call at a time and come out at the other in the order   *)
(* they went in, each once.  A byte is known by its number in the stream   *)
(* its writer was given, so a call's bytes are consecutive numbers, and    *)
(* numbers left out are bytes that never went in.                          *)
(***************************************************************************)
EXTENDS Naturals, Sequences

CONSTANTS
  Capacity, \* bytes the queue holds
  Numbers   \* numbers a byte may have

VARIABLES
  queue, \* the bytes in it
  newest \* the number of the last byte that went in

Run(first, n) == [k \in 1..n |-> first + k - 1]

Init == queue = <<>> /\ newest = 0

Put ==
  \E n \in 1..(Capacity - Len(queue)), first \in Numbers :
    /\ first > newest
    /\ queue' = queue \o Run(first, n)
    /\ newest' = first + n - 1

Take ==
  \E n \in 1..Len(queue) :
    /\ queue' = SubSeq(queue, n + 1, Len(queue))
    /\ UNCHANGED newest

Spec == Init /\ [][Put \/ Take]_<<queue, newest>>
=============================================================================
