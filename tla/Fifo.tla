-------------------------------- MODULE Fifo --------------------------------
(***************************************************************************)
(* What a ring buffer promises its two threads (ringbuffer.h): the bytes   *)
(* stored are handed out in the order they were stored, none twice and     *)
(* none left out, and those lent to the reader stay until it deletes them. *)
(* The bytes are numbered as they are stored.                              *)
(***************************************************************************)
EXTENDS Naturals, Sequences

CONSTANT Capacity   \* bytes the buffer can hold

VARIABLES
  queue,            \* the numbers of the bytes stored and not yet deleted
  written,          \* how many bytes have been stored
  lent              \* how many of queue the reader may look at and delete

vars == <<queue, written, lent>>

Init == queue = <<>> /\ written = 0 /\ lent = 0

Put ==
  \E n \in 1 .. Capacity - Len(queue) :
    /\ queue' = queue \o [k \in 1 .. n |-> written + k]
    /\ written' = written + n
    /\ UNCHANGED lent

Get ==
  /\ lent' \in 0 .. Len(queue)
  /\ UNCHANGED <<queue, written>>

Drop(n) == queue' = SubSeq(queue, n + 1, Len(queue))

Del ==
  \E n \in 1 .. lent :
    /\ Drop(n)
    /\ lent' = lent - n
    /\ UNCHANGED written

(* What is stored while the buffer is cleared may stay.                    *)
Clear ==
  /\ \E n \in 0 .. Len(queue) : Drop(n)
  /\ lent' = 0
  /\ UNCHANGED written

Next == Put \/ Get \/ Del \/ Clear

Spec == Init /\ [][Next]_vars
=============================================================================
