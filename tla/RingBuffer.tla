----------------------------- MODULE RingBuffer -----------------------------
(***************************************************************************)
(* cRingBufferLinear of VDR (ringbuffer.c), which carries the transport    *)
(* stream from the thread that receives it to the thread that reads it:    *)
(* one writing and one reading thread, without a lock.                     *)
(*                                                                         *)
(* A thread reads the index of the other one once, works on its copy and   *)
(* publishes its own index when its bytes are in place; each of these is a *)
(* step.  The two indices are plain integers: steps take effect in program *)
(* order, as on the x86 machines the program is built for.  The waits with *)
(* a timeout only delay a thread and are left out, so are the statistics.  *)
(* A byte is its number: the first one stored is 1, an empty cell 0.       *)
(***************************************************************************)
EXTENDS Integers

CONSTANTS
  Size,           \* cells of the buffer
  Margin,         \* bytes to be handed out in one block
  MaxBytes        \* bound: bytes stored altogether

ASSUME SizeAssumption ==
  /\ Size \in Nat /\ Size > 1
  /\ Margin \in Nat /\ 2 * Margin <= Size
  /\ MaxBytes \in Nat

VARIABLES
  head,           \* where the writer stores next
  tail,           \* where the reader takes from
  gotten,         \* bytes handed out and not deleted, as the code counts
  buffer,         \* the cells
  wpc,            \* place of the writer in Put() or Read()
  count,          \* bytes it stores
  rpc,            \* place of the reader in Get() or Clear()
  headSeen,       \* its copy of head, Head in the code
  put,            \* bytes stored so far
  seen,           \* bytes stored when headSeen was read
  deleted,        \* bytes deleted or cleared so far
  lent            \* bytes the reader may still delete by the contract

writer == <<wpc, count>>
reader == <<rpc, headSeen, seen>>
vars   == <<head, tail, gotten, buffer, wpc, count, rpc, headSeen, put, seen,
            deleted, lent>>

Cells == 0 .. Size - 1

TypeOK ==
  /\ head \in Margin .. Size - 1
  /\ tail \in Cells
  /\ gotten \in 0 .. Size
  /\ buffer \in [Cells -> Nat]
  /\ wpc \in {"idle", "copy", "advance"}
  /\ count \in 0 .. Size
  /\ rpc \in {"idle", "get", "clear"}
  /\ headSeen \in Margin .. Size - 1
  /\ put \in Nat /\ seen \in Nat /\ deleted \in Nat
  /\ lent \in 0 .. gotten

Init ==
  /\ head = Margin /\ tail = Margin
  /\ gotten = 0
  /\ buffer = [i \in Cells |-> 0]
  /\ wpc = "idle" /\ count = 0
  /\ rpc = "idle" /\ headSeen = Margin
  /\ put = 0 /\ seen = 0 /\ deleted = 0 /\ lent = 0

(* Bytes from the tail to a given head.                                    *)
Between(h) == IF tail <= h THEN h - tail ELSE (Size - tail) + (h - Margin)

Available == Between(head)

-----------------------------------------------------------------------------
(* The writer.                                                             *)

(* Mutant: a full buffer has no cell left between head and tail.           *)
FreeForPutFull ==
  IF tail < Margin THEN Size - head
  ELSE IF tail > head THEN tail - head
  ELSE (Size - head) + (tail - Margin)

(* One cell stays empty; below the margin the tail is about to return.     *)
FreeForPut ==
  IF tail < Margin THEN Size - head - 1
  ELSE IF tail > head THEN tail - head - 1
  ELSE (Size - head) + (tail - Margin) - 1

(* Mutant: the head may return to the margin although the tail is there.   *)
FreeForReadWraps == IF tail > head THEN tail - head - 1 ELSE Size - head

(* Read() fills up to the end of the buffer at most.                       *)
FreeForRead ==
  IF tail > head THEN tail - head - 1
  ELSE IF tail <= Margin THEN Size - head - 1
  ELSE Size - head

(* Put() and Read() look at tail once and decide how much they will store. *)
PutStart ==
  /\ wpc = "idle"
  /\ \E free \in {FreeForPut, FreeForRead} : count' \in 1 .. free
  /\ put + count' <= MaxBytes
  /\ wpc' = "copy"
  /\ UNCHANGED <<head, tail, gotten, buffer, reader, put, deleted, lent>>

Rest == Size - head

(* The cells that memcpy fills, the rest of them from the margin on.       *)
PutCopy ==
  /\ wpc = "copy"
  /\ buffer' = [i \in Cells |->
       IF head <= i /\ i < head + count
       THEN put + 1 + (i - head)
       ELSE IF Margin <= i /\ count > Rest /\ i < Margin + (count - Rest)
            THEN put + 1 + Rest + (i - Margin)
            ELSE buffer[i]]
  /\ wpc' = "advance"
  /\ UNCHANGED <<head, tail, gotten, count, reader, put, deleted, lent>>

PutAdvance ==
  /\ wpc = "advance"
  /\ head' = IF count >= Rest THEN Margin + (count - Rest) ELSE head + count
  /\ put' = put + count
  /\ wpc' = "idle" /\ count' = 0
  /\ UNCHANGED <<tail, gotten, buffer, reader, deleted, lent>>

-----------------------------------------------------------------------------
(* The reader.                                                             *)

GetStart ==
  /\ rpc = "idle"
  /\ rpc' \in {"get", "clear"}
  /\ headSeen' = head
  /\ seen' = put
  /\ UNCHANGED <<head, tail, gotten, buffer, writer, put, deleted, lent>>

(* Mutant: more than the margin is waited for.                             *)
DataReadyMore(n) == IF n > Margin THEN n ELSE 0

DataReady(n) == IF n >= Margin THEN n ELSE 0

AtEnd == Size - tail < Margin /\ headSeen < tail

(* Mutant: what is at the end of the buffer is handed out by itself.       *)
MoveNothing == UNCHANGED <<tail, buffer>>

(* Too little is left before the end: it is moved below the margin.        *)
Move ==
  LET t == Margin - (Size - tail)
  IN  IF AtEnd
      THEN /\ buffer' = [i \in Cells |->
                IF t <= i /\ i < Margin THEN buffer[tail + (i - t)]
                                        ELSE buffer[i]]
           /\ tail' = t
      ELSE UNCHANGED <<tail, buffer>>

(* What is handed out: all up to headSeen or to the end of the buffer.      *)
Handed ==
  DataReady(IF tail' <= headSeen THEN headSeen - tail' ELSE Size - tail')

GetEnd ==
  /\ rpc = "get"
  /\ Move
  /\ gotten' = IF Handed > 0 THEN Handed ELSE gotten
  /\ lent' = Handed
  /\ rpc' = "idle"
  /\ UNCHANGED <<head, writer, headSeen, seen, put, deleted>>

(* Mutant: the tail does not return to the margin.                         *)
DelPastEnd ==
  /\ rpc = "idle"
  /\ \E n \in 1 .. lent :
       /\ tail' = tail + n
       /\ gotten' = gotten - n
       /\ lent' = lent - n
       /\ deleted' = deleted + n
  /\ UNCHANGED <<head, buffer, writer, reader, put>>

Del ==
  /\ rpc = "idle"
  /\ \E n \in 1 .. lent :
       /\ tail' = IF tail + n >= Size THEN Margin ELSE tail + n
       /\ gotten' = gotten - n
       /\ lent' = lent - n
       /\ deleted' = deleted + n
  /\ UNCHANGED <<head, buffer, writer, reader, put>>

(* Clear() by the reading thread, which forgets what it was lent.          *)
Clear ==
  /\ rpc = "clear"
  /\ tail' = headSeen
  /\ deleted' = seen
  /\ lent' = 0
  /\ rpc' = "idle"
  /\ UNCHANGED <<head, gotten, buffer, writer, headSeen, seen, put>>

Next ==
  \/ PutStart \/ PutCopy \/ PutAdvance
  \/ GetStart \/ GetEnd \/ Del \/ Clear

Spec == Init /\ [][Next]_vars

-----------------------------------------------------------------------------
(* Properties.                                                             *)

(* The cell of the k-th byte from the tail.                                *)
Cell(k) == IF tail + k < Size THEN tail + k ELSE (tail + k) - Size + Margin

Contents == [k \in 1 .. Available |-> buffer[Cell(k - 1)]]

F == INSTANCE Fifo WITH Capacity <- Size - 1, queue <- Contents,
                        written <- put

(* The ring buffer is a FIFO queue: the writer's stores become visible     *)
(* when it moves the head and never before, moving bytes below the margin  *)
(* changes nothing, nothing stored is lost (Put, Read, Get, Del, Clear).   *)
Refinement == F!Spec

(* What Get() has handed out is one consecutive block of the right bytes   *)
(* and stays as it is until Del(), whatever the writer does meanwhile.     *)
LentIntact == \A k \in 0 .. lent - 1 : /\ tail + k < Size
                                       /\ buffer[tail + k] = deleted + 1 + k

(* "guaranteed to return at least Margin bytes in one consecutive block"   *)
(* (ringbuffer.h): Get() does so if that many bytes are there.             *)
MarginPromise ==
  [][GetEnd => (Between(headSeen) >= Margin => lent' >= Margin)]_vars

(* The two threads never wait for each other: whenever there is too little *)
(* for Get() to hand out, Put() and Read() have room (Margin at its limit, *)
(* wrap-around, the tail below the margin).                                *)
NeverStuck ==
  \/ DataReady(Available) > 0
  \/ wpc # "idle"
  \/ FreeForPut > 0 /\ FreeForRead > 0

(* "able to hold at most Size-Margin-1 bytes of data" (ringbuffer.h:75).   *)
HoldsAtMost == Available <= Size - Margin - 1
=============================================================================
