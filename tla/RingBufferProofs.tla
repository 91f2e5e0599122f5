-------------------------- MODULE RingBufferProofs --------------------------
(***************************************************************************)
(* Proofs about RingBuffer for every size, margin and number of bytes.     *)
(*                                                                         *)
(* The inductive invariant says what the two threads may rely on of each   *)
(* other: how many bytes lie between the indices (Counts), that a store    *)
(* decided on an old tail still fits the present one (StoreFits), that     *)
(* what is lent has been stored and does not wrap (LentStored), and which  *)
(* byte each cell holds (Stored, and Pending for a store not yet visible). *)
(***************************************************************************)
EXTENDS RingBuffer, SequenceTheorems, TLAPS

USE SizeAssumption

Counts ==
  /\ put = deleted + Between(head)
  /\ rpc # "idle" => /\ seen = deleted + Between(headSeen)
                     /\ seen <= put

Fits(n) ==
  /\ tail > head => head + n < tail
  /\ tail <= head /\ n >= Rest => Margin + (n - Rest) < tail

StoreFits == wpc # "idle" => Fits(count)

LentStored == lent <= Between(head) /\ lent <= Size - tail

Stored ==
  \A i \in Cells :
    /\ tail <= i /\ (i < head \/ head < tail)
         => buffer[i] = deleted + 1 + (i - tail)
    /\ head < tail /\ Margin <= i /\ i < head
         => buffer[i] = deleted + 1 + (Size - tail) + (i - Margin)

Pending ==
  wpc = "advance" =>
    \A i \in Cells :
      /\ head <= i /\ i < head + count => buffer[i] = put + 1 + (i - head)
      /\ count > Rest /\ Margin <= i /\ i < Margin + (count - Rest)
           => buffer[i] = put + 1 + Rest + (i - Margin)

IInv == TypeOK /\ Counts /\ StoreFits /\ LentStored /\ Stored /\ Pending

LEMMA InitIInv == Init => IInv
BY DEF Init, IInv, TypeOK, Counts, StoreFits, LentStored, Stored, Pending,
       Between, Cells

-----------------------------------------------------------------------------
(* One lemma per step of the writer and of the reader.                     *)

LEMMA PutStartKeeps ==
  ASSUME IInv, PutStart
  PROVE  IInv'
<1>1. PICK n \in Int : /\ n = count'
                       /\ n \in 1 .. FreeForPut \/ n \in 1 .. FreeForRead
  BY DEF PutStart
<1>2. /\ Size \in Nat /\ Margin \in Nat /\ head \in Nat /\ tail \in Nat
      /\ Margin <= head /\ head < Size /\ tail < Size
  BY DEF IInv, TypeOK, Cells
<1>3. n >= 1 /\ (n <= FreeForPut \/ n <= FreeForRead)
  BY <1>1, <1>2 DEF FreeForPut, FreeForRead
<1>4. n \in 1 .. Size /\ Fits(n)
  <2>1. CASE n <= FreeForPut
    BY <1>2, <1>3, <2>1 DEF FreeForPut, Fits, Rest
  <2>2. CASE n <= FreeForRead
    BY <1>2, <1>3, <2>2 DEF FreeForRead, Fits, Rest
  <2> QED BY <1>3, <2>1, <2>2
<1>5. count' \in 1 .. Size /\ Fits(count')
  BY <1>1, <1>4
<1>6. UNCHANGED <<head, tail, gotten, buffer, rpc, headSeen, seen, put,
                  deleted, lent>> /\ wpc' = "copy"
  BY DEF PutStart, reader
<1>7. TypeOK'
  BY <1>5, <1>6 DEF IInv, TypeOK, Cells
<1>8. Counts' /\ LentStored' /\ Stored' /\ Pending'
  BY <1>6 DEF IInv, Counts, LentStored, Stored, Pending, Between, Cells
<1>9. StoreFits'
  BY <1>5, <1>6 DEF StoreFits, Fits, Rest
<1> QED BY <1>7, <1>8, <1>9 DEF IInv

LEMMA PutCopyKeeps ==
  ASSUME IInv, PutCopy
  PROVE  IInv'
<1>1. UNCHANGED <<head, tail, gotten, count, rpc, headSeen, seen, put,
                  deleted, lent>> /\ wpc' = "advance" /\ wpc = "copy"
  BY DEF PutCopy, reader
<1>2. Rest \in Nat /\ Cells \subseteq Nat /\ count \in Nat /\ put \in Nat
      /\ head \in Cells /\ tail \in Cells /\ Margin <= head
  BY DEF IInv, TypeOK, Rest, Cells
<1>3. buffer' \in [Cells -> Nat]
  BY <1>2 DEF IInv, TypeOK, PutCopy
<1>4. TypeOK'
  BY <1>1, <1>3 DEF IInv, TypeOK, Cells
<1>5. Counts' /\ LentStored' /\ StoreFits'
  BY <1>1 DEF IInv, Counts, LentStored, StoreFits, Fits, Between, Rest
<1>6. ASSUME NEW i \in Cells
      PROVE  buffer'[i] =
               IF head <= i /\ i < head + count
               THEN put + 1 + (i - head)
               ELSE IF Margin <= i /\ count > Rest /\ i < Margin + (count - Rest)
                    THEN put + 1 + Rest + (i - Margin)
                    ELSE buffer[i]
  BY DEF PutCopy
<1>7. Stored'
  <2> SUFFICES ASSUME NEW i \in Cells
      PROVE /\ tail <= i /\ (i < head \/ head < tail)
                 => buffer'[i] = deleted + 1 + (i - tail)
            /\ head < tail /\ Margin <= i /\ i < head
                 => buffer'[i] = deleted + 1 + (Size - tail) + (i - Margin)
    BY <1>1 DEF Stored, Cells
  <2>1. (tail <= i /\ (i < head \/ head < tail)) \/ (head < tail /\ Margin <= i /\ i < head)
          => buffer'[i] = buffer[i]
    BY <1>1, <1>2, <1>6 DEF IInv, StoreFits, Fits, Rest, Cells
  <2> QED BY <2>1 DEF IInv, Stored
<1>8. Pending'
  BY <1>1, <1>2, <1>6 DEF IInv, StoreFits, Fits, Pending, Rest, Cells
<1> QED BY <1>4, <1>5, <1>7, <1>8 DEF IInv

LEMMA PutAdvanceKeeps ==
  ASSUME IInv, PutAdvance
  PROVE  IInv'
<1>1. UNCHANGED <<tail, gotten, buffer, rpc, headSeen, seen, deleted, lent>>
      /\ wpc' = "idle" /\ wpc = "advance" /\ count' = 0 /\ put' = put + count
      /\ head' = IF count >= Rest THEN Margin + (count - Rest) ELSE head + count
  BY DEF PutAdvance, reader
<1>2. head' \in Margin .. Size - 1
  BY <1>1 DEF IInv, TypeOK, StoreFits, Fits, Rest, Cells
<1>3. TypeOK'
  BY <1>1, <1>2 DEF IInv, TypeOK, Cells
<1>4. Between(head)' = Between(head) + count
  BY <1>1 DEF IInv, TypeOK, StoreFits, Fits, Between, Rest, Cells
<1>5. Between(headSeen)' = Between(headSeen) /\ Between(head) \in Nat
  BY <1>1 DEF Between, IInv, TypeOK, Cells
<1>6. Counts' /\ LentStored'
  BY <1>1, <1>4, <1>5 DEF IInv, TypeOK, Counts, LentStored, Cells
<1>7. StoreFits' /\ Pending'
  BY <1>1 DEF StoreFits, Pending
<1>8. Stored'
  <2> SUFFICES ASSUME NEW i \in Cells
      PROVE /\ tail <= i /\ (i < head' \/ head' < tail)
                 => buffer[i] = deleted + 1 + (i - tail)
            /\ head' < tail /\ Margin <= i /\ i < head'
                 => buffer[i] = deleted + 1 + (Size - tail) + (i - Margin)
    BY <1>1 DEF Stored, Cells
  <2>1. CASE count >= Rest
    BY <1>1, <2>1 DEF IInv, TypeOK, Counts, StoreFits, Fits, Stored, Pending, Between,
                      Rest, Cells
  <2>2. CASE ~ (count >= Rest)
    BY <1>1, <2>2 DEF IInv, TypeOK, Counts, StoreFits, Fits, Stored, Pending, Between,
                      Rest, Cells
  <2> QED BY <2>1, <2>2
<1> QED BY <1>3, <1>6, <1>7, <1>8 DEF IInv

LEMMA GetStartKeeps ==
  ASSUME IInv, GetStart
  PROVE  IInv'
<1>1. UNCHANGED <<head, tail, gotten, buffer, wpc, count, put, deleted, lent>>
      /\ headSeen' = head /\ seen' = put /\ rpc' \in {"get", "clear"}
  BY DEF GetStart, writer
<1>2. TypeOK'
  BY <1>1 DEF IInv, TypeOK, Cells
<1>3. Counts'
  BY <1>1 DEF IInv, TypeOK, Counts, Between
<1>4. StoreFits' /\ LentStored' /\ Stored' /\ Pending'
  BY <1>1 DEF IInv, StoreFits, Fits, LentStored, Stored, Pending, Between, Rest,
              Cells
<1> QED BY <1>2, <1>3, <1>4 DEF IInv

(* The reader's copy of head is behind head, seen from the tail.           *)
LEMMA SeenBehind ==
  ASSUME IInv, rpc # "idle"
  PROVE  /\ Between(headSeen) <= Between(head)
         /\ headSeen < tail => head < tail
         /\ tail <= head => tail <= headSeen /\ headSeen <= head
BY DEF IInv, TypeOK, Counts, Between, Cells

LEMMA GetEndKeeps ==
  ASSUME IInv, GetEnd
  PROVE  IInv'
<1>1. UNCHANGED <<head, wpc, count, headSeen, seen, put, deleted>>
      /\ rpc' = "idle" /\ rpc = "get" /\ lent' = Handed
      /\ gotten' = IF Handed > 0 THEN Handed ELSE gotten
  BY DEF GetEnd, writer
<1>2. /\ Between(headSeen) <= Between(head)
      /\ headSeen < tail => head < tail
      /\ tail <= head => tail <= headSeen /\ headSeen <= head
  BY <1>1, SeenBehind
<1>3. /\ head \in Int /\ tail \in Int /\ headSeen \in Int /\ Margin \in Nat
      /\ Size \in Nat /\ 2 * Margin <= Size
      /\ Margin <= head /\ head < Size /\ 0 <= tail /\ tail < Size
      /\ Margin <= headSeen /\ headSeen < Size
  BY DEF IInv, TypeOK, Cells
<1>4. CASE ~ AtEnd
  <2>1. UNCHANGED <<tail, buffer>>
    BY <1>4 DEF GetEnd, Move
  <2>2. Handed = DataReady(IF tail <= headSeen THEN headSeen - tail
                                               ELSE Size - tail)
    BY <2>1 DEF Handed
  <2>3. Handed \in 0 .. Size /\ Handed <= Size - tail /\ Handed <= Between(head)
    BY <1>2, <1>3, <2>2 DEF DataReady, Between
  <2>4. TypeOK'
    BY <1>1, <2>1, <2>3 DEF IInv, TypeOK, Cells
  <2>5. LentStored'
    BY <1>1, <2>1, <2>3 DEF LentStored, Between
  <2>6. Counts' /\ StoreFits' /\ Stored' /\ Pending'
    BY <1>1, <2>1 DEF IInv, Counts, StoreFits, Fits, Stored, Pending, Between,
                      Rest, Cells
  <2> QED BY <2>4, <2>5, <2>6 DEF IInv
<1>5. CASE AtEnd
  <2> DEFINE t == Margin - (Size - tail)
  <2>1. /\ t \in Int /\ 0 <= t /\ t < Margin /\ t < tail
        /\ head < tail /\ Margin <= tail
    BY <1>2, <1>3, <1>5 DEF AtEnd
  <2>2. /\ tail' = t
        /\ buffer' = [i \in Cells |->
             IF t <= i /\ i < Margin THEN buffer[tail + (i - t)] ELSE buffer[i]]
    BY <1>5 DEF GetEnd, Move
  <2>3. Handed = DataReady(headSeen - t)
    BY <1>3, <2>1, <2>2 DEF Handed
  <2>4. /\ Between(head)' = Between(head)
        /\ Between(head) = head - t
        /\ Between(headSeen) = headSeen - t
    BY <1>1, <1>3, <1>5, <2>1, <2>2 DEF Between, AtEnd
  <2>5. Handed \in 0 .. Size /\ Handed <= Size - t /\ Handed <= Between(head)
    BY <1>2, <1>3, <2>1, <2>3, <2>4 DEF DataReady
  <2>6. ASSUME NEW i \in Cells
        PROVE  buffer'[i] = IF t <= i /\ i < Margin THEN buffer[tail + (i - t)]
                                                    ELSE buffer[i]
    BY <2>2
  <2>7. buffer' \in [Cells -> Nat]
    <3>1. buffer \in [Cells -> Nat]
      BY DEF IInv, TypeOK
    <3>2. ASSUME NEW i \in Cells, t <= i, i < Margin
          PROVE  tail + (i - t) \in Cells
      BY <1>3, <2>1, <3>2 DEF Cells
    <3> QED BY <2>2, <3>1, <3>2
  <2>8. TypeOK'
    <3>1. tail' \in Cells
      BY <1>3, <2>1, <2>2 DEF Cells
    <3>2. gotten' \in 0 .. Size /\ lent' \in 0 .. gotten'
      BY <1>1, <2>5 DEF IInv, TypeOK
    <3> QED BY <1>1, <2>7, <3>1, <3>2 DEF IInv, TypeOK, Cells
  <2>9. Counts' /\ LentStored'
    BY <1>1, <2>2, <2>4, <2>5 DEF IInv, Counts, LentStored
  <2>10. StoreFits'
    BY <1>1, <1>3, <2>1, <2>2 DEF IInv, TypeOK, StoreFits, Fits, Rest
  <2>11. Stored'
    <3>1. ASSUME NEW i \in Cells, t <= i, i < head
          PROVE  buffer'[i] = deleted + 1 + (i - t)
      <4>1. CASE i < Margin
        <5>1. tail + (i - t) \in Cells /\ tail <= tail + (i - t)
          BY <1>3, <2>1, <3>1, <4>1 DEF Cells
        <5>2. buffer[tail + (i - t)] = deleted + 1 + ((tail + (i - t)) - tail)
          BY <2>1, <5>1 DEF IInv, Stored
        <5> QED BY <1>3, <2>1, <2>6, <3>1, <4>1, <5>2 DEF Cells
      <4>2. CASE ~ (i < Margin)
        <5>1. buffer[i] = deleted + 1 + (Size - tail) + (i - Margin)
          BY <1>3, <2>1, <3>1, <4>2 DEF IInv, Stored, Cells
        <5>2. deleted \in Nat
          BY DEF IInv, TypeOK
        <5> QED BY <1>3, <2>6, <4>2, <5>1, <5>2 DEF Cells
      <4> QED BY <4>1, <4>2
    <3>2. ASSUME NEW i \in Cells, tail' <= i, i < head' \/ head' < tail'
          PROVE  buffer'[i] = deleted' + 1 + (i - tail')
      <4>1. t <= i /\ i < head
        BY <1>1, <1>3, <2>1, <2>2, <3>2
      <4> QED BY <1>1, <2>2, <3>1, <4>1
    <3>3. ~ (head' < tail') /\ Cells' = Cells
      BY <1>1, <1>3, <2>1, <2>2 DEF Cells
    <3> QED BY <3>2, <3>3 DEF Stored
  <2>12. Pending'
    <3>1. ASSUME NEW i \in Cells, Margin <= i
          PROVE  buffer'[i] = buffer[i]
      BY <1>3, <2>6, <3>1 DEF Cells
    <3>2. Cells' = Cells /\ Cells \subseteq Int /\ Rest' = Rest
      BY <1>1 DEF Cells, Rest
    <3> QED BY <1>1, <1>3, <3>1, <3>2 DEF IInv, Pending
  <2> QED BY <2>8, <2>9, <2>10, <2>11, <2>12 DEF IInv
<1> QED BY <1>4, <1>5

LEMMA DelKeeps ==
  ASSUME IInv, Del
  PROVE  IInv'
<1>1. PICK n \in 1 .. lent :
        /\ tail' = IF tail + n >= Size THEN Margin ELSE tail + n
        /\ gotten' = gotten - n
        /\ lent' = lent - n
        /\ deleted' = deleted + n
  BY DEF Del
<1>2. UNCHANGED <<head, buffer, wpc, count, rpc, headSeen, seen, put>>
      /\ rpc = "idle"
  BY DEF Del, writer, reader
<1>3. /\ head \in Int /\ tail \in Int /\ Margin \in Nat /\ Size \in Nat
      /\ lent \in Nat /\ deleted \in Nat /\ gotten \in Nat /\ lent <= gotten
      /\ gotten <= Size
      /\ Margin <= head /\ head < Size /\ 0 <= tail /\ tail < Size
      /\ Margin < Size
      /\ n \in Nat /\ n <= lent /\ n >= 1
  BY <1>1 DEF IInv, TypeOK, Cells
<1>4. lent <= Between(head) /\ lent <= Size - tail
  BY DEF IInv, LentStored
<1>5. /\ Between(head)' = Between(head) - n
      /\ tail' \in Cells
      /\ tail + n >= Size => tail' = Margin /\ tail + n = Size /\ head < tail
      /\ tail + n < Size => tail' = tail + n
      /\ tail <= head => tail' <= head
  BY <1>1, <1>2, <1>3, <1>4 DEF Between, Cells
<1>6. TypeOK'
  BY <1>1, <1>2, <1>3, <1>5 DEF IInv, TypeOK, Cells
<1>7. Counts'
  <2>1. put = deleted + Between(head) /\ Between(head) \in Int
    BY <1>3 DEF IInv, Counts, Between
  <2> QED BY <1>1, <1>2, <1>3, <1>5, <2>1 DEF Counts
<1>8. LentStored'
  <2>1. Between(head) \in Int
    BY <1>3 DEF Between
  <2>2. lent - n <= Size - tail'
    BY <1>3, <1>4, <1>5
  <2> QED BY <1>1, <1>2, <1>3, <1>4, <1>5, <2>1, <2>2 DEF LentStored
<1>9. StoreFits'
  BY <1>2, <1>3, <1>5 DEF IInv, TypeOK, StoreFits, Fits, Rest
<1>10. Stored'
  <2> SUFFICES ASSUME NEW i \in Cells
      PROVE /\ tail' <= i /\ (i < head \/ head < tail')
                 => buffer[i] = deleted' + 1 + (i - tail')
            /\ head < tail' /\ Margin <= i /\ i < head
                 => buffer[i] = deleted' + 1 + (Size - tail') + (i - Margin)
    BY <1>2 DEF Stored, Cells
  <2>1. i \in Int /\ i < Size
    BY <1>3 DEF Cells
  <2>2. CASE tail + n >= Size
    BY <1>1, <1>3, <1>5, <2>1, <2>2 DEF IInv, Stored
  <2>3. CASE ~ (tail + n >= Size)
    BY <1>1, <1>3, <1>5, <2>1, <2>3 DEF IInv, Stored
  <2> QED BY <2>2, <2>3
<1>11. Pending'
  BY <1>2 DEF IInv, Pending, Rest, Cells
<1> QED BY <1>6, <1>7, <1>8, <1>9, <1>10, <1>11 DEF IInv

LEMMA ClearKeeps ==
  ASSUME IInv, Clear
  PROVE  IInv'
<1>1. UNCHANGED <<head, gotten, buffer, wpc, count, headSeen, seen, put>>
      /\ rpc = "clear" /\ rpc' = "idle"
      /\ tail' = headSeen /\ deleted' = seen /\ lent' = 0
  BY DEF Clear, writer
<1>2. /\ Between(headSeen) <= Between(head)
      /\ headSeen < tail => head < tail
      /\ tail <= head => tail <= headSeen /\ headSeen <= head
  BY <1>1, SeenBehind
<1>3. /\ head \in Int /\ tail \in Int /\ headSeen \in Int /\ Margin \in Nat
      /\ Size \in Nat /\ deleted \in Nat /\ put \in Nat /\ seen \in Nat
      /\ Margin <= head /\ head < Size /\ 0 <= tail /\ tail < Size
      /\ Margin <= headSeen /\ headSeen < Size
  BY DEF IInv, TypeOK, Cells
<1>4. /\ put = deleted + Between(head)
      /\ seen = deleted + Between(headSeen)
  BY <1>1 DEF IInv, Counts
<1>5. TypeOK'
  BY <1>1, <1>3 DEF IInv, TypeOK, Cells
<1>6. Counts' /\ LentStored'
  BY <1>1, <1>2, <1>3, <1>4 DEF Counts, LentStored, Between
<1>7. StoreFits'
  BY <1>1, <1>2, <1>3 DEF IInv, TypeOK, StoreFits, Fits, Rest, Between
<1>8. Stored'
  <2> SUFFICES ASSUME NEW i \in Cells
      PROVE /\ headSeen <= i /\ (i < head \/ head < headSeen)
                 => buffer[i] = seen + 1 + (i - headSeen)
            /\ head < headSeen /\ Margin <= i /\ i < head
                 => buffer[i] = seen + 1 + (Size - headSeen) + (i - Margin)
    BY <1>1 DEF Stored, Cells
  <2>1. i \in Int /\ 0 <= i /\ i < Size
    BY <1>3 DEF Cells
  <2>2. CASE tail <= headSeen
    BY <1>2, <1>3, <1>4, <2>1, <2>2 DEF IInv, Stored, Between
  <2>3. CASE ~ (tail <= headSeen)
    BY <1>2, <1>3, <1>4, <2>1, <2>3 DEF IInv, Stored, Between
  <2> QED BY <2>2, <2>3
<1>9. Pending'
  BY <1>1 DEF IInv, Pending, Rest, Cells
<1> QED BY <1>5, <1>6, <1>7, <1>8, <1>9 DEF IInv

LEMMA StutterKeeps ==
  ASSUME IInv, UNCHANGED vars
  PROVE  IInv'
BY DEF IInv, vars, TypeOK, Counts, StoreFits, Fits, LentStored, Stored, Pending,
       Between, Rest, Cells

LEMMA StepKeeps == IInv /\ [Next]_vars => IInv'
BY PutStartKeeps, PutCopyKeeps, PutAdvanceKeeps, GetStartKeeps, GetEndKeeps,
   DelKeeps, ClearKeeps, StutterKeeps DEF Next

LEMMA Invariance == Spec => []IInv
<1> QED BY InitIInv, StepKeeps, PTL DEF Spec

-----------------------------------------------------------------------------
(* The indices and counters stay in range, for every size and margin.      *)
THEOREM TypeCorrect == Spec => []TypeOK
<1>1. IInv => TypeOK BY DEF IInv
<1> QED BY <1>1, Invariance, PTL

(* What Get() handed out stays one block of the right bytes until it is    *)
(* deleted, however the writer's steps fall between the reader's.          *)
THEOREM LentStaysIntact == Spec => []LentIntact
<1>1. ASSUME IInv PROVE LentIntact
  <2> SUFFICES ASSUME NEW k \in 0 .. lent - 1
               PROVE  /\ tail + k < Size
                      /\ buffer[tail + k] = deleted + 1 + k
    BY DEF LentIntact
  <2>1. /\ lent \in Nat /\ tail \in Nat /\ head \in Nat /\ deleted \in Nat
        /\ tail < Size /\ lent <= Size - tail /\ lent <= Between(head)
    BY <1>1 DEF IInv, TypeOK, LentStored, Cells
  <2>2. tail + k \in Cells /\ tail <= tail + k
    BY <2>1 DEF Cells
  <2>3. tail + k < head \/ head < tail
    BY <2>1 DEF Between
  <2>4. buffer[tail + k] = deleted + 1 + ((tail + k) - tail)
    BY <1>1, <2>2, <2>3 DEF IInv, Stored
  <2> QED BY <2>1, <2>2, <2>4 DEF Cells
<1> QED BY <1>1, Invariance, PTL

(* With a margin of less than half the size the two threads never wait for *)
(* each other; at exactly half, which the constructor accepts, they may.   *)
THEOREM ThreadsDoNotBlock ==
  ASSUME 2 * Margin < Size
  PROVE  Spec => []NeverStuck
<1>1. ASSUME IInv PROVE NeverStuck
  BY <1>1 DEF IInv, TypeOK, NeverStuck, Available, Between, DataReady,
              FreeForPut, FreeForRead, Cells
<1> QED BY <1>1, Invariance, PTL

(* If the margin's worth of bytes is there Get() hands out that many in    *)
(* one block, at the end of the buffer too.                                *)
THEOREM MarginIsHandedOut == Spec => MarginPromise
<1>1. ASSUME IInv, GetEnd, Between(headSeen) >= Margin
      PROVE  lent' >= Margin
  <2>1. lent' = Handed /\ rpc = "get"
    BY <1>1 DEF GetEnd
  <2>2. /\ head \in Int /\ tail \in Int /\ headSeen \in Int /\ Margin \in Nat
        /\ Size \in Nat /\ 2 * Margin <= Size
        /\ Margin <= head /\ head < Size /\ 0 <= tail /\ tail < Size
        /\ Margin <= headSeen /\ headSeen < Size
    BY <1>1 DEF IInv, TypeOK, Cells
  <2>3. CASE AtEnd
    <3>1. tail' = Margin - (Size - tail)
      BY <1>1, <2>3 DEF GetEnd, Move
    <3>2. Handed = DataReady(headSeen - tail') /\ headSeen - tail' >= Margin
      BY <1>1, <2>2, <2>3, <3>1 DEF Handed, Between, AtEnd
    <3> QED BY <2>1, <2>2, <3>1, <3>2 DEF DataReady
  <2>4. CASE ~ AtEnd
    <3>1. tail' = tail
      BY <1>1, <2>4 DEF GetEnd, Move
    <3> QED BY <1>1, <2>1, <2>2, <2>4, <3>1 DEF Handed, DataReady, Between, AtEnd
  <2> QED BY <2>3, <2>4
<1>2. IInv /\ [Next]_vars
        => [GetEnd => (Between(headSeen) >= Margin => lent' >= Margin)]_vars
  BY <1>1
<1> QED BY <1>2, Invariance, PTL DEF Spec, MarginPromise

-----------------------------------------------------------------------------
(* The ring buffer implements the FIFO queue: seen as a queue it holds the *)
(* numbers of the bytes stored and not deleted, a run of numbers.          *)

Run(a, n) == [k \in 1 .. n |-> a + k]

LEMMA RunIsSeq ==
  ASSUME NEW a \in Nat, NEW n \in Nat
  PROVE  Run(a, n) \in Seq(Nat) /\ Len(Run(a, n)) = n
BY DEF Run

LEMMA RunAppended ==
  ASSUME NEW a \in Nat, NEW m \in Nat, NEW n \in Nat
  PROVE  Run(a, m) \o Run(a + m, n) = Run(a, m + n)
<1> DEFINE s == Run(a, m)
           t == Run(a + m, n)
           u == Run(a, m + n)
<1>1. s \in Seq(Nat) /\ Len(s) = m
  BY RunIsSeq
<1>2. t \in Seq(Nat) /\ Len(t) = n
  <2>1. a + m \in Nat
    OBVIOUS
  <2> QED BY <2>1, RunIsSeq
<1>3. u \in Seq(Nat) /\ Len(u) = m + n
  <2>1. m + n \in Nat
    OBVIOUS
  <2> QED BY <2>1, RunIsSeq
<1>4. /\ s \o t \in Seq(Nat) /\ Len(s \o t) = m + n
      /\ \A k \in 1 .. m + n :
           (s \o t)[k] = IF k <= m THEN s[k] ELSE t[k - m]
  <2> HIDE DEF s, t
  <2> QED BY <1>1, <1>2, ConcatProperties
<1>5. ASSUME NEW k \in 1 .. m + n
      PROVE  (s \o t)[k] = u[k]
  <2>1. u[k] = a + k
    BY DEF Run
  <2>2. CASE k <= m
    <3>1. k \in 1 .. m /\ (s \o t)[k] = s[k]
      BY <1>4, <2>2
    <3> QED BY <2>1, <3>1 DEF Run
  <2>3. CASE ~ (k <= m)
    <3>1. k - m \in 1 .. n /\ (s \o t)[k] = t[k - m]
      BY <1>4, <2>3
    <3>2. t[k - m] = (a + m) + (k - m)
      BY <3>1 DEF Run
    <3>3. k \in Int /\ (a + m) + (k - m) = a + k
      OBVIOUS
    <3> HIDE DEF s, t, u
    <3> QED BY <2>1, <3>1, <3>2, <3>3
  <2> QED BY <2>2, <2>3
<1> HIDE DEF s, t, u
<1>6. s \o t = u
  BY <1>3, <1>4, <1>5, SeqEqual
<1> QED BY <1>6 DEF s, t, u

LEMMA RunDropped ==
  ASSUME NEW a \in Nat, NEW m \in Nat, NEW n \in 0 .. m
  PROVE  SubSeq(Run(a, m), n + 1, m) = Run(a + n, m - n)
BY DEF Run

ContentsAreRun ==
  /\ Contents = Run(deleted, put - deleted)
  /\ put - deleted \in 0 .. Size - 1

LEMMA ContentsInv ==
  ASSUME IInv
  PROVE  ContentsAreRun
<1>1. /\ head \in Int /\ tail \in Int /\ Margin \in Nat /\ Size \in Nat
      /\ deleted \in Nat /\ Margin <= head /\ head < Size
      /\ 0 <= tail /\ tail < Size
  BY DEF IInv, TypeOK, Cells
<1>2. Available \in 0 .. Size - 1 /\ put - deleted = Available
  BY <1>1 DEF IInv, Counts, Available, Between
<1>3. ASSUME NEW k \in 1 .. Available
      PROVE  buffer[Cell(k - 1)] = deleted + k
  <2>1. CASE tail + (k - 1) < Size
    <3>1. Cell(k - 1) = tail + (k - 1) /\ Cell(k - 1) \in Cells
      BY <1>1, <1>2, <2>1 DEF Cell, Cells
    <3>2. tail + (k - 1) < head \/ head < tail
      BY <1>1, <1>2, <2>1 DEF Available, Between
    <3> QED BY <1>1, <1>2, <3>1, <3>2 DEF IInv, Stored
  <2>2. CASE ~ (tail + (k - 1) < Size)
    <3>1. /\ Cell(k - 1) = (tail + (k - 1)) - Size + Margin
          /\ head < tail /\ Margin <= Cell(k - 1) /\ Cell(k - 1) < head
          /\ Cell(k - 1) \in Cells
      BY <1>1, <1>2, <2>2 DEF Cell, Cells, Available, Between
    <3> QED BY <1>1, <1>2, <3>1 DEF IInv, Stored
  <2> QED BY <2>1, <2>2
<1> QED BY <1>2, <1>3 DEF ContentsAreRun, Contents, Run

LEMMA InitImplements == Init => F!Init
<1> SUFFICES ASSUME Init PROVE F!Init
  OBVIOUS
<1>1. Available = 0
  BY DEF Init, Available, Between
<1>2. Contents = <<>>
  BY <1>1 DEF Contents
<1> QED BY <1>2 DEF Init, F!Init

(* What is lent is part of what the queue holds.                           *)
LentIsStored == lent \in Nat /\ lent <= put - deleted

LEMMA LentIsStoredInv ==
  ASSUME IInv
  PROVE  LentIsStored
<1>1. lent \in Nat /\ deleted \in Nat /\ Between(head) \in Int
  BY DEF IInv, TypeOK, Between, Cells
<1>2. lent <= Between(head) /\ put = deleted + Between(head)
  BY DEF IInv, LentStored, Counts
<1> QED BY <1>1, <1>2 DEF LentIsStored

LEMMA StepImplements ==
  ASSUME IInv, LentIsStored', ContentsAreRun, ContentsAreRun', [Next]_vars
  PROVE  [F!Next]_(F!vars)
<1> USE DEF F!vars, F!Next
<1>1. /\ Contents = Run(deleted, put - deleted)
      /\ Contents' = Run(deleted', put' - deleted')
      /\ put - deleted \in 0 .. Size - 1
  BY DEF ContentsAreRun
<1>2. /\ deleted \in Nat /\ Size \in Nat /\ lent \in Nat /\ put \in Nat
      /\ put - deleted \in Nat /\ lent <= put - deleted
  <2>1. deleted \in Nat /\ Size \in Nat /\ lent \in Nat /\ put \in Nat
    BY DEF IInv, TypeOK
  <2>2. LentIsStored
    BY LentIsStoredInv
  <2> QED BY <1>1, <2>1, <2>2 DEF LentIsStored
<1>3. Len(Contents) = put - deleted
  BY <1>1, <1>2, RunIsSeq
<1>4. ASSUME UNCHANGED <<put, deleted>>
      PROVE  Contents' = Contents
  BY <1>1, <1>4
<1>5. CASE PutStart \/ PutCopy \/ GetStart \/ UNCHANGED vars
  <2>1. UNCHANGED <<put, deleted, lent>>
    BY <1>5 DEF PutStart, PutCopy, GetStart, vars, writer, reader
  <2> QED BY <1>4, <2>1
<1>6. CASE PutAdvance
  <2>1. put' = put + count /\ deleted' = deleted /\ lent' = lent
        /\ count \in Nat
    BY <1>6 DEF PutAdvance, reader, IInv, TypeOK
  <2>2. /\ (put + count) - deleted = (put - deleted) + count
        /\ deleted + (put - deleted) = put
    BY <1>2, <2>1
  <2>3. Contents' = Run(deleted, (put - deleted) + count)
    BY <1>1, <2>1, <2>2
  <2>4. Contents' = Contents \o Run(put, count)
    <3>1. Run(deleted, put - deleted) \o Run(deleted + (put - deleted), count)
            = Run(deleted, (put - deleted) + count)
      BY <1>2, <2>1, RunAppended
    <3> QED BY <1>1, <2>2, <2>3, <3>1
  <2>5. CASE count = 0
    BY <1>1, <1>2, <2>1, <2>2, <2>3, <2>5
  <2>6. CASE count # 0
    <3>1. (put + count) - deleted \in 0 .. Size - 1
      BY <2>1 DEF ContentsAreRun
    <3>2. count \in 1 .. (Size - 1) - Len(Contents)
      BY <1>2, <1>3, <2>1, <2>2, <2>6, <3>1
    <3> QED BY <2>1, <2>4, <3>2 DEF F!Put, Run
  <2> QED BY <2>5, <2>6
<1>7. CASE GetEnd
  <2>1. UNCHANGED <<put, deleted>>
    BY <1>7 DEF GetEnd, writer
  <2>2. lent' \in Nat /\ lent' <= put' - deleted'
    BY DEF LentIsStored
  <2>3. lent' \in 0 .. Len(Contents)
    BY <1>2, <1>3, <2>1, <2>2
  <2> QED BY <1>4, <2>1, <2>3 DEF F!Get
<1>8. CASE Del
  <2>1. PICK n \in 1 .. lent : lent' = lent - n /\ deleted' = deleted + n
    BY <1>8 DEF Del
  <2>2. put' = put
    BY <1>8 DEF Del
  <2>3. put - (deleted + n) = (put - deleted) - n /\ n \in 0 .. put - deleted
    BY <1>2, <2>1
  <2>4. Contents' = Run(deleted + n, (put - deleted) - n)
    BY <1>1, <2>1, <2>2, <2>3
  <2>5. Contents' = SubSeq(Contents, n + 1, Len(Contents))
    <3>1. SubSeq(Run(deleted, put - deleted), n + 1, put - deleted)
            = Run(deleted + n, (put - deleted) - n)
      BY <1>2, <2>3, RunDropped
    <3> QED BY <1>1, <1>3, <2>4, <3>1
  <2> QED BY <2>1, <2>2, <2>5 DEF F!Del, F!Drop
<1>9. CASE Clear
  <2>1. put' = put /\ deleted' = seen /\ lent' = 0
    BY <1>9 DEF Clear
  <2>2. seen \in Nat /\ deleted <= seen /\ seen <= put
    <3>1. seen = deleted + Between(headSeen) /\ seen <= put
      BY <1>9 DEF Clear, IInv, Counts
    <3>2. seen \in Nat /\ Between(headSeen) \in Nat
      BY DEF IInv, TypeOK, Between, Cells
    <3> QED BY <1>2, <3>1, <3>2
  <2> DEFINE n == seen - deleted
  <2>3. n \in 0 .. put - deleted /\ deleted + n = seen
        /\ put - seen = (put - deleted) - n
    BY <1>2, <2>2
  <2> HIDE DEF n
  <2>4. Contents' = Run(deleted + n, (put - deleted) - n)
    BY <1>1, <2>1, <2>3
  <2>5. Contents' = SubSeq(Contents, n + 1, Len(Contents))
    <3>1. SubSeq(Run(deleted, put - deleted), n + 1, put - deleted)
            = Run(deleted + n, (put - deleted) - n)
      BY <1>2, <2>3, RunDropped
    <3> QED BY <1>1, <1>3, <2>4, <3>1
  <2> QED BY <1>3, <2>1, <2>3, <2>5 DEF F!Clear, F!Drop
<1> QED BY <1>5, <1>6, <1>7, <1>8, <1>9 DEF Next

(* The ring buffer implements the FIFO queue of Fifo: no byte is lost,     *)
(* repeated or reordered between the thread that calls Put() or Read() and *)
(* the one that calls Get(), Del() and Clear().                            *)
THEOREM ImplementsFifo == Spec => Refinement
<1>1. IInv => ContentsAreRun /\ LentIsStored
  BY ContentsInv, LentIsStoredInv
<1>2. Spec => []IInv
  BY Invariance
<1>3. IInv /\ LentIsStored' /\ ContentsAreRun /\ ContentsAreRun' /\ [Next]_vars
        => [F!Next]_(F!vars)
  BY StepImplements
<1> QED BY <1>1, <1>2, <1>3, InitImplements, PTL DEF Spec, Refinement, F!Spec
=============================================================================
