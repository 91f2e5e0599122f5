---------------------------- MODULE PmtScanProofs ----------------------------
(***************************************************************************)
(* Proofs about PmtScan, for any number of services, other filters and     *)
(* slots.  One invariant, PoolInv, says how far the loop of the state      *)
(* machine has come, how many scanners it keeps at work and who holds      *)
(* which slot.  That nobody is refused a slot, and that a filter that is   *)
(* open gets its PID, is built on it and needs enough slots.               *)
(***************************************************************************)
EXTENDS PmtScan, FiniteSetTheorems, TLAPS

USE PoolAssumption DEF Scanners, Clients

(* Slots for the scanners the loop keeps at work, one more than Limit, and *)
(* for the filters of VDR's section handler.                               *)
EnoughSlots == Slots >= Limit + 1 + Cardinality(Others)

(* Each filter has a PID of its own.                                       *)
OwnPid == \A c, d \in Clients : PidOf[c] = PidOf[d] => c = d

-----------------------------------------------------------------------------
(* The loop of the state machine.                                          *)

(* Whatever was counted as finished has finished.                          *)
LoopInv ==
  /\ finished <= i - 1
  /\ finished = i - 1 => \A s \in 1 .. i - 1 : jobDone[s]
  /\ \A s \in Scanners : jobDone[s] => pc[s] \in {"last", "ended"}
  /\ phase = "done" => \A s \in Scanners : pc[s] = "ended"

Unfinished(n) == {s \in 1 .. n : ~jobDone[s]}
AtWork        == {s \in Scanners : pc[s] # "new" /\ ~jobDone[s]}

(* Scanners are started in order, and one more than Limit of them at most  *)
(* is at work at a time.                                                   *)
ActiveInv ==
  /\ i <= Count => /\ activePmts <= Limit
                   /\ Cardinality(Unfinished(i - 1)) <= activePmts
                   /\ \A s \in 1 .. i - 1 : pc[s] # "new"
  /\ \A r, s \in Scanners : r < s /\ pc[s] # "new" => pc[r] # "new"
  /\ \A s \in Scanners : pc[s] = "new" => ~isActive[s]
  /\ Cardinality(AtWork) <= Limit + 1

Holding == {"on", "read", "close", "free"}
Asked   == {c \in Clients : pc[c] \in {"read", "close"} /\ handle[c] # 0}

(* A slot belongs to one client, and a PID in the tuner's list is that of  *)
(* an open filter.                                                         *)
SlotInv ==
  /\ \A c \in Clients : handle[c] # 0 =>
       pc[c] \in Holding /\ filtersM[handle[c]] = PidOf[c]
  /\ \A c \in Clients : pc[c] = "on" => handle[c] # 0
  /\ \A c, d \in Clients : handle[c] # 0 /\ handle[c] = handle[d] => c = d
  /\ \A s \in Slot : filtersM[s] # NoPid => \E c \in Clients : handle[c] = s
  /\ pidsM \subseteq {PidOf[c] : c \in Asked}

PoolInv == TypeOK /\ LoopInv /\ ActiveInv /\ SlotInv

(* Sets of scanners can be counted.                                        *)
LEMMA Counted ==
  ASSUME NEW S, S \subseteq Scanners
  PROVE  IsFiniteSet(S) /\ Cardinality(S) \in Nat
<1>1. IsFiniteSet(Scanners)
  BY FS_Interval
<1> QED  BY <1>1, FS_Subset, FS_CardinalityType

(* Where the clients are after one of them has moved.                      *)
LEMMA PcAfter ==
  ASSUME TypeOK, NEW c \in Clients, NEW place \in Places, Goto(c, place)
  PROVE  /\ pc' \in [Clients -> Places]
         /\ \A d \in Clients : pc'[d] = IF d = c THEN place ELSE pc[d]
BY DEF Goto, TypeOK

(* A handle is a slot or none, and a PID to filter is a PID.               *)
LEMMA SlotTypes ==
  ASSUME TypeOK
  PROVE  /\ \A c \in Clients : handle[c] # 0 => handle[c] \in Slot
         /\ \A c \in Clients : PidOf[c] \in Pids /\ PidOf[c] # NoPid
         /\ \A s \in Slot : s # 0
<1>1. \A c \in Clients : handle[c] \in 0 .. Slots
  BY DEF TypeOK
<1>2. \A n \in 0 .. Slots : n # 0 => n \in Slot
  BY DEF Slot
<1>3. \A c \in Clients : PidOf[c] \in Pids /\ PidOf[c] # NoPid
  OBVIOUS
<1>4. \A s \in Slot : s # 0
  BY DEF Slot
<1> QED  BY <1>1, <1>2, <1>3, <1>4, Zenon

(* A client that is neither to be started nor through leaves what the loop *)
(* has counted alone.                                                      *)
LEMMA ClientMoves ==
  ASSUME PoolInv, NEW c \in Clients, NEW place \in Places \ {"new"},
         pc[c] \notin {"new", "ended"}, Goto(c, place),
         pc[c] = "last" => place = "ended",
         UNCHANGED <<phase, i, finished, activePmts, jobDone>>,
         \A s \in Scanners : pc[s] = "new" => ~isActive'[s]
  PROVE  LoopInv' /\ ActiveInv'
<1> USE DEF PoolInv
<1>1. \A d \in Clients : pc'[d] = IF d = c THEN place ELSE pc[d]
  BY PcAfter
<1>2. \A d \in Clients : pc'[d] = "new" <=> pc[d] = "new"
  BY <1>1
<1>3. LoopInv'
  BY <1>1 DEF LoopInv
<1>4. AtWork' = AtWork /\ \A n : Unfinished(n)' = Unfinished(n)
  BY <1>2 DEF AtWork, Unfinished
<1>5. i \in 1 .. Count + 1
  BY DEF TypeOK
<1>6. ActiveInv'
  BY <1>2, <1>4, <1>5 DEF ActiveInv
<1> QED  BY <1>3, <1>6

(* Nobody is at work before the first pass.                                *)
LEMMA PoolInit == Init => PoolInv
<1> SUFFICES ASSUME Init
             PROVE  PoolInv
  OBVIOUS
<1>1. TypeOK
  <2>1. /\ isActive \in [Scanners -> BOOLEAN] /\ jobDone \in [Scanners -> BOOLEAN]
        /\ phase \in {"pool", "done", "stopped"}
        /\ waiting \subseteq Scanners /\ pidsM \subseteq Pids
        /\ filtersM \in [Slot -> Pids \cup {NoPid}]
    BY Zenon DEF Init
  <2>2. pc \in [Clients -> Places]
    BY DEF Init, Places
  <2>3. /\ i \in 1 .. Count + 1 /\ finished \in 0 .. Count
        /\ activePmts \in 0 .. Limit + 1
        /\ count \in [Scanners -> 0 .. MaxReads]
        /\ handle \in [Clients -> 0 .. Slots]
    BY DEF Init
  <2> QED  BY <2>1, <2>2, <2>3, Zenon DEF TypeOK
<1>2. LoopInv
  BY DEF Init, LoopInv
<1>3. ActiveInv
  <2>1. i = 1 /\ activePmts = 0
    BY DEF Init
  <2>2. AtWork = {} /\ Unfinished(i - 1) = {}
    BY <2>1 DEF Init, AtWork, Unfinished
  <2>3. Cardinality({}) = 0
    BY FS_EmptySet
  <2>4. \A s \in Scanners : pc[s] = "new" /\ ~isActive[s]
    BY DEF Init
  <2>5. Cardinality(AtWork) = 0 /\ Cardinality(Unfinished(i - 1)) = 0
    BY <2>2, <2>3, Zenon
  <2>6. \A s \in 1 .. i - 1 : FALSE
    BY <2>1
  <2>7. 0 <= Limit /\ 0 <= Limit + 1 /\ 0 <= 0
    OBVIOUS
  <2> QED  BY <2>1, <2>4, <2>5, <2>6, <2>7, Zenon DEF ActiveInv
<1>4. SlotInv
  BY DEF Init, SlotInv, Slot
<1> QED  BY <1>1, <1>2, <1>3, <1>4 DEF PoolInv

(* A scanner that has finished is passed over.                             *)
LEMMA SkipStep == PoolInv /\ PoolSkip => PoolInv'
<1> SUFFICES ASSUME PoolInv, PoolSkip
             PROVE  PoolInv'
  OBVIOUS
<1> USE DEF PoolInv
<1>1. /\ i \in 1 .. Count /\ jobDone[i] /\ phase = "pool"
      /\ finished' = finished + 1 /\ i' = i + 1
      /\ UNCHANGED <<phase, activePmts, pc, flags, slots, waiting, pidsM>>
  BY DEF PoolSkip, Finished, TypeOK
<1>2. finished \in 0 .. Count /\ finished <= i - 1
  BY DEF TypeOK, LoopInv
<1>3. TypeOK'
  <2>1. i' \in 1 .. Count + 1 /\ finished' \in 0 .. Count
    BY <1>1, <1>2
  <2> QED  BY <1>1, <2>1, Zenon DEF TypeOK, flags, slots
<1>4. LoopInv'
  <2>1. finished = i - 1 => \A s \in 1 .. i : jobDone[s]
    BY <1>1 DEF LoopInv
  <2>2. i' - 1 = i
    BY <1>1
  <2> QED  BY <1>1, <1>2, <2>1, <2>2 DEF LoopInv, flags
<1>5. ActiveInv'
  <2>1. Unfinished(i) = Unfinished(i - 1)
    BY <1>1 DEF Unfinished
  <2>2. pc[i] # "new"
    BY <1>1 DEF LoopInv
  <2>3. i' - 1 = i
    BY <1>1
  <2>4. AtWork' = AtWork /\ \A n : Unfinished(n)' = Unfinished(n)
    BY <1>1 DEF AtWork, Unfinished, flags
  <2> QED  BY <1>1, <2>1, <2>2, <2>3, <2>4 DEF ActiveInv, flags
<1>6. SlotInv'
  BY <1>1 DEF SlotInv, Asked, slots
<1> QED  BY <1>3, <1>4, <1>5, <1>6

(* The next scanner is started, if need be, and counted.                   *)
LEMMA StartStep == PoolInv /\ PoolStart => PoolInv'
<1> SUFFICES ASSUME PoolInv, PoolStart
             PROVE  PoolInv'
  OBVIOUS
<1> USE DEF PoolInv
<1>1. /\ i \in 1 .. Count /\ ~jobDone[i] /\ phase = "pool"
      /\ activePmts' = activePmts + 1
      /\ i' = IF activePmts + 1 > Limit THEN Count + 1 ELSE i + 1
      /\ UNCHANGED <<phase, finished, flags, slots, waiting, pidsM>>
  BY DEF PoolStart, CountActive, Finished, TypeOK
<1>2. /\ activePmts \in 0 .. Limit /\ finished \in 0 .. Count
      /\ finished <= i - 1
  BY <1>1 DEF TypeOK, LoopInv, ActiveInv
<1>3. /\ pc' \in [Clients -> Places]
      /\ \A c \in Clients :
           pc'[c] = IF c = i /\ pc[i] = "new" THEN "started" ELSE pc[c]
  <2>1. CASE pc[i] = "new"
    <3>1. Goto(i, "started")
      BY <1>1, <2>1 DEF PoolStart, At, ActiveInv
    <3> QED  BY <1>1, <2>1, <3>1, PcAfter DEF Places
  <2>2. CASE pc[i] # "new"
    BY <1>1, <2>2 DEF PoolStart, At, TypeOK
  <2> QED  BY <2>1, <2>2
<1>4. TypeOK'
  <2>1. i' \in 1 .. Count + 1 /\ activePmts' \in 0 .. Limit + 1
    BY <1>1, <1>2
  <2> QED  BY <1>1, <1>3, <2>1, Zenon DEF TypeOK, flags, slots
<1>5. LoopInv'
  <2>1. finished < i' - 1 /\ i' \in Int
    BY <1>1, <1>2
  <2>2. finished' <= i' - 1 /\ finished' # i' - 1
    BY <1>1, <1>2, <2>1
  <2> QED  BY <1>1, <1>3, <2>2 DEF LoopInv, flags
<1>6. Cardinality(Unfinished(i)) <= activePmts + 1
  <2>1. Unfinished(i - 1) \subseteq Scanners
    BY <1>1 DEF Unfinished
  <2>2. Unfinished(i) = Unfinished(i - 1) \cup {i}
    BY <1>1 DEF Unfinished
  <2>3. Cardinality(Unfinished(i - 1)) <= activePmts
    BY <1>1 DEF ActiveInv
  <2>4. \A S : S \subseteq Scanners =>
          /\ Cardinality(S) \in Nat
          /\ Cardinality(S \cup {i}) \in Nat
          /\ Cardinality(S \cup {i}) <= Cardinality(S) + 1
    <3> SUFFICES ASSUME NEW S, S \subseteq Scanners
                 PROVE  /\ Cardinality(S) \in Nat
                        /\ Cardinality(S \cup {i}) \in Nat
                        /\ Cardinality(S \cup {i}) <= Cardinality(S) + 1
      OBVIOUS
    <3>1. IsFiniteSet(S) /\ Cardinality(S) \in Nat
      BY Counted
    <3>2. Cardinality(S \cup {i}) = IF i \in S THEN Cardinality(S)
                                    ELSE Cardinality(S) + 1
      BY <3>1, FS_AddElement
    <3> QED  BY <3>1, <3>2
  <2> QED  BY <1>2, <2>1, <2>2, <2>3, <2>4
<1>7. Cardinality(AtWork') <= Limit + 1
  <2>1. CASE pc[i] = "new"
    <3>1. AtWork' \subseteq Unfinished(i)
      <4> SUFFICES ASSUME NEW s \in Scanners, pc'[s] # "new", ~jobDone'[s]
                   PROVE  s \in 1 .. i /\ ~jobDone[s]
        BY DEF AtWork, Unfinished
      <4>1. ~jobDone[s]
        BY <1>1 DEF flags
      <4>2. ~(i < s)
        BY <1>1, <1>3, <2>1 DEF ActiveInv
      <4> QED  BY <1>1, <4>1, <4>2
    <3>2. Unfinished(i) \subseteq Scanners
      BY <1>1 DEF Unfinished
    <3>3. Cardinality(AtWork') <= Cardinality(Unfinished(i))
      BY <3>1, <3>2, Counted, FS_Subset
    <3>4. Cardinality(AtWork') \in Nat /\ Cardinality(Unfinished(i)) \in Nat
      BY <3>1, <3>2, Counted
    <3> QED  BY <1>2, <1>6, <3>3, <3>4
  <2>2. CASE pc[i] # "new"
    <3>1. AtWork' = AtWork
      BY <1>1, <1>3, <2>2 DEF AtWork, flags
    <3> QED  BY <3>1 DEF ActiveInv
  <2> QED  BY <2>1, <2>2
<1>8. ActiveInv'
  <2>1. i' <= Count => /\ activePmts' <= Limit /\ i' - 1 = i
    BY <1>1, <1>2
  <2>3. \A s \in 1 .. i : pc'[s] # "new"
    BY <1>1, <1>3 DEF ActiveInv
  <2>4. \A r, s \in Scanners : r < s /\ pc'[s] # "new" => pc'[r] # "new"
    BY <1>1, <1>3 DEF ActiveInv
  <2>5. \A s \in Scanners : pc'[s] = "new" => ~isActive'[s]
    BY <1>1, <1>3 DEF ActiveInv, flags
  <2>6. i' <= Count => Unfinished(i - 1)' = Unfinished(i)
    BY <1>1, <2>1 DEF Unfinished, flags
  <2>7. i' <= Count => Cardinality(Unfinished(i - 1)') <= activePmts'
    BY <1>1, <1>6, <2>6
  <2> QED  BY <1>7, <2>1, <2>3, <2>4, <2>5, <2>7 DEF ActiveInv
<1>9. SlotInv'
  BY <1>1, <1>3 DEF SlotInv, Asked, slots, Holding
<1> QED  BY <1>4, <1>5, <1>8, <1>9

(* A pass ends, or the phase is left.                                      *)
LEMMA EndStep == PoolInv /\ (PoolEnd \/ Stop) => PoolInv'
<1> SUFFICES ASSUME PoolInv, PoolEnd \/ Stop
             PROVE  PoolInv'
  OBVIOUS
<1> USE DEF PoolInv
<1>1. /\ phase' \in {"pool", "done", "stopped"}
      /\ i' = 1 /\ finished' = 0 /\ activePmts' = 0
      /\ UNCHANGED <<pc, flags, slots, waiting, pidsM>>
  BY DEF PoolEnd, Stop, TypeOK
<1>2. phase' = "done" => \A s \in Scanners : pc[s] = "ended"
  <2> SUFFICES ASSUME phase' = "done", NEW s \in Scanners
               PROVE  pc[s] = "ended"
    OBVIOUS
  <2>1. CASE phase = "done"
    BY <2>1 DEF LoopInv
  <2>2. CASE phase # "done"
    <3>1. finished >= Count /\ (At(s, "new") \/ At(s, "ended"))
      BY <2>2 DEF PoolEnd, Stop, TypeOK
    <3>2. finished = i - 1 /\ i = Count + 1
      BY <3>1 DEF TypeOK, LoopInv
    <3> QED  BY <3>1, <3>2 DEF LoopInv, At
  <2> QED  BY <2>1, <2>2
<1>3. TypeOK'
  <2>1. i' \in 1 .. Count + 1 /\ finished' \in 0 .. Count
        /\ activePmts' \in 0 .. Limit + 1
    BY <1>1
  <2> QED  BY <1>1, <2>1, Zenon DEF TypeOK, flags, slots
<1>4. LoopInv'
  <2>1. finished' = 0 /\ i' - 1 = 0
    BY <1>1
  <2> QED  BY <1>1, <1>2, <2>1 DEF LoopInv, flags
<1>5. ActiveInv'
  <2>1. AtWork' = AtWork /\ Unfinished(i - 1)' = {}
    BY <1>1 DEF AtWork, Unfinished, flags
  <2>2. i' - 1 = 0 /\ activePmts' = 0
    BY <1>1
  <2>3. Cardinality({}) = 0
    BY FS_EmptySet
  <2> QED  BY <1>1, <2>1, <2>2, <2>3 DEF ActiveInv, flags
<1>6. SlotInv'
  BY <1>1 DEF SlotInv, Asked, slots
<1> QED  BY <1>3, <1>4, <1>5, <1>6

(* A client takes the first free slot, or none if there is none.           *)
LEMMA OpenSlotStep ==
  ASSUME PoolInv, NEW c \in Clients, OpenSlot(c)
  PROVE  PoolInv'
<1> USE DEF PoolInv
<1>1. /\ pc[c] = "open"
      /\ UNCHANGED <<pool, flags, waiting, pidsM>>
  BY DEF OpenSlot, At
<1>2. handle[c] = 0
  BY <1>1 DEF SlotInv, Holding
<1>3. LoopInv' /\ ActiveInv'
  <2>1. Goto(c, "on") \/ Goto(c, "read")
    BY DEF OpenSlot
  <2>2. \A s \in Scanners : pc[s] = "new" => ~isActive'[s]
    BY <1>1 DEF ActiveInv, flags
  <2> QED  BY <1>1, <2>1, <2>2, ClientMoves DEF pool, flags, Places
<1>4. CASE Free = {}
  <2>1. Goto(c, "read") /\ UNCHANGED slots
    BY <1>4 DEF OpenSlot
  <2>2. /\ pc' \in [Clients -> Places]
        /\ \A d \in Clients : pc'[d] = IF d = c THEN "read" ELSE pc[d]
    BY <2>1, PcAfter DEF Places
  <2>3. TypeOK'
    BY <1>1, <2>1, <2>2, Zenon DEF TypeOK, pool, flags, slots
  <2>4. SlotInv'
    BY <1>1, <1>2, <2>1, <2>2 DEF SlotInv, Asked, slots, Holding
  <2> QED  BY <1>3, <2>3, <2>4
<1>5. CASE Free # {}
  <2>1. PICK s \in Free : /\ handle' = [handle EXCEPT ![c] = s]
                          /\ filtersM' = [filtersM EXCEPT ![s] = PidOf[c]]
                          /\ Goto(c, "on")
    BY <1>5 DEF OpenSlot
  <2>2. /\ pc' \in [Clients -> Places]
        /\ \A d \in Clients : pc'[d] = IF d = c THEN "on" ELSE pc[d]
    BY <2>1, PcAfter DEF Places
  <2>3. s \in Slot /\ s \in 1 .. Slots /\ filtersM[s] = NoPid
    BY DEF Free, Slot
  <2>4. /\ \A d \in Clients : handle'[d] = IF d = c THEN s ELSE handle[d]
        /\ \A r \in Slot : filtersM'[r] = IF r = s THEN PidOf[c] ELSE filtersM[r]
        /\ PidOf[c] \in Pids
    BY <2>1, <2>3 DEF TypeOK
  <2>5. TypeOK'
    <3>1. handle' \in [Clients -> 0 .. Slots]
      BY <2>1, <2>3 DEF TypeOK
    <3>2. filtersM' \in [Slot -> Pids \cup {NoPid}]
      BY <2>1, <2>3, <2>4 DEF TypeOK
    <3> QED  BY <1>1, <2>2, <3>1, <3>2, Zenon DEF TypeOK, pool, flags
  <2>6. \A d \in Clients : handle[d] # s
    <3> SUFFICES ASSUME NEW d \in Clients, handle[d] = s
                 PROVE  FALSE
      OBVIOUS
    <3>1. filtersM[handle[d]] = PidOf[d]
      BY <2>3, SlotTypes DEF SlotInv
    <3> QED  BY <2>3, <3>1, SlotTypes
  <2>7. Asked' = Asked
    BY <1>1, <2>2, <2>4 DEF Asked
  <2>8. \A d \in Clients : handle[d] # 0 => handle[d] \in Slot
    BY SlotTypes
  <2>9. SlotInv'
    <3>1. /\ pc'[c] = "on" /\ handle'[c] = s /\ filtersM'[s] = PidOf[c]
      BY <2>2, <2>3, <2>4
    <3>2. ASSUME NEW d \in Clients
          PROVE  /\ handle'[d] # 0 =>
                      pc'[d] \in Holding /\ filtersM'[handle'[d]] = PidOf[d]
                 /\ pc'[d] = "on" => handle'[d] # 0
      <4>1. CASE d = c
        BY <2>3, <3>1, <4>1, SlotTypes DEF Holding
      <4>2. CASE d # c
        <5>1. pc'[d] = pc[d] /\ handle'[d] = handle[d]
          BY <2>2, <2>4, <4>2
        <5>2. handle[d] # 0 => filtersM'[handle[d]] = filtersM[handle[d]]
          BY <2>4, <2>6, <2>8
        <5> QED  BY <5>1, <5>2 DEF SlotInv
      <4> QED  BY <4>1, <4>2
    <3>3. \A d, e \in Clients : handle'[d] # 0 /\ handle'[d] = handle'[e] => d = e
      BY <2>4, <2>6 DEF SlotInv
    <3>4. \A r \in Slot : filtersM'[r] # NoPid => \E d \in Clients : handle'[d] = r
      <4> SUFFICES ASSUME NEW r \in Slot, filtersM'[r] # NoPid
                   PROVE  \E d \in Clients : handle'[d] = r
        OBVIOUS
      <4>1. CASE r = s
        BY <2>4, <4>1
      <4>2. CASE r # s
        <5>1. PICK d \in Clients : handle[d] = r
          BY <2>4, <4>2 DEF SlotInv
        <5>2. d # c
          BY <1>2, <5>1, SlotTypes
        <5> QED  BY <2>4, <5>1, <5>2
      <4> QED  BY <4>1, <4>2
    <3>5. pidsM' \subseteq {PidOf[d] : d \in Asked'}
      BY <1>1, <2>7 DEF SlotInv
    <3> QED  BY <3>2, <3>3, <3>4, <3>5 DEF SlotInv
  <2> QED  BY <1>3, <2>5, <2>9
<1> QED  BY <1>4, <1>5

(* The PID of the slot enters the tuner's list, and leaves it.             *)
LEMMA PidStep ==
  ASSUME PoolInv, NEW c \in Clients, OpenPid(c) \/ ClosePid(c)
  PROVE  PoolInv'
<1> USE DEF PoolInv
<1>1. UNCHANGED <<pool, flags, slots, waiting>>
  BY DEF OpenPid, ClosePid
<1>2. LoopInv' /\ ActiveInv'
  <2>1. /\ pc[c] \in {"on", "close"}
        /\ Goto(c, "read") \/ Goto(c, "free")
    BY DEF OpenPid, ClosePid, At
  <2>2. \A s \in Scanners : pc[s] = "new" => ~isActive'[s]
    BY <1>1 DEF ActiveInv, flags
  <2> QED  BY <1>1, <2>1, <2>2, ClientMoves DEF pool, flags, Places
<1>3. CASE OpenPid(c)
  <2>1. pc[c] = "on" /\ pidsM' = pidsM \cup {PidOf[c]} /\ Goto(c, "read")
    BY <1>3 DEF OpenPid, At
  <2>2. /\ pc' \in [Clients -> Places]
        /\ \A d \in Clients : pc'[d] = IF d = c THEN "read" ELSE pc[d]
    BY <2>1, PcAfter DEF Places
  <2>3. pidsM' \subseteq Pids
    BY <2>1 DEF TypeOK
  <2>4. TypeOK'
    BY <1>1, <2>2, <2>3, Zenon DEF TypeOK, pool, flags, slots
  <2>5. handle[c] # 0
    BY <2>1 DEF SlotInv
  <2>6. Asked' = Asked \cup {c}
    BY <1>1, <2>1, <2>2, <2>5 DEF Asked, slots
  <2>7. SlotInv'
    BY <1>1, <2>1, <2>2, <2>6 DEF SlotInv, slots, Holding
  <2> QED  BY <1>2, <2>4, <2>7
<1>4. CASE ClosePid(c)
  <2>1. pc[c] = "close" /\ pidsM' = pidsM \ {GetPid(handle[c])} /\ Goto(c, "free")
    BY <1>4 DEF ClosePid, At
  <2>2. /\ pc' \in [Clients -> Places]
        /\ \A d \in Clients : pc'[d] = IF d = c THEN "free" ELSE pc[d]
    BY <2>1, PcAfter DEF Places
  <2>3. pidsM' \subseteq Pids
    BY <2>1 DEF TypeOK
  <2>4. TypeOK'
    BY <1>1, <2>2, <2>3, Zenon DEF TypeOK, pool, flags, slots
  <2>5. Asked' = Asked \ {c}
    BY <1>1, <2>1, <2>2 DEF Asked, slots
  <2>6. c \in Asked => GetPid(handle[c]) = PidOf[c]
    BY SlotTypes DEF Asked, SlotInv, GetPid
  <2>7. pidsM' \subseteq {PidOf[d] : d \in Asked'}
    BY <2>1, <2>5, <2>6 DEF SlotInv
  <2>8. SlotInv'
    BY <1>1, <2>1, <2>2, <2>7 DEF SlotInv, slots, Holding
  <2> QED  BY <1>2, <2>4, <2>8
<1> QED  BY <1>3, <1>4

(* The slot is given back.                                                 *)
LEMMA CloseSlotStep ==
  ASSUME PoolInv, NEW c \in Clients, CloseSlot(c)
  PROVE  PoolInv'
<1> USE DEF PoolInv
<1> DEFINE place == IF c \in Scanners THEN "finish" ELSE "idle"
<1>1. /\ pc[c] = "free" /\ Goto(c, place)
      /\ handle' = [handle EXCEPT ![c] = 0]
      /\ waiting' = waiting \ {c}
      /\ UNCHANGED <<pool, flags, pidsM>>
  BY DEF CloseSlot, At
<1>2. /\ pc' \in [Clients -> Places]
      /\ \A d \in Clients : pc'[d] = IF d = c THEN place ELSE pc[d]
  BY <1>1, PcAfter DEF Places
<1>3. place \notin Holding /\ place \in Places \ {"new", "on"}
  BY DEF Holding, Places
<1>4. LoopInv' /\ ActiveInv'
  <2>1. \A s \in Scanners : pc[s] = "new" => ~isActive'[s]
    BY <1>1 DEF ActiveInv, flags
  <2> QED  BY <1>1, <1>3, <2>1, ClientMoves DEF pool, flags
<1> HIDE DEF place
<1>5. \A d \in Clients : handle'[d] = IF d = c THEN 0 ELSE handle[d]
  BY <1>1 DEF TypeOK
<1>6. \A s \in Slot : filtersM'[s] = IF s = handle[c] THEN NoPid ELSE filtersM[s]
  BY DEF CloseSlot, TypeOK
<1>7. TypeOK'
  <2>1. handle' \in [Clients -> 0 .. Slots]
    BY <1>1 DEF TypeOK
  <2>2. filtersM' \in [Slot -> Pids \cup {NoPid}]
    BY DEF CloseSlot, TypeOK
  <2>3. waiting' \subseteq Scanners
    BY <1>1 DEF TypeOK
  <2> QED  BY <1>1, <1>2, <2>1, <2>2, <2>3, Zenon DEF TypeOK, pool, flags
<1>8. \A d \in Clients : handle[d] # 0 => handle[d] \in Slot
  BY SlotTypes
<1>9. Asked' = Asked
  BY <1>1, <1>2, <1>3, <1>5 DEF Asked, Holding
<1>10. SlotInv'
  <2>1. \A d \in Clients : handle'[d] # 0 =>
          pc'[d] \in Holding /\ filtersM'[handle'[d]] = PidOf[d]
    <3> SUFFICES ASSUME NEW d \in Clients, handle'[d] # 0
                 PROVE  pc'[d] \in Holding /\ filtersM'[handle'[d]] = PidOf[d]
      OBVIOUS
    <3>1. d # c /\ handle'[d] = handle[d] /\ handle[d] \in Slot
      BY <1>5, <1>8
    <3>2. handle[d] # handle[c]
      BY <1>5, <3>1 DEF SlotInv
    <3> QED  BY <1>2, <1>6, <3>1, <3>2 DEF SlotInv
  <2>2. \A d \in Clients : pc'[d] = "on" => handle'[d] # 0
    BY <1>2, <1>3, <1>5 DEF SlotInv
  <2>3. \A d, e \in Clients : handle'[d] # 0 /\ handle'[d] = handle'[e] => d = e
    BY <1>5 DEF SlotInv
  <2>4. \A s \in Slot : filtersM'[s] # NoPid => \E d \in Clients : handle'[d] = s
    BY <1>5, <1>6 DEF SlotInv
  <2>5. pidsM' \subseteq {PidOf[d] : d \in Asked'}
    BY <1>1, <1>9 DEF SlotInv
  <2> QED  BY <2>1, <2>2, <2>3, <2>4, <2>5 DEF SlotInv
<1> QED  BY <1>4, <1>7, <1>10

(* The steps in which a client has nothing to do with its slot.            *)
LEMMA RestOfLifeStep ==
  ASSUME PoolInv, NEW c \in Clients,
         \/ c \in Scanners /\ \/ Begin(c) \/ ReadTimeout(c) \/ ReadNothing(c)
                              \/ ReadSection(c) \/ End(c)
         \/ c \in Others /\ OtherMoves(c)
  PROVE  PoolInv'
<1> USE DEF PoolInv
<1>1. UNCHANGED <<pool, jobDone, slots, pidsM>>
  BY DEF Begin, ReadTimeout, ReadNothing, ReadSection, End, OtherMoves, flags
<1>2. waiting' \subseteq Scanners
  BY DEF Begin, ReadTimeout, ReadNothing, ReadSection, End, OtherMoves, TypeOK
<1>3. count' \in [Scanners -> 0 .. MaxReads]
  BY DEF Begin, ReadTimeout, ReadNothing, ReadSection, End, OtherMoves, Leave,
         TypeOK, flags
<1>4. isActive' \in [Scanners -> BOOLEAN]
  BY Zenon DEF Begin, ReadTimeout, ReadNothing, ReadSection, End, OtherMoves,
               Leave, TypeOK, flags
<1>5. CASE pc' = pc /\ isActive' = isActive
  <2>1. TypeOK'
    BY <1>1, <1>2, <1>3, <1>5, Zenon DEF TypeOK, pool, slots
  <2>2. LoopInv' /\ ActiveInv'
    BY <1>1, <1>5 DEF LoopInv, ActiveInv, AtWork, Unfinished, pool
  <2>3. SlotInv'
    BY <1>1, <1>5 DEF SlotInv, Asked, slots
  <2> QED  BY <2>1, <2>2, <2>3
<1>6. ASSUME NEW place \in Places \ {"new", "on", "free"}, Goto(c, place),
             pc[c] \notin {"new", "ended"}, pc[c] = "last" => place = "ended",
             pc[c] = "read" <=> place = "close",
             pc[c] \notin {"on", "close", "free"}, place # "read",
             \A s \in Scanners : s # c => isActive'[s] = isActive[s]
      PROVE  PoolInv'
  <2>1. /\ pc' \in [Clients -> Places]
        /\ \A d \in Clients : pc'[d] = IF d = c THEN place ELSE pc[d]
    BY <1>6, PcAfter
  <2>2. TypeOK'
    BY <1>1, <1>2, <1>3, <1>4, <2>1, Zenon DEF TypeOK, pool, slots
  <2>3. \A s \in Scanners : pc[s] = "new" => ~isActive'[s]
    BY <1>6 DEF ActiveInv
  <2>4. LoopInv' /\ ActiveInv'
    BY <1>1, <1>6, <2>3, ClientMoves DEF pool
  <2>5. SlotInv'
    BY <1>1, <1>6, <2>1 DEF SlotInv, Asked, slots, Holding
  <2> QED  BY <2>2, <2>4, <2>5
<1>7. CASE c \in Scanners /\ Begin(c)
  BY <1>6, <1>7 DEF Begin, At, Places, TypeOK
<1>8. CASE c \in Scanners /\ (ReadTimeout(c) \/ ReadSection(c))
  BY <1>6, <1>8 DEF ReadTimeout, ReadSection, Leave, At, Places, TypeOK
<1>9. CASE c \in Scanners /\ ReadNothing(c)
  BY <1>5, <1>9 DEF ReadNothing
<1>10. CASE c \in Scanners /\ End(c)
  BY <1>6, <1>10 DEF End, At, Places, TypeOK
<1>11. CASE c \in Others /\ OtherMoves(c)
  BY <1>6, <1>11 DEF OtherMoves, At, Places, flags
<1> QED  BY <1>7, <1>8, <1>9, <1>10, <1>11

(* A scanner that is done leaves fewer at work.                            *)
LEMMA JobDoneStep ==
  ASSUME PoolInv, NEW c \in Scanners, SetJobDone(c)
  PROVE  PoolInv'
<1> USE DEF PoolInv
<1>1. /\ pc[c] = "finish" /\ Goto(c, "last")
      /\ UNCHANGED <<pool, isActive, count, slots, waiting, pidsM>>
  BY DEF SetJobDone, At
<1>2. /\ jobDone' \in [Scanners -> BOOLEAN]
      /\ \A s \in Scanners : jobDone'[s] <=> s = c \/ jobDone[s]
  <2>1. jobDone' \in [Scanners -> BOOLEAN]
    BY Zenon DEF SetJobDone, TypeOK
  <2>2. \A s \in Scanners : jobDone'[s] <=> s = c \/ jobDone[s]
    BY DEF SetJobDone, TypeOK
  <2> QED  BY <2>1, <2>2
<1>3. /\ pc' \in [Clients -> Places]
      /\ \A d \in Clients : pc'[d] = IF d = c THEN "last" ELSE pc[d]
  BY <1>1, PcAfter DEF Places
<1>4. TypeOK'
  BY <1>1, <1>2, <1>3, Zenon DEF TypeOK, pool, slots
<1>5. i \in 1 .. Count + 1
  BY DEF TypeOK
<1>6. LoopInv'
  BY <1>1, <1>2, <1>3, <1>5 DEF LoopInv, pool
<1>7. /\ AtWork' \subseteq AtWork
      /\ Unfinished(i - 1)' \subseteq Unfinished(i - 1)
      /\ Unfinished(i - 1) \subseteq Scanners
      /\ AtWork \subseteq Scanners
  BY <1>1, <1>2, <1>3, <1>5 DEF AtWork, Unfinished, pool
<1>8. \A S, T : S \subseteq T /\ T \subseteq Scanners =>
        /\ Cardinality(S) \in Nat /\ Cardinality(T) \in Nat
        /\ Cardinality(S) <= Cardinality(T)
  BY Counted, FS_Subset
<1>9. /\ Cardinality(AtWork') <= Cardinality(AtWork)
      /\ Cardinality(AtWork') \in Nat /\ Cardinality(AtWork) \in Nat
      /\ Cardinality(Unfinished(i - 1)') <= Cardinality(Unfinished(i - 1))
      /\ Cardinality(Unfinished(i - 1)') \in Nat
      /\ Cardinality(Unfinished(i - 1)) \in Nat
  BY <1>7, <1>8
<1>10. ActiveInv'
  <2>1. Cardinality(AtWork') <= Limit + 1
    BY <1>9 DEF ActiveInv
  <2>2. i \in Int /\ activePmts \in Int
    BY DEF TypeOK
  <2>3. UNCHANGED <<i, activePmts, isActive>>
    BY <1>1 DEF pool
  <2>4. i <= Count => /\ activePmts <= Limit
                      /\ Cardinality(Unfinished(i - 1)') <= activePmts
    BY <1>9, <2>2 DEF ActiveInv
  <2>5. \A d \in Scanners : pc'[d] = "new" <=> pc[d] = "new"
    BY <1>1, <1>3
  <2>6. i <= Count => \A s \in 1 .. i - 1 : s \in Scanners /\ pc[s] # "new"
    BY <2>2 DEF ActiveInv
  <2> QED  BY <2>1, <2>3, <2>4, <2>5, <2>6 DEF ActiveInv
<1>11. SlotInv'
  BY <1>1, <1>3 DEF SlotInv, Asked, slots, Holding
<1> QED  BY <1>4, <1>6, <1>10, <1>11

(* The invariant holds after every step.                                   *)
LEMMA PoolStep == PoolInv /\ [Next]_vars => PoolInv'
<1> SUFFICES ASSUME PoolInv, [Next]_vars
             PROVE  PoolInv'
  OBVIOUS
<1>1. ASSUME NEW p \in Pids, Deliver(p)
      PROVE  PoolInv'
  <2>1. UNCHANGED <<pool, pc, flags, slots, pidsM>>
    BY <1>1 DEF Deliver, slots
  <2>2. waiting' \subseteq Scanners
    BY <1>1 DEF Deliver, PoolInv, TypeOK
  <2>3. TypeOK'
    BY <2>1, <2>2, Zenon DEF PoolInv, TypeOK, pool, flags, slots
  <2>4. LoopInv' /\ ActiveInv' /\ SlotInv'
    BY <2>1 DEF PoolInv, LoopInv, ActiveInv, AtWork, Unfinished, SlotInv, Asked,
                pool, flags, slots
  <2> QED  BY <2>3, <2>4 DEF PoolInv
<1>2. CASE UNCHANGED vars
  <2>1. TypeOK'
    BY <1>2, Zenon DEF PoolInv, TypeOK, vars, pool, flags, slots
  <2>2. LoopInv' /\ ActiveInv' /\ SlotInv'
    BY <1>2 DEF PoolInv, LoopInv, ActiveInv, AtWork, Unfinished, SlotInv, Asked,
                vars, pool, flags, slots
  <2> QED  BY <2>1, <2>2 DEF PoolInv
<1>3. ASSUME NEW c \in Clients, Filtering(c)
      PROVE  PoolInv'
  BY <1>3, OpenSlotStep, PidStep, CloseSlotStep DEF Filtering
<1>4. ASSUME NEW s \in Scanners, Scanner(s)
      PROVE  PoolInv'
  BY <1>3, <1>4, RestOfLifeStep, JobDoneStep DEF Scanner
<1>5. ASSUME NEW o \in Others, Other(o)
      PROVE  PoolInv'
  BY <1>3, <1>5, RestOfLifeStep DEF Other
<1> QED  BY <1>1, <1>2, <1>4, <1>5, SkipStep, StartStep, EndStep DEF Next, Pool

(* Every reachable state satisfies the invariant.                          *)
LEMMA PoolInvariant == Spec => []PoolInv
BY PoolInit, PoolStep, PTL DEF Spec

(* Tables are read only after every PMT scanner has ended, for any number  *)
(* of services and any limit.                                              *)
THEOREM PmtsComeFirst == Spec => []TablesAfterPmts
<1>1. PoolInv => TablesAfterPmts
  BY DEF PoolInv, LoopInv, TablesAfterPmts, At
<1> QED  BY <1>1, PoolInvariant, PTL

-----------------------------------------------------------------------------
(* Slots.                                                                  *)

(* Nobody who has asked for a slot was refused.                            *)
Granted == \A c \in Clients : pc[c] \in Holding => handle[c] # 0

Occupants == {c \in Clients : handle[c] # 0}

(* As long as a client still asks, somebody else's slots are fewer than    *)
(* all.                                                                    *)
LEMMA OneIsFree ==
  ASSUME PoolInv, EnoughSlots, NEW c \in Clients, pc[c] = "open"
  PROVE  Free # {}
<1> USE DEF PoolInv
<1> DEFINE U == (AtWork \cup Others) \ {c}
<1>1. Occupants \subseteq U
  <2> SUFFICES ASSUME NEW d \in Occupants
               PROVE  d \in U
    OBVIOUS
  <2>1. d \in Clients /\ pc[d] \in Holding
    BY DEF Occupants, SlotInv
  <2>2. d \in Scanners => pc[d] # "new" /\ ~jobDone[d]
    BY <2>1 DEF Holding, LoopInv
  <2> QED  BY <2>1, <2>2 DEF AtWork, Holding
<1>2. /\ IsFiniteSet(AtWork \cup Others)
      /\ Cardinality(AtWork \cup Others) <= Limit + 1 + Cardinality(Others)
      /\ Cardinality(AtWork \cup Others) \in Nat
  <2>1. AtWork \subseteq Scanners
    BY DEF AtWork
  <2>2. IsFiniteSet(AtWork) /\ Cardinality(AtWork) \in Nat
        /\ Cardinality(AtWork) <= Limit + 1
    BY <2>1, Counted DEF ActiveInv
  <2>3. IsFiniteSet(Others) /\ Cardinality(Others) \in Nat
    BY FS_CardinalityType
  <2>4. IsFiniteSet(AtWork \cap Others) /\ Cardinality(AtWork \cap Others) \in Nat
    BY <2>2, FS_Intersection, FS_CardinalityType
  <2>5. /\ IsFiniteSet(AtWork \cup Others)
        /\ Cardinality(AtWork \cup Others)
             = Cardinality(AtWork) + Cardinality(Others)
                 - Cardinality(AtWork \cap Others)
    BY <2>2, <2>3, FS_Union
  <2>6. Cardinality(AtWork \cup Others) \in Nat
    BY <2>5, FS_CardinalityType
  <2> QED  BY <2>2, <2>3, <2>4, <2>5, <2>6
<1>3. c \in AtWork \cup Others
  BY DEF AtWork, LoopInv
<1>4. IsFiniteSet(U) /\ Cardinality(U) = Cardinality(AtWork \cup Others) - 1
  BY <1>2, <1>3, FS_RemoveElement
<1> HIDE DEF U
<1>5. Cardinality(U) < Slots /\ Cardinality(U) \in Nat
  <2>1. Cardinality(Others) \in Nat
    BY FS_CardinalityType
  <2>2. Cardinality(U) \in Nat
    BY <1>4, FS_CardinalityType
  <2> QED  BY <1>2, <1>4, <2>1, <2>2 DEF EnoughSlots
<1>6. IsFiniteSet(Slot) /\ Cardinality(Slot) = Slots
  <2>1. IsFiniteSet(1 .. Slots)
        /\ Cardinality(1 .. Slots) = IF 1 > Slots THEN 0 ELSE Slots - 1 + 1
    <3>1. 1 \in Int /\ Slots \in Int
      OBVIOUS
    <3> QED  BY <3>1, FS_Interval, Zenon
  <2> QED  BY <2>1 DEF Slot
<1> SUFFICES ASSUME Free = {}
             PROVE  FALSE
  OBVIOUS
<1>7. \A s \in Slot : \E d \in U : handle[d] = s
  BY <1>1, SlotTypes DEF Free, SlotInv, Occupants
<1> DEFINE f == [s \in Slot |-> CHOOSE d \in U : handle[d] = s]
<1>8. f \in [Slot -> U] /\ \A s \in Slot : handle[f[s]] = s
  BY <1>7
<1> HIDE DEF f
<1>9. PICK r, s \in Slot : r # s /\ f[r] = f[s]
  BY <1>4, <1>5, <1>6, <1>8, FS_PigeonHole
<1> QED  BY <1>8, <1>9

(* Every client gets its slot, so that none waits for a section in vain.   *)
LEMMA GrantedStep ==
  EnoughSlots /\ PoolInv /\ Granted /\ [Next]_vars => Granted'
<1> SUFFICES ASSUME EnoughSlots, PoolInv, Granted, [Next]_vars
             PROVE  Granted'
  OBVIOUS
<1>0. TypeOK
  BY DEF PoolInv
<1>1. ASSUME UNCHANGED handle,
             \A c \in Clients : pc'[c] \in Holding => pc[c] \in Holding
      PROVE  Granted'
  BY <1>1 DEF Granted
<1>2. ASSUME NEW c \in Clients, OpenSlot(c)
      PROVE  Granted'
  <2>1. pc[c] = "open" /\ Free # {}
    BY <1>2, OneIsFree DEF OpenSlot, At
  <2>2. PICK s \in Free : handle' = [handle EXCEPT ![c] = s] /\ Goto(c, "on")
    BY <1>2, <2>1 DEF OpenSlot
  <2>3. \A d \in Clients : pc'[d] = IF d = c THEN "on" ELSE pc[d]
    BY <1>0, <2>2, PcAfter DEF Places
  <2>4. s # 0 /\ \A d \in Clients : handle'[d] = IF d = c THEN s ELSE handle[d]
    BY <1>0, <2>2 DEF TypeOK, Free, Slot
  <2> QED  BY <2>3, <2>4 DEF Granted
<1>3. ASSUME NEW c \in Clients, OpenPid(c) \/ ClosePid(c)
      PROVE  Granted'
  <2>1. /\ pc[c] \in Holding /\ UNCHANGED handle
        /\ Goto(c, "read") \/ Goto(c, "free")
    BY <1>3 DEF OpenPid, ClosePid, At, Holding, slots
  <2> QED  BY <1>0, <1>1, <2>1, PcAfter DEF Places
<1>4. ASSUME NEW c \in Clients, CloseSlot(c)
      PROVE  Granted'
  <2>1. /\ Goto(c, IF c \in Scanners THEN "finish" ELSE "idle")
        /\ handle' = [handle EXCEPT ![c] = 0]
    BY <1>4 DEF CloseSlot
  <2>2. \A d \in Clients : d # c => pc'[d] = pc[d] /\ handle'[d] = handle[d]
    BY <1>0, <2>1 DEF Goto, TypeOK
  <2>3. pc'[c] \notin Holding
    BY <1>0, <2>1 DEF Goto, TypeOK, Holding
  <2> QED  BY <2>2, <2>3 DEF Granted
<1>5. ASSUME NEW c \in Clients, NEW place \in Places, Goto(c, place),
             UNCHANGED handle, place \in Holding => pc[c] \in Holding
      PROVE  Granted'
  BY <1>0, <1>1, <1>5, PcAfter
<1>6. ASSUME NEW s \in Scanners,
             Begin(s) \/ ReadTimeout(s) \/ ReadNothing(s) \/ ReadSection(s)
             \/ SetJobDone(s) \/ End(s)
      PROVE  Granted'
  BY <1>1, <1>5, <1>6 DEF Begin, ReadTimeout, ReadNothing, ReadSection, Leave,
                          SetJobDone, End, At, slots, Holding, Places
<1>7. ASSUME NEW o \in Others, OtherMoves(o)
      PROVE  Granted'
  BY <1>5, <1>7 DEF OtherMoves, At, slots, Holding, Places
<1>8. CASE PoolSkip \/ PoolEnd \/ Stop \/ (\E p \in Pids : Deliver(p))
           \/ UNCHANGED vars
  BY <1>1, <1>8 DEF PoolSkip, PoolEnd, Stop, Deliver, vars, slots
<1>9. CASE PoolStart
  <2>1. UNCHANGED handle /\ (pc' = pc \/ Goto(i, "started"))
    BY <1>9 DEF PoolStart, slots
  <2>2. i \in Clients
    BY <1>0, <1>9 DEF PoolStart, TypeOK
  <2> QED  BY <1>1, <1>5, <2>1, <2>2 DEF Holding, Places
<1> QED
  BY <1>2, <1>3, <1>4, <1>6, <1>7, <1>8, <1>9
     DEF Next, Pool, Scanner, Other, Filtering

(* With a slot for each scanner the loop keeps at work and for each other  *)
(* filter, no scanner is refused one, although one more than Limit runs;   *)
(* and when all are through, nothing is left in slots or PIDs.             *)
THEOREM PoolIsSound ==
  ASSUME EnoughSlots
  PROVE  Spec => []PoolSound
<1>1. Init => Granted
  BY DEF Init, Granted, Holding
<1>2. PoolInv /\ Granted => PoolSound
  <2> SUFFICES ASSUME PoolInv, Granted
               PROVE  PoolSound
    OBVIOUS
  <2>1. NoneRefused
    BY DEF Granted, Holding, NoneRefused
  <2>2. NothingLeft
    <3> SUFFICES ASSUME \A c \in Clients : pc[c] \in {"new", "idle", "ended"}
                 PROVE  pidsM = {} /\ Free = Slot
      BY DEF NothingLeft
    <3>1. \A c \in Clients : handle[c] = 0
      BY DEF PoolInv, SlotInv, Holding
    <3>2. \A s \in Slot : filtersM[s] = NoPid
      BY <3>1, SlotTypes DEF PoolInv, SlotInv
    <3>3. pidsM = {}
      <4>1. Asked = {}
        BY <3>1 DEF Asked
      <4>2. {PidOf[c] : c \in {}} = {}
        OBVIOUS
      <4> QED  BY <4>1, <4>2, Zenon DEF PoolInv, SlotInv
    <3> QED  BY <3>2, <3>3 DEF Free
  <2> QED  BY <2>1, <2>2 DEF PoolSound, PoolInv
<1>3. PoolInv /\ Granted /\ [Next]_vars => Granted'
  BY GrantedStep
<1> QED  BY <1>1, <1>2, <1>3, PoolInvariant, PTL DEF Spec

-----------------------------------------------------------------------------
(* PIDs.                                                                   *)

(* The PID of a client with a slot stays in the list until it closes.      *)
OpenInv == \A c \in Asked : PidOf[c] \in pidsM

(* Only its owner removes a PID from the list.                             *)
LEMMA OpenStep == OwnPid /\ PoolInv /\ OpenInv /\ [Next]_vars => OpenInv'
<1> SUFFICES ASSUME OwnPid, PoolInv, OpenInv, [Next]_vars
             PROVE  OpenInv'
  OBVIOUS
<1>0. TypeOK
  BY DEF PoolInv
<1>1. ASSUME Asked' \subseteq Asked, pidsM \subseteq pidsM'
      PROVE  OpenInv'
  BY <1>1 DEF OpenInv
<1>2. ASSUME NEW c \in Clients, OpenPid(c)
      PROVE  OpenInv'
  <2>1. /\ pidsM' = pidsM \cup {PidOf[c]} /\ Goto(c, "read")
        /\ UNCHANGED handle
    BY <1>2 DEF OpenPid, slots
  <2>2. \A d \in Clients : pc'[d] = IF d = c THEN "read" ELSE pc[d]
    BY <1>0, <2>1, PcAfter DEF Places
  <2>3. Asked' \subseteq Asked \cup {c}
    BY <2>1, <2>2 DEF Asked
  <2> QED  BY <2>1, <2>3 DEF OpenInv
<1>3. ASSUME NEW c \in Clients, ClosePid(c)
      PROVE  OpenInv'
  <2>1. /\ pc[c] = "close" /\ Goto(c, "free") /\ UNCHANGED handle
        /\ pidsM' = pidsM \ {GetPid(handle[c])}
    BY <1>3 DEF ClosePid, At, slots
  <2>2. \A d \in Clients : pc'[d] = IF d = c THEN "free" ELSE pc[d]
    BY <1>0, <2>1, PcAfter DEF Places
  <2>3. Asked' \subseteq Asked \ {c}
    BY <2>1, <2>2 DEF Asked
  <2>4. GetPid(handle[c]) \in {PidOf[c], NoPid}
    <3>1. CASE handle[c] = 0
      BY <3>1 DEF GetPid, Slot
    <3>2. CASE handle[c] # 0
      BY <1>0, <3>2, SlotTypes DEF GetPid, PoolInv, SlotInv
    <3> QED  BY <3>1, <3>2
  <2>5. \A d \in Asked' : /\ PidOf[d] # PidOf[c] /\ PidOf[d] # NoPid
                          /\ PidOf[d] \in pidsM
    BY <1>0, <2>3, SlotTypes DEF OwnPid, OpenInv, Asked
  <2> QED  BY <2>1, <2>4, <2>5 DEF OpenInv
<1>4. ASSUME NEW c \in Clients, OpenSlot(c)
      PROVE  OpenInv'
  <2>1. CASE Free = {}
    <3>1. Goto(c, "read") /\ UNCHANGED <<handle, pidsM>> /\ pc[c] = "open"
      BY <1>4, <2>1 DEF OpenSlot, slots, At
    <3>2. \A d \in Clients : pc'[d] = IF d = c THEN "read" ELSE pc[d]
      BY <1>0, <3>1, PcAfter DEF Places
    <3>3. handle[c] = 0
      BY <3>1 DEF PoolInv, SlotInv, Holding
    <3> QED  BY <1>1, <3>1, <3>2, <3>3 DEF Asked
  <2>2. CASE Free # {}
    <3>1. PICK s \in Free : handle' = [handle EXCEPT ![c] = s] /\ Goto(c, "on")
      BY <1>4, <2>2 DEF OpenSlot
    <3>2. \A d \in Clients : pc'[d] = IF d = c THEN "on" ELSE pc[d]
      BY <1>0, <3>1, PcAfter DEF Places
    <3>3. \A d \in Clients : d # c => handle'[d] = handle[d]
      BY <1>0, <3>1 DEF TypeOK
    <3>4. UNCHANGED pidsM
      BY <1>4 DEF OpenSlot
    <3> QED  BY <1>1, <3>2, <3>3, <3>4 DEF Asked
  <2> QED  BY <2>1, <2>2
<1>5. ASSUME NEW c \in Clients, CloseSlot(c)
      PROVE  OpenInv'
  <2>1. /\ handle' = [handle EXCEPT ![c] = 0] /\ UNCHANGED pidsM
        /\ Goto(c, IF c \in Scanners THEN "finish" ELSE "idle")
    BY <1>5 DEF CloseSlot
  <2>2. \A d \in Clients : d # c => pc'[d] = pc[d] /\ handle'[d] = handle[d]
    BY <1>0, <2>1 DEF Goto, TypeOK
  <2>3. handle'[c] = 0
    BY <1>0, <2>1 DEF TypeOK
  <2> QED  BY <1>1, <2>1, <2>2, <2>3 DEF Asked
<1>6. ASSUME NEW c \in Clients, NEW place \in Places \ {"read"}, Goto(c, place),
             place = "close" => pc[c] = "read", UNCHANGED <<handle, pidsM>>
      PROVE  OpenInv'
  <2>1. \A d \in Clients : pc'[d] = IF d = c THEN place ELSE pc[d]
    BY <1>0, <1>6, PcAfter
  <2> QED  BY <1>1, <1>6, <2>1 DEF Asked
<1>7. ASSUME NEW s \in Scanners,
             Begin(s) \/ ReadTimeout(s) \/ ReadSection(s) \/ SetJobDone(s) \/ End(s)
      PROVE  OpenInv'
  BY <1>6, <1>7 DEF Begin, ReadTimeout, ReadSection, Leave, SetJobDone, End, At,
                    slots, Places
<1>8. ASSUME NEW o \in Others, OtherMoves(o)
      PROVE  OpenInv'
  BY <1>6, <1>8 DEF OtherMoves, At, slots, Places
<1>9. CASE UNCHANGED <<pc, handle, pidsM>>
  BY <1>1, <1>9 DEF Asked
<1>10. CASE PoolSkip \/ PoolEnd \/ Stop \/ (\E p \in Pids : Deliver(p))
            \/ (\E s \in Scanners : ReadNothing(s)) \/ UNCHANGED vars
  BY <1>9, <1>10 DEF PoolSkip, PoolEnd, Stop, Deliver, ReadNothing, vars, slots
<1>11. CASE PoolStart
  <2>1. UNCHANGED <<handle, pidsM>> /\ (pc' = pc \/ Goto(i, "started"))
    BY <1>11 DEF PoolStart, slots
  <2>2. i \in Clients
    BY <1>0, <1>11 DEF PoolStart, TypeOK
  <2> QED  BY <1>6, <1>9, <2>1, <2>2 DEF Places
<1> QED
  BY <1>2, <1>3, <1>4, <1>5, <1>7, <1>8, <1>10, <1>11
     DEF Next, Pool, Scanner, Other, Filtering

(* A filter with a PID of its own finds it in the tuner's list as long as  *)
(* it is open, however the critical sections of OpenFilter() and           *)
(* CloseFilter() of the others interleave.                                 *)
THEOREM OpenFiltersAreFed ==
  ASSUME EnoughSlots, OwnPid
  PROVE  Spec => []OpenIsForwarded
<1>1. Init => Granted /\ OpenInv
  BY DEF Init, Granted, Holding, OpenInv, Asked
<1>2. Granted /\ OpenInv => OpenIsForwarded
  BY DEF Granted, Holding, OpenInv, Asked, OpenIsForwarded, At
<1>3. PoolInv /\ Granted /\ OpenInv /\ [Next]_vars => Granted' /\ OpenInv'
  BY GrantedStep, OpenStep
<1> QED  BY <1>1, <1>2, <1>3, PoolInvariant, PTL DEF Spec
=============================================================================
