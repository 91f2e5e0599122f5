-------------------------- MODULE StateLockProofs ---------------------------
(***************************************************************************)
(* Proofs about StateLock, for any number of threads and keys and any      *)
(* number of changes.  LockSound is proved from an invariant that counts   *)
(* the locks of each thread; NoMissedChange from one about the keys alone. *)
(***************************************************************************)
EXTENDS StateLock, FiniteSetTheorems, TLAPS

USE ConstantsAssumption

-----------------------------------------------------------------------------
(* NoMissedChange.                                                         *)

(* No key is ahead of the lock, and a list that was changed is counted     *)
(* when it is unlocked, whichever way the writer counts its changes.       *)
KeysBehind ==
  /\ state \in Int
  /\ key \in [Keys -> KeyType]
  /\ \A k \in Keys : key[k].state <= state
  /\ unseen \subseteq Keys
  /\ dirty \in BOOLEAN
  /\ explicitModify \in {emDisabled, emArmed, emEnabled}
  /\ dirty => explicitModify # emArmed

ChangesKept == KeysBehind /\ NoMissedChange

(* Nobody has a key that is ahead when the lock is made.                   *)
LEMMA ChangesInit == Init => ChangesKept
<1> SUFFICES ASSUME Init
             PROVE  ChangesKept
  OBVIOUS
<1>1. state = 0 /\ dirty = FALSE /\ unseen = Keys \ IgnoreFirst
      /\ explicitModify = emDisabled
  BY DEF Init
<1>2. \A k \in Keys : key[k].state = IF k \in IgnoreFirst THEN 0 ELSE -1
  BY DEF Init
<1>3. \A k \in Keys : key[k] \in KeyType
  BY DEF Init, KeyType
<1>4. key = [k \in Keys |-> key[k]]
  BY Zenon DEF Init
<1>5. key \in [Keys -> KeyType]
  BY ONLY <1>3, <1>4
<1>6. NoMissedChange
  BY <1>1, <1>2 DEF NoMissedChange
<1>7. \A k \in Keys : key[k].state <= state
  BY <1>1, <1>2
<1>8. /\ dirty \in BOOLEAN
      /\ explicitModify \in {emDisabled, emArmed, emEnabled}
      /\ dirty => explicitModify # emArmed
      /\ unseen \subseteq Keys
  BY <1>1, Zenon
<1>9. state \in Int
  BY <1>1
<1> QED  BY <1>5, <1>6, <1>7, <1>8, <1>9, Zenon DEF ChangesKept, KeysBehind

(* A step that leaves the states alone misses no change.                   *)
LEMMA StatesKept ==
  ASSUME ChangesKept, key' \in [Keys -> KeyType],
         \A k \in Keys : key'[k].state = key[k].state,
         state' = state, unseen' = unseen, dirty' \in BOOLEAN,
         explicitModify' \in {emDisabled, emArmed, emEnabled},
         dirty' => explicitModify' # emArmed
  PROVE  ChangesKept'
BY DEF ChangesKept, KeysBehind, NoMissedChange

(* Removing a key keeps the others behind: a key that moves along with the *)
(* writer was up to date, and does not count among those that have missed  *)
(* the change.                                                             *)
LEMMA ChangesRemove ==
  ASSUME ChangesKept, NEW t \in Threads, NEW k \in Keys, NEW inc \in BOOLEAN,
         Remove(t, k, inc)
  PROVE  ChangesKept'
<1> DEFINE inced == key[k].write /\ Counts(inc)
           now   == IF inced THEN state + 1 ELSE state
           newKey(j) == IF j = k THEN [held |-> FALSE, write |-> FALSE, state |-> now]
                        ELSE IF inced /\ Synced(j)
                        THEN [key[j] EXCEPT !.state = now] ELSE key[j]
           left  == (IF dirty THEN unseen \cup (Keys \ {syncStateKey})
                     ELSE unseen) \ {k}
<1> USE DEF ChangesKept, KeysBehind
<1>1. /\ now \in Int /\ state <= now
      /\ state' = now
      /\ key' = [j \in Keys |-> newKey(j)]
  BY DEF Remove
<1>2. \A j \in Keys : /\ key[j] \in KeyType
                      /\ newKey(j) \in KeyType
                      /\ newKey(j).state <= now
  BY <1>1 DEF KeyType, Synced
<1>3. key' \in [Keys -> KeyType] /\ \A j \in Keys : key'[j].state <= state'
  BY <1>1, <1>2
<1>4. unseen' \subseteq Keys /\ dirty' \in BOOLEAN
      /\ (dirty' => explicitModify' # emArmed)
  BY DEF Remove, emDisabled, emArmed
<1>5. NoMissedChange'
  <2> SUFFICES ASSUME NEW j \in Keys, j \in unseen'
               PROVE  newKey(j).state # now
    BY <1>1, <1>4 DEF NoMissedChange
  <2>1. j # k
    BY DEF Remove
  <2>2. CASE j \in unseen
    BY <1>1, <2>1, <2>2 DEF NoMissedChange, Synced
  <2>3. CASE j \notin unseen
    <3>1. key[k].write /\ dirty /\ j # syncStateKey
      BY <2>3 DEF Remove
    <3>2. Counts(inc)
      <4>1. explicitModify # emArmed
        BY <3>1
      <4>2. CASE explicitModify = emDisabled
        <5>1. inc
          BY <3>1, <4>2, Zenon DEF Remove
        <5> QED  BY <4>1, <5>1 DEF Counts
      <4>3. CASE explicitModify = emEnabled
        BY <4>3 DEF Counts
      <4> QED  BY <4>1, <4>2, <4>3
    <3>3. inced
      BY <3>1, <3>2
    <3>4. now = state + 1
      BY <3>3
    <3>5. newKey(j) = key[j]
      BY <3>1, <2>1, Zenon DEF Synced
    <3>6. key[j].state <= state /\ key[j].state \in Int
      BY DEF KeyType
    <3> HIDE DEF newKey, now
    <3> QED  BY <3>4, <3>5, <3>6
  <2> QED  BY <2>2, <2>3
<1>6. explicitModify' \in {emDisabled, emArmed, emEnabled}
  BY DEF Remove
<1> HIDE DEF newKey, now
<1> QED  BY <1>1, <1>3, <1>4, <1>5, <1>6

(* Taking a key into use changes neither its type nor its state.           *)
LEMMA KeyTaken ==
  ASSUME key \in [Keys -> KeyType], NEW t \in Threads,
         LockedWrite(t) \/ LockedRead(t)
  PROVE  /\ key' \in [Keys -> KeyType]
         /\ \A k \in Keys : key'[k].state = key[k].state
<1> DEFINE c == op[t].key
<1>1. \/ key' = key
      \/ key' = [key EXCEPT ![c].held = TRUE]
      \/ key' = [key EXCEPT ![c].held = TRUE, ![c].write = TRUE]
  BY DEF LockedWrite, LockedRead
<1> HIDE DEF c
<1> DEFINE H(r) == [r EXCEPT !.held = TRUE]
           W(r) == [r EXCEPT !.write = TRUE]
<1>2. \A r \in KeyType : /\ H(r) \in KeyType /\ H(r).state = r.state
                         /\ W(r) \in KeyType /\ W(r).state = r.state
  BY DEF KeyType
<1>3. key' = [j \in Keys |-> key'[j]]
  BY <1>1
<1>4. \A j \in Keys : key'[j] \in {key[j], H(key[j]), W(H(key[j]))}
  BY <1>1, Zenon
<1> HIDE DEF H, W
<1>5. \A j \in Keys : key'[j] \in KeyType /\ key'[j].state = key[j].state
  BY <1>2, <1>4
<1> QED  BY <1>3, <1>5

(* No change of the list is ever missed by a key.                          *)
THEOREM ChangesAreSeen == Spec => []NoMissedChange
<1>1. Init => ChangesKept
  BY ChangesInit
<1>2. ChangesKept /\ [Next]_vars => ChangesKept'
  <2> SUFFICES ASSUME ChangesKept, [Next]_vars
               PROVE  ChangesKept'
    OBVIOUS
  <2> USE DEF ChangesKept, KeysBehind, listVars
  <2>1. ASSUME NEW t \in Threads, Leave(t)  PROVE ChangesKept'
    BY <2>1, ChangesRemove DEF Leave
  <2>2. ASSUME NEW t \in Threads, Use(t)  PROVE ChangesKept'
    <3>1. key' = key /\ state' = state /\ unseen' = unseen
      BY <2>2 DEF Use, Modify, SetExplicitModify, SetSyncStateKey
    <3>2. /\ dirty' \in BOOLEAN
          /\ explicitModify' \in {emDisabled, emArmed, emEnabled}
          /\ dirty' => explicitModify' # emArmed
      <4>1. CASE Modify(t)
        BY <4>1 DEF Modify, emDisabled, emArmed, emEnabled
      <4>2. CASE SetExplicitModify(t)
        <5>1. dirty' = dirty /\ dirty = FALSE /\ explicitModify' = emArmed
          BY <4>2, Zenon DEF SetExplicitModify
        <5> QED  BY <5>1
      <4>3. CASE \E k \in Keys : SetSyncStateKey(t, k)
        BY <4>3 DEF SetSyncStateKey
      <4> QED  BY <2>2, <4>1, <4>2, <4>3 DEF Use
    <3> QED  BY <3>1, <3>2, StatesKept
  <2>3. ASSUME NEW t \in Threads, LockedWrite(t) \/ LockedRead(t)
        PROVE  ChangesKept'
    <3>1. state' = state /\ unseen' = unseen /\ dirty' = dirty
          /\ explicitModify' = explicitModify
      BY <2>3 DEF LockedWrite, LockedRead
    <3>2. /\ key' \in [Keys -> KeyType]
          /\ \A k \in Keys : key'[k].state = key[k].state
      BY <2>3, KeyTaken
    <3> QED  BY <3>1, <3>2, StatesKept
  <2>4. CASE UNCHANGED <<listVars, key>>
    BY <2>4, StatesKept
  <2>5. ASSUME NEW t \in Threads,
               Call(t) \/ RefuseWrite(t) \/ AcquireNestedRead(t)
               \/ UnlockNested(t) \/ UnlockClear(t) \/ Release(t)
               \/ AcquireWrite(t) \/ AcquireRead(t) \/ TimeOut(t)
        PROVE  ChangesKept'
    BY <2>4, <2>5, Zenon
       DEF Call, LockCall, RefuseWrite, AcquireNestedRead, UnlockNested,
           UnlockClear, Release, AcquireWrite, AcquireRead, TimeOut
  <2> QED
    BY <2>1, <2>2, <2>3, <2>4, <2>5 DEF Next, Inside, vars
<1>3. ChangesKept => NoMissedChange
  BY DEF ChangesKept
<1> QED  BY <1>1, <1>2, <1>3, PTL DEF Spec

-----------------------------------------------------------------------------
(* LockSound.                                                              *)

(* Writers and readers exclude each other in the rwlock.                   *)
Exclusion == writer # None => \A u \in Threads : readers[u] = 0

(* The owner is noted from the end of its Lock() to its last Unlock().     *)
Noted ==
  \A t \in Threads :
    /\ writeLockThreadId = t => writer = t
    /\ writer = t /\ pc[t] \notin {"gotWrite", "release"} => writeLockThreadId = t
    /\ pc[t] = "gotWrite" => writer = t /\ writeLockThreadId = None
    /\ pc[t] = "release" => writeLockThreadId # t

(* Nested read locks are counted between these two places only.            *)
CountedInside ==
  /\ writer = None => locked = 0
  /\ \A t \in Threads :
       writer = t /\ pc[t] \in {"gotWrite", "release"} => locked = 0

(* A thread in Lock() uses a free key of its own.                          *)
Asked ==
  \A t \in Threads : pc[t] \in {"wait", "gotWrite", "gotRead"} =>
    op[t].key \in Keys /\ Owner[op[t].key] = t /\ ~key[op[t].key].held

(* One key has the write lock, and threadId is its owner.                  *)
WriteKeys ==
  /\ \A k \in Keys : key[k].write =>
       key[k].held /\ writeLockThreadId = Owner[k] /\ threadId = Owner[k]
  /\ \A j, k \in Keys : key[j].write /\ key[k].write => j = k
  /\ \A t \in Threads : threadId = t =>
       \E k \in Keys : Owner[k] = t /\ key[k].write

LockInv == /\ TypeOK
           /\ Exclusion /\ Noted /\ CountedInside
           /\ Asked /\ WriteKeys
           /\ LocksBalanced

(* The keys in use can be counted.                                         *)
LEMMA KeysCounted ==
  ASSUME NEW t \in Threads
  PROVE  IsFiniteSet(KeysInUse(t)) /\ Cardinality(KeysInUse(t)) \in Nat
<1>1. KeysInUse(t) \subseteq Keys
  BY DEF KeysInUse
<1> QED  BY <1>1, FS_Subset, FS_CardinalityType DEF ConstantsAssumption

(* A thread that is inside Lock() or Unlock() with a lock, or that has a   *)
(* key in use, keeps every other thread from writing.                      *)
LEMMA HolderExcludes ==
  ASSUME LockInv, NEW t \in Threads, InFlight(t) \/ KeysInUse(t) # {}
  PROVE  /\ writer = None \/ writer = t
         /\ writer # t => readers[t] > 0
<1>1. Cardinality(KeysInUse(t)) + (IF InFlight(t) THEN 1 ELSE 0) > 0
  <2>1. CASE InFlight(t)
    BY <2>1, KeysCounted
  <2>2. CASE ~InFlight(t)
    <3>1. Cardinality(KeysInUse(t)) # 0
      BY <2>2, KeysCounted, FS_EmptySet
    <3> QED  BY <2>2, <3>1, KeysCounted
  <2> QED  BY <2>1, <2>2
<1>2. readers[t] + (IF writer = t THEN 1 + locked ELSE 0) > 0
  BY <1>1 DEF LockInv, LocksBalanced
<1>3. readers[t] \in Nat
  BY DEF LockInv, TypeOK
<1>4. writer # t => readers[t] > 0
  BY <1>2, <1>3
<1>5. writer = None \/ writer = t
  BY <1>4 DEF LockInv, Exclusion
<1> QED  BY <1>4, <1>5

(* When the writer gives the lock back none of its keys is in use.         *)
LEMMA LastUnlock ==
  ASSUME LockInv, NEW t \in Threads, pc[t] = "unlock", ~Nested(t), writer = t
  PROVE  writeLockThreadId = t /\ locked = 0 /\ KeysInUse(t) = {}
<1>1. writeLockThreadId = t
  BY DEF LockInv, Noted
<1>2. locked = 0
  BY <1>1 DEF LockInv, TypeOK, Nested
<1>3. readers[t] = 0
  BY DEF LockInv, Exclusion, ConstantsAssumption
<1>4. Cardinality(KeysInUse(t)) = 0
  BY <1>2, <1>3, KeysCounted DEF LockInv, LocksBalanced, InFlight
<1> QED  BY <1>1, <1>2, <1>4, KeysCounted, FS_EmptySet

(* What LockSound says follows from the invariant.                         *)
LEMMA InvariantIsEnough == LockInv => LockSound
<1> SUFFICES ASSUME LockInv
             PROVE  LockSound
  OBVIOUS
<1>1. OwnerIsHolder
  BY DEF LockInv, Noted, WriteKeys, OwnerIsHolder
<1>2. WriterIsAlone
  <2> SUFFICES ASSUME NEW t \in Threads, threadId = t,
                      NEW u \in Threads \ {t}, KeysInUse(u) # {}
               PROVE  FALSE
    BY DEF WriterIsAlone
  <2>1. writer = t
    BY DEF LockInv, Noted, WriteKeys
  <2> QED  BY <2>1, HolderExcludes DEF ConstantsAssumption
<1> QED  BY <1>1, <1>2 DEF LockSound, LockInv

(* Nobody holds anything when the lock is made.                            *)
LEMMA LockInit == Init => LockInv
<1> SUFFICES ASSUME Init
             PROVE  LockInv
  OBVIOUS
<1>1. TypeOK
  <2>1. key \in [Keys -> KeyType]
    BY ChangesInit DEF ChangesKept, KeysBehind
  <2>2. op \in [Threads -> Ops]
    BY DEF Init, Ops, NoOp
  <2>3. pc \in [Threads -> Places]
    BY DEF Init, Places
  <2>4. readers \in [Threads -> Nat] /\ locked \in Nat /\ state \in Nat
    BY DEF Init
  <2>5. /\ writer \in Threads \cup {None}
        /\ writeLockThreadId \in Threads \cup {None}
        /\ threadId \in Threads \cup {None}
        /\ syncStateKey \in Keys \cup {None}
        /\ explicitModify \in {emDisabled, emArmed, emEnabled}
        /\ dirty \in BOOLEAN
        /\ unseen \subseteq Keys
    BY Zenon DEF Init
  <2> QED  BY <2>1, <2>2, <2>3, <2>4, <2>5 DEF TypeOK
<1>2. \A k \in Keys : key[k].held = FALSE /\ key[k].write = FALSE
  BY DEF Init
<1>3. Exclusion /\ Noted /\ CountedInside /\ Asked
  BY DEF Init, Exclusion, Noted, CountedInside, Asked, ConstantsAssumption
<1>4. WriteKeys
  BY <1>2 DEF Init, WriteKeys, ConstantsAssumption
<1>5. LocksBalanced
  <2>1. \A t \in Threads : KeysInUse(t) = {}
    BY <1>2 DEF KeysInUse
  <2> QED  BY <2>1, FS_EmptySet DEF LocksBalanced, Init, InFlight,
                                    ConstantsAssumption
<1> QED  BY <1>1, <1>3, <1>4, <1>5 DEF LockInv
(* A key or an operation keeps its type in every step.                     *)
LEMMA TypesKept ==
  ASSUME LockInv, [Next]_vars
  PROVE  TypeOK'
<1> USE DEF LockInv
<1>1. \A t \in Threads, place \in Places :
        Goto(t, place) => pc' \in [Threads -> Places]
  BY DEF TypeOK, Goto
<1>2. \A t \in Threads : [op EXCEPT ![t] = NoOp] \in [Threads -> Ops]
  <2>1. NoOp \in Ops
    BY DEF NoOp, Ops
  <2> QED  BY <2>1 DEF TypeOK
<1>3. {"idle", "wait", "gotWrite", "gotRead", "unlock", "release"} = Places
  BY DEF Places
<1>4. ASSUME NEW t \in Threads, Call(t)  PROVE TypeOK'
  <2>1. PICK k \in Keys, write \in BOOLEAN, timeout \in BOOLEAN :
          LockCall(t, k, write, timeout)
    BY <1>4 DEF Call
  <2>2. [key |-> k, write |-> write, timeout |-> timeout] \in Ops
    BY DEF Ops
  <2>3. op' \in [Threads -> Ops]
    BY <2>1, <2>2 DEF LockCall, TypeOK
  <2>4. pc' \in [Threads -> Places]
    BY <2>1, <1>1, <1>3 DEF LockCall
  <2> QED  BY <2>1, <2>3, <2>4, Zenon
              DEF LockCall, TypeOK, rwVars, idVars, listVars
<1>5. ASSUME NEW t \in Threads, Use(t)  PROVE TypeOK'
  <2>1. dirty' \in BOOLEAN /\ explicitModify' \in {emDisabled, emArmed, emEnabled}
        /\ syncStateKey' \in Keys \cup {None}
    BY <1>5, Zenon DEF Use, Modify, SetExplicitModify, SetSyncStateKey, TypeOK
  <2> QED  BY <1>5, <2>1, Zenon
              DEF Use, Modify, SetExplicitModify, SetSyncStateKey, TypeOK,
                  rwVars, idVars
<1>6. ASSUME NEW t \in Threads, Leave(t)  PROVE TypeOK'
  <2>1. PICK k \in Keys, inc \in BOOLEAN : Remove(t, k, inc)
    BY <1>6 DEF Leave
  <2> DEFINE inced == key[k].write /\ Counts(inc)
             now   == IF inced THEN state + 1 ELSE state
             newKey(j) == IF j = k
                          THEN [held |-> FALSE, write |-> FALSE, state |-> now]
                          ELSE IF inced /\ Synced(j)
                          THEN [key[j] EXCEPT !.state = now] ELSE key[j]
  <2>2. now \in Nat /\ state' = now
    BY <2>1 DEF Remove, TypeOK
  <2>3. key' = [j \in Keys |-> newKey(j)]
    BY <2>1 DEF Remove
  <2>4. \A j \in Keys : newKey(j) \in KeyType
    BY <2>2 DEF TypeOK, KeyType
  <2>5. key' \in [Keys -> KeyType] /\ state' \in Nat
    BY <2>2, <2>3, <2>4
  <2>6. pc' \in [Threads -> Places]
    BY <2>1, <1>1, <1>3 DEF Remove
  <2>7. /\ threadId' \in Threads \cup {None}
        /\ explicitModify' \in {emDisabled, emArmed, emEnabled}
        /\ syncStateKey' \in Keys \cup {None}
        /\ dirty' \in BOOLEAN
        /\ unseen' \subseteq Keys
    <3>1. CASE key[k].write
      BY <2>1, <3>1 DEF Remove, TypeOK
    <3>2. CASE ~key[k].write
      BY <2>1, <3>2, Zenon DEF Remove, TypeOK
    <3> QED  BY <3>1, <3>2
  <2>8. UNCHANGED <<readers, writer, writeLockThreadId, locked, op>>
    BY <2>1 DEF Remove, rwVars, idVars
  <2> HIDE DEF newKey, now
  <2> QED  BY <2>5, <2>6, <2>7, <2>8, Zenon DEF TypeOK
<1>7. ASSUME NEW t \in Threads, RefuseWrite(t) \/ TimeOut(t)  PROVE TypeOK'
  <2>1. op' \in [Threads -> Ops] /\ pc' \in [Threads -> Places]
    BY <1>7, <1>1, <1>2, <1>3 DEF RefuseWrite, TimeOut
  <2> QED  BY <1>7, <2>1, Zenon
              DEF RefuseWrite, TimeOut, TypeOK, rwVars, idVars, listVars
<1>8. ASSUME NEW t \in Threads, AcquireNestedRead(t) \/ UnlockNested(t)
      PROVE  TypeOK'
  <2>1. pc' \in [Threads -> Places]
    BY <1>8, <1>1, <1>3 DEF AcquireNestedRead, UnlockNested
  <2>2. locked' \in Nat
    BY <1>8 DEF AcquireNestedRead, UnlockNested, Nested, TypeOK
  <2> QED  BY <1>8, <2>1, <2>2, Zenon
              DEF AcquireNestedRead, UnlockNested, TypeOK, rwVars, listVars
<1>9. ASSUME NEW t \in Threads, LockedWrite(t) \/ LockedRead(t)  PROVE TypeOK'
  <2>1. op' \in [Threads -> Ops] /\ pc' \in [Threads -> Places]
    BY <1>9, <1>1, <1>2, <1>3 DEF LockedWrite, LockedRead
  <2>2. key' \in [Keys -> KeyType]
    BY <1>9, KeyTaken DEF TypeOK, LockedWrite, LockedRead
  <2> QED  BY <1>9, <2>1, <2>2, Zenon
              DEF LockedWrite, LockedRead, TypeOK, rwVars, idVars, listVars
<1>10. ASSUME NEW t \in Threads, AcquireWrite(t) \/ UnlockClear(t)  PROVE TypeOK'
  <2>1. pc' \in [Threads -> Places]
    BY <1>10, <1>1, <1>3 DEF AcquireWrite, UnlockClear
  <2> QED  BY <1>10, <2>1, Zenon
              DEF AcquireWrite, UnlockClear, ClearOwner, TypeOK, rwVars, idVars,
                  listVars
<1>11. ASSUME NEW t \in Threads, AcquireRead(t)  PROVE TypeOK'
  <2>1. pc' \in [Threads -> Places]
    BY <1>11, <1>1, <1>3 DEF AcquireRead
  <2>2. readers' \in [Threads -> Nat]
    BY <1>11 DEF AcquireRead, TypeOK
  <2> QED  BY <1>11, <2>1, <2>2, Zenon DEF AcquireRead, TypeOK, idVars, listVars
<1>12. ASSUME NEW t \in Threads, Release(t)  PROVE TypeOK'
  <2>1. pc' \in [Threads -> Places]
    BY <1>12, <1>1, <1>3 DEF Release
  <2>2. writer # t => readers[t] > 0
    BY <1>12, HolderExcludes DEF Release, InFlight
  <2>3. readers' \in [Threads -> Nat]
    BY <1>12, <2>2 DEF Release, TypeOK
  <2>4. writer' \in Threads \cup {None}
    BY <1>12, Zenon DEF Release, TypeOK
  <2> QED  BY <1>12, <2>1, <2>3, <2>4, Zenon DEF Release, TypeOK, idVars, listVars
<1>13. CASE UNCHANGED vars
  BY <1>13, Zenon DEF vars, TypeOK
<1> QED
  BY <1>4, <1>5, <1>6, <1>7, <1>8, <1>9, <1>10, <1>11, <1>12, <1>13
     DEF Next, Inside

(* The invariant but for the types.                                        *)
Control == Exclusion /\ Noted /\ CountedInside /\ Asked /\ WriteKeys
           /\ LocksBalanced

(* Where the threads are after one of them has moved.                      *)
LEMMA PcAfter ==
  ASSUME LockInv, NEW t \in Threads, NEW place, Goto(t, place)
  PROVE  \A u \in Threads : pc'[u] = IF u = t THEN place ELSE pc[u]
BY DEF Goto, LockInv, TypeOK

(* What each thread holds depends on the keys alone.                       *)
LEMMA SameKeysInUse ==
  ASSUME NEW u \in Threads, \A k \in Keys : Owner[k] = u => key'[k].held = key[k].held
  PROVE  KeysInUse(u)' = KeysInUse(u)
BY DEF KeysInUse

(* A call of Lock().                                                       *)
LEMMA ControlCall ==
  ASSUME LockInv, NEW t \in Threads, NEW k \in Keys, NEW write \in BOOLEAN,
         NEW timeout \in BOOLEAN, LockCall(t, k, write, timeout)
  PROVE  Control'
<1> USE DEF LockInv
<1>1. \A u \in Threads : pc'[u] = IF u = t THEN "wait" ELSE pc[u]
  BY PcAfter DEF LockCall
<1>2. UNCHANGED <<readers, writer, writeLockThreadId, locked, threadId, key>>
  BY DEF LockCall, rwVars, idVars, listVars
<1>3. pc[t] = "idle" /\ Owner[k] = t /\ ~key[k].held
  BY DEF LockCall
<1>4. \A u \in Threads : op'[u].key = IF u = t THEN k ELSE op[u].key
  BY DEF LockCall, TypeOK
<1>5. Exclusion' /\ Noted' /\ CountedInside' /\ WriteKeys'
  BY <1>1, <1>2, <1>3 DEF Exclusion, Noted, CountedInside, WriteKeys
<1>6. Asked'
  BY <1>1, <1>2, <1>3, <1>4 DEF Asked
<1>7. LocksBalanced'
  BY <1>1, <1>2, <1>3, SameKeysInUse DEF LocksBalanced, InFlight
<1> QED  BY <1>5, <1>6, <1>7 DEF Control

(* A call that is refused or times out.                                    *)
LEMMA ControlRefused ==
  ASSUME LockInv, NEW t \in Threads, RefuseWrite(t) \/ TimeOut(t)
  PROVE  Control'
<1> USE DEF LockInv
<1>1. \A u \in Threads : pc'[u] = IF u = t THEN "idle" ELSE pc[u]
  BY PcAfter DEF RefuseWrite, TimeOut
<1>2. UNCHANGED <<readers, writer, writeLockThreadId, locked, threadId, key>>
  BY DEF RefuseWrite, TimeOut, rwVars, idVars, listVars
<1>3. pc[t] = "wait"
  BY DEF RefuseWrite, TimeOut
<1>4. \A u \in Threads : u # t => op'[u] = op[u]
  BY DEF RefuseWrite, TimeOut, TypeOK
<1>5. Exclusion' /\ Noted' /\ CountedInside' /\ WriteKeys'
  BY <1>1, <1>2, <1>3 DEF Exclusion, Noted, CountedInside, WriteKeys
<1>6. Asked'
  BY <1>1, <1>2, <1>3, <1>4 DEF Asked
<1>7. LocksBalanced'
  BY <1>1, <1>2, <1>3, SameKeysInUse DEF LocksBalanced, InFlight
<1> QED  BY <1>5, <1>6, <1>7 DEF Control

(* The rwlock is taken.                                                    *)
LEMMA ControlAcquired ==
  ASSUME LockInv, NEW t \in Threads,
         AcquireWrite(t) \/ AcquireRead(t) \/ AcquireNestedRead(t)
  PROVE  Control'
<1> USE DEF LockInv
<1>1. pc[t] = "wait" /\ UNCHANGED <<writeLockThreadId, threadId, key, op>>
  BY DEF AcquireWrite, AcquireRead, AcquireNestedRead, idVars, listVars
<1>2. WriteKeys'
  BY <1>1 DEF WriteKeys
<1>3. \A u \in Threads : /\ KeysInUse(u)' = KeysInUse(u)
                         /\ Cardinality(KeysInUse(u)) \in Nat
  BY <1>1, SameKeysInUse, KeysCounted
<1>4. CASE AcquireWrite(t)
  <2>1. \A u \in Threads : pc'[u] = IF u = t THEN "gotWrite" ELSE pc[u]
    BY <1>4, PcAfter DEF AcquireWrite
  <2>2. /\ writer = None /\ writer' = t /\ \A u \in Threads : readers[u] = 0
        /\ UNCHANGED <<readers, locked>>
    BY <1>4 DEF AcquireWrite, idVars
  <2>3. writeLockThreadId = None /\ locked = 0
    BY <2>2 DEF Noted, TypeOK, CountedInside, ConstantsAssumption
  <2>4. Exclusion' /\ CountedInside' /\ Asked'
    BY <1>1, <2>1, <2>2, <2>3, Zenon DEF Exclusion, CountedInside, Asked,
                                         ConstantsAssumption
  <2>5. Noted'
    BY <1>1, <2>1, <2>2, <2>3 DEF Noted, ConstantsAssumption
  <2>6. LocksBalanced'
    BY <1>1, <1>3, <2>1, <2>2, <2>3 DEF LocksBalanced, InFlight,
                                        ConstantsAssumption
  <2> QED  BY <1>2, <2>4, <2>5, <2>6 DEF Control
<1>5. CASE AcquireRead(t)
  <2>1. \A u \in Threads : pc'[u] = IF u = t THEN "gotRead" ELSE pc[u]
    BY <1>5, PcAfter DEF AcquireRead
  <2>2. writer = None /\ UNCHANGED <<writer, locked>>
    BY <1>5 DEF AcquireRead, idVars
  <2>3. \A u \in Threads :
          readers'[u] = IF u = t THEN readers[u] + 1 ELSE readers[u]
    BY <1>5 DEF AcquireRead, TypeOK
  <2>4. Exclusion' /\ Noted' /\ CountedInside' /\ Asked'
    BY <1>1, <2>1, <2>2 DEF Exclusion, Noted, CountedInside, Asked,
                            ConstantsAssumption
  <2>5. LocksBalanced'
    <3> SUFFICES ASSUME NEW u \in Threads
                 PROVE  readers'[u] + 0 = Cardinality(KeysInUse(u))
                          + (IF InFlight(u)' THEN 1 ELSE 0)
      BY <1>3, <2>2 DEF LocksBalanced, ConstantsAssumption
    <3>1. readers[u] + 0 = Cardinality(KeysInUse(u))
                             + (IF InFlight(u) THEN 1 ELSE 0)
      BY <2>2 DEF LocksBalanced, ConstantsAssumption
    <3>2. readers[u] \in Nat /\ Cardinality(KeysInUse(u)) \in Nat
      BY <1>3 DEF TypeOK
    <3> QED  BY <1>1, <2>1, <2>3, <3>1, <3>2 DEF InFlight
  <2> QED  BY <1>2, <2>4, <2>5 DEF Control
<1>6. CASE AcquireNestedRead(t)
  <2>1. \A u \in Threads : pc'[u] = IF u = t THEN "gotRead" ELSE pc[u]
    BY <1>6, PcAfter DEF AcquireNestedRead
  <2>2. /\ writer = t /\ locked' = locked + 1
        /\ UNCHANGED <<writer, readers>>
    BY <1>6 DEF AcquireNestedRead, rwVars, Noted
  <2>3. Exclusion' /\ Noted' /\ CountedInside' /\ Asked'
    BY <1>1, <2>1, <2>2 DEF Exclusion, Noted, CountedInside, Asked,
                            ConstantsAssumption
  <2>4. LocksBalanced'
    <3> SUFFICES ASSUME NEW u \in Threads
                 PROVE  readers[u] + (IF u = t THEN 1 + (locked + 1) ELSE 0)
                          = Cardinality(KeysInUse(u))
                            + (IF InFlight(u)' THEN 1 ELSE 0)
      BY <1>3, <2>2 DEF LocksBalanced
    <3>1. readers[u] + (IF u = t THEN 1 + locked ELSE 0)
            = Cardinality(KeysInUse(u)) + (IF InFlight(u) THEN 1 ELSE 0)
      BY <2>2 DEF LocksBalanced
    <3>2. /\ readers[u] \in Nat /\ locked \in Nat
          /\ Cardinality(KeysInUse(u)) \in Nat
      BY <1>3 DEF TypeOK
    <3> QED  BY <1>1, <2>1, <3>1, <3>2 DEF InFlight
  <2> QED  BY <1>2, <2>3, <2>4 DEF Control
<1> QED  BY <1>4, <1>5, <1>6

(* The write lock is noted and its key taken into use.                     *)
LEMMA ControlLockedWrite ==
  ASSUME LockInv, NEW t \in Threads, LockedWrite(t)
  PROVE  Control'
<1> USE DEF LockInv
<1> DEFINE c == op[t].key
<1>1. /\ pc[t] = "gotWrite"
      /\ c \in Keys /\ Owner[c] = t /\ ~key[c].held
  BY DEF LockedWrite, Asked
<1>2. \A u \in Threads : pc'[u] = IF u = t THEN "idle" ELSE pc[u]
  BY PcAfter DEF LockedWrite
<1>3. /\ writer = t /\ writeLockThreadId = None
      /\ writeLockThreadId' = t /\ threadId' = t
      /\ UNCHANGED <<readers, writer, locked>>
  BY DEF LockedWrite, rwVars, Noted
<1>4. \A j \in Keys : key[j] \in KeyType
  BY DEF TypeOK
<1>5. \A j \in Keys : j # c => key'[j] = key[j]
  BY <1>1 DEF LockedWrite, TypeOK
<1>6. key'[c].held = TRUE /\ key'[c].write = TRUE
  <2>1. key'[c] = [key[c] EXCEPT !.held = TRUE, !.write = TRUE]
    BY <1>1 DEF LockedWrite, TypeOK
  <2> HIDE DEF c
  <2> QED  BY <1>1, <1>4, <2>1 DEF KeyType
<1>7. \A u \in Threads : u # t => op'[u] = op[u]
  BY DEF LockedWrite, TypeOK
<1> HIDE DEF c
<1>8. \A j \in Keys : ~key[j].write
  BY <1>3 DEF WriteKeys, TypeOK, ConstantsAssumption
<1>9. Exclusion' /\ Noted' /\ CountedInside'
  BY <1>1, <1>2, <1>3 DEF Exclusion, Noted, CountedInside, ConstantsAssumption
<1>10. Asked'
  <2> SUFFICES ASSUME NEW u \in Threads,
                      pc'[u] \in {"wait", "gotWrite", "gotRead"}
               PROVE  op'[u].key \in Keys /\ Owner[op'[u].key] = u
                        /\ ~key'[op'[u].key].held
    BY DEF Asked
  <2>1. u # t /\ pc'[u] = pc[u] /\ op'[u] = op[u]
    BY <1>2, <1>7
  <2>2. op[u].key \in Keys /\ Owner[op[u].key] = u /\ ~key[op[u].key].held
    BY <2>1 DEF Asked
  <2> QED  BY <1>1, <1>5, <2>1, <2>2
<1>11. WriteKeys'
  BY <1>1, <1>3, <1>5, <1>6, <1>8 DEF WriteKeys
<1>12. LocksBalanced'
  <2> SUFFICES ASSUME NEW u \in Threads
               PROVE  readers[u] + (IF writer = u THEN 1 + locked ELSE 0)
                        = Cardinality(KeysInUse(u)')
                          + (IF InFlight(u)' THEN 1 ELSE 0)
    BY <1>3, Zenon DEF LocksBalanced
  <2>1. readers[u] + (IF writer = u THEN 1 + locked ELSE 0)
          = Cardinality(KeysInUse(u)) + (IF InFlight(u) THEN 1 ELSE 0)
    BY DEF LocksBalanced
  <2>2. CASE u = t
    <3>1. KeysInUse(t)' = KeysInUse(t) \cup {c} /\ c \notin KeysInUse(t)
      BY <1>1, <1>5, <1>6 DEF KeysInUse
    <3>2. Cardinality(KeysInUse(t)') = Cardinality(KeysInUse(t)) + 1
      BY <3>1, KeysCounted, FS_AddElement
    <3> QED  BY <1>1, <1>2, <2>1, <2>2, <3>2, KeysCounted DEF InFlight
  <2>3. CASE u # t
    <3>1. KeysInUse(u)' = KeysInUse(u)
      BY <1>1, <1>5, <2>3 DEF KeysInUse
    <3> QED  BY <1>2, <2>1, <2>3, <3>1 DEF InFlight
  <2> QED  BY <2>2, <2>3
<1> QED  BY <1>9, <1>10, <1>11, <1>12 DEF Control

(* The states are compared: the read lock is kept or given back.           *)
LEMMA ControlLockedRead ==
  ASSUME LockInv, NEW t \in Threads, LockedRead(t)
  PROVE  Control'
<1> USE DEF LockInv
<1> DEFINE c == op[t].key
<1>1. /\ pc[t] = "gotRead"
      /\ c \in Keys /\ Owner[c] = t /\ ~key[c].held
  BY DEF LockedRead, Asked
<1>2. UNCHANGED <<readers, writer, writeLockThreadId, locked, threadId>>
  BY DEF LockedRead, rwVars, idVars, listVars
<1>3. \A u \in Threads : u # t => op'[u] = op[u]
  BY DEF LockedRead, TypeOK
<1>4. \A j \in Keys : key[j] \in KeyType
  BY DEF TypeOK
<1>5. \/ /\ \A u \in Threads : pc'[u] = IF u = t THEN "idle" ELSE pc[u]
         /\ key' = [key EXCEPT ![c].held = TRUE]
      \/ /\ \A u \in Threads : pc'[u] = IF u = t THEN "unlock" ELSE pc[u]
         /\ key' = key
  BY PcAfter DEF LockedRead
<1>6. \A j \in Keys : /\ j # c => key'[j] = key[j]
                      /\ key'[j].write = key[j].write
  <2>1. CASE key' = key
    BY <2>1
  <2>2. CASE key' = [key EXCEPT ![c].held = TRUE]
    <3>1. \A j \in Keys : key'[j] = IF j = c THEN [key[c] EXCEPT !.held = TRUE]
                                    ELSE key[j]
      BY <1>1, <2>2 DEF TypeOK
    <3> HIDE DEF c
    <3> QED  BY <1>1, <1>4, <3>1 DEF KeyType
  <2> QED  BY <1>5, <2>1, <2>2
<1>7. ~key[c].write
  BY <1>1 DEF WriteKeys
<1>8. key' = [key EXCEPT ![c].held = TRUE] => key'[c].held
  <2> SUFFICES ASSUME key' = [key EXCEPT ![c].held = TRUE]
               PROVE  key'[c].held
    OBVIOUS
  <2>1. key'[c] = [key[c] EXCEPT !.held = TRUE]
    BY <1>1 DEF TypeOK
  <2> HIDE DEF c
  <2> QED  BY <1>1, <1>4, <2>1 DEF KeyType
<1> HIDE DEF c
<1>9. Exclusion' /\ Noted' /\ CountedInside'
  BY <1>1, <1>2, <1>5 DEF Exclusion, Noted, CountedInside
<1>10. Asked'
  <2> SUFFICES ASSUME NEW u \in Threads,
                      pc'[u] \in {"wait", "gotWrite", "gotRead"}
               PROVE  op'[u].key \in Keys /\ Owner[op'[u].key] = u
                        /\ ~key'[op'[u].key].held
    BY DEF Asked
  <2>1. u # t /\ pc'[u] = pc[u] /\ op'[u] = op[u]
    BY <1>3, <1>5
  <2>2. op[u].key \in Keys /\ Owner[op[u].key] = u /\ ~key[op[u].key].held
    BY <2>1 DEF Asked
  <2> QED  BY <1>1, <1>6, <2>1, <2>2
<1>11. WriteKeys'
  BY <1>1, <1>2, <1>6, <1>7 DEF WriteKeys
<1>12. LocksBalanced'
  <2> SUFFICES ASSUME NEW u \in Threads
               PROVE  readers[u] + (IF writer = u THEN 1 + locked ELSE 0)
                        = Cardinality(KeysInUse(u)')
                          + (IF InFlight(u)' THEN 1 ELSE 0)
    BY <1>2, Zenon DEF LocksBalanced
  <2>1. readers[u] + (IF writer = u THEN 1 + locked ELSE 0)
          = Cardinality(KeysInUse(u)) + (IF InFlight(u) THEN 1 ELSE 0)
    BY DEF LocksBalanced
  <2>2. CASE u # t
    <3>1. KeysInUse(u)' = KeysInUse(u)
      BY <1>1, <1>6, <2>2 DEF KeysInUse
    <3> QED  BY <1>5, <2>1, <2>2, <3>1 DEF InFlight
  <2>3. CASE u = t /\ key' = [key EXCEPT ![c].held = TRUE] /\ pc'[t] = "idle"
    <3>1. KeysInUse(t)' = KeysInUse(t) \cup {c} /\ c \notin KeysInUse(t)
      BY <1>1, <1>6, <1>8, <2>3 DEF KeysInUse
    <3>2. Cardinality(KeysInUse(t)') = Cardinality(KeysInUse(t)) + 1
      BY <3>1, KeysCounted, FS_AddElement
    <3> QED  BY <1>1, <2>1, <2>3, <3>2, KeysCounted DEF InFlight
  <2>4. CASE u = t /\ key' = key /\ pc'[t] = "unlock"
    <3>1. KeysInUse(u)' = KeysInUse(u)
      BY <2>4 DEF KeysInUse
    <3> QED  BY <1>1, <2>1, <2>4, <3>1 DEF InFlight
  <2> QED  BY <1>5, <2>2, <2>3, <2>4
<1> QED  BY <1>9, <1>10, <1>11, <1>12 DEF Control

(* A key is removed.                                                       *)
LEMMA ControlRemove ==
  ASSUME LockInv, NEW t \in Threads, NEW k \in Keys, NEW inc \in BOOLEAN,
         Remove(t, k, inc)
  PROVE  Control'
<1> USE DEF LockInv
<1>1. pc[t] = "idle" /\ Owner[k] = t /\ key[k].held
  BY DEF Remove
<1>2. \A u \in Threads : pc'[u] = IF u = t THEN "unlock" ELSE pc[u]
  BY PcAfter DEF Remove
<1>3. UNCHANGED <<readers, writer, writeLockThreadId, locked, op>>
  BY DEF Remove, rwVars, idVars
<1>4. \A j \in Keys : key[j] \in KeyType
  BY DEF TypeOK
<1>5. key'[k].held = FALSE /\ key'[k].write = FALSE
  BY DEF Remove
<1>6. \A j \in Keys : j # k => key'[j].held = key[j].held
                              /\ key'[j].write = key[j].write
  <2> SUFFICES ASSUME NEW j \in Keys, j # k
               PROVE  key'[j].held = key[j].held /\ key'[j].write = key[j].write
    OBVIOUS
  <2> DEFINE S(n) == [key[j] EXCEPT !.state = n]
  <2>1. \A n : S(n).held = key[j].held /\ S(n).write = key[j].write
    BY <1>4 DEF KeyType
  <2>2. key'[j] = key[j] \/ \E n : key'[j] = S(n)
    BY Zenon DEF Remove
  <2> HIDE DEF S
  <2> QED  BY <2>1, <2>2
<1>7. Exclusion' /\ Noted' /\ CountedInside' /\ Asked'
  <2>1. Exclusion' /\ Noted' /\ CountedInside'
    BY <1>1, <1>2, <1>3 DEF Exclusion, Noted, CountedInside
  <2>2. Asked'
    BY <1>1, <1>2, <1>3, <1>5, <1>6 DEF Asked
  <2> QED  BY <2>1, <2>2
<1>8. WriteKeys'
  <2>1. CASE key[k].write
    <3>1. \A j \in Keys : key'[j].write = FALSE
      <4>1. \A j \in Keys : j # k => ~key[j].write
        BY <2>1 DEF WriteKeys
      <4> QED  BY <1>4, <1>5, <1>6, <4>1 DEF KeyType
    <3>2. threadId' = None
      BY <2>1 DEF Remove
    <3> QED  BY <3>1, <3>2 DEF WriteKeys, ConstantsAssumption
  <2>2. CASE ~key[k].write
    <3>1. threadId' = threadId
      BY <2>2, Zenon DEF Remove
    <3>2. \A j \in Keys : key'[j].write => key[j].write /\ j # k
      BY <1>5, <1>6
    <3>3. \A j \in Keys : key[j].write => key'[j].write
      BY <1>6, <2>2
    <3> QED  BY <1>3, <1>6, <3>1, <3>2, <3>3, Zenon DEF WriteKeys
  <2> QED  BY <2>1, <2>2
<1>9. LocksBalanced'
  <2> SUFFICES ASSUME NEW u \in Threads
               PROVE  readers[u] + (IF writer = u THEN 1 + locked ELSE 0)
                        = Cardinality(KeysInUse(u)')
                          + (IF InFlight(u)' THEN 1 ELSE 0)
    BY <1>3, Zenon DEF LocksBalanced
  <2>1. readers[u] + (IF writer = u THEN 1 + locked ELSE 0)
          = Cardinality(KeysInUse(u)) + (IF InFlight(u) THEN 1 ELSE 0)
    BY DEF LocksBalanced
  <2>2. CASE u = t
    <3>1. KeysInUse(t)' = KeysInUse(t) \ {k} /\ k \in KeysInUse(t)
      BY <1>1, <1>5, <1>6 DEF KeysInUse
    <3>2. Cardinality(KeysInUse(t)') = Cardinality(KeysInUse(t)) - 1
      BY <3>1, KeysCounted, FS_RemoveElement
    <3> QED  BY <1>1, <1>2, <2>1, <2>2, <3>2, KeysCounted DEF InFlight
  <2>3. CASE u # t
    <3>1. KeysInUse(u)' = KeysInUse(u)
      BY <1>1, <1>6, <2>3 DEF KeysInUse
    <3> QED  BY <1>2, <2>1, <2>3, <3>1 DEF InFlight
  <2> QED  BY <2>2, <2>3
<1> QED  BY <1>7, <1>8, <1>9 DEF Control

(* A lock is given back.                                                   *)
LEMMA ControlUnlock ==
  ASSUME LockInv, NEW t \in Threads,
         UnlockNested(t) \/ UnlockClear(t) \/ Release(t)
  PROVE  Control'
<1> USE DEF LockInv
<1>1. /\ InFlight(t)
      /\ UNCHANGED <<threadId, key, op>>
  BY DEF UnlockNested, UnlockClear, Release, InFlight, listVars
<1>2. \A u \in Threads : KeysInUse(u)' = KeysInUse(u)
  BY <1>1, SameKeysInUse
<1>3. /\ writer = None \/ writer = t
      /\ writer # t => readers[t] > 0
  BY <1>1, HolderExcludes
<1>4. \A u \in Threads :
        readers[u] + (IF writer = u THEN 1 + locked ELSE 0)
          = Cardinality(KeysInUse(u)) + (IF InFlight(u) THEN 1 ELSE 0)
  BY DEF LocksBalanced
<1>5. \A u \in Threads : readers[u] \in Nat /\ Cardinality(KeysInUse(u)) \in Nat
  BY KeysCounted DEF TypeOK
<1>6. CASE UnlockNested(t)
  <2>1. \A u \in Threads : pc'[u] = IF u = t THEN "idle" ELSE pc[u]
    BY <1>6, PcAfter DEF UnlockNested
  <2>2. /\ writer = t /\ pc[t] = "unlock" /\ locked \in Nat
        /\ locked' = locked - 1
        /\ UNCHANGED <<readers, writer, writeLockThreadId>>
    BY <1>6 DEF UnlockNested, Nested, Noted, rwVars, TypeOK
  <2>3. Exclusion' /\ Noted' /\ CountedInside' /\ Asked' /\ WriteKeys'
    BY <1>1, <2>1, <2>2
       DEF Exclusion, Noted, CountedInside, Asked, WriteKeys, ConstantsAssumption
  <2>4. LocksBalanced'
    <3> SUFFICES ASSUME NEW u \in Threads
                 PROVE  readers[u] + (IF u = t THEN 1 + (locked - 1) ELSE 0)
                          = Cardinality(KeysInUse(u))
                            + (IF InFlight(u)' THEN 1 ELSE 0)
      BY <1>2, <2>2 DEF LocksBalanced
    <3> QED  BY <1>4, <1>5, <2>1, <2>2 DEF InFlight
  <2> QED  BY <2>3, <2>4 DEF Control
<1>7. CASE UnlockClear(t)
  <2>1. \A u \in Threads : pc'[u] = IF u = t THEN "release" ELSE pc[u]
    BY <1>7, PcAfter DEF UnlockClear
  <2>2. /\ pc[t] = "unlock" /\ ~Nested(t)
        /\ writeLockThreadId' = None
        /\ UNCHANGED <<readers, writer, locked>>
    BY <1>7 DEF UnlockClear, ClearOwner, rwVars
  <2>3. writer = t => locked = 0 /\ KeysInUse(t) = {}
    BY <2>2, LastUnlock
  <2>4. Exclusion' /\ Noted' /\ CountedInside' /\ Asked'
    BY <1>1, <1>3, <2>1, <2>2, <2>3
       DEF Exclusion, Noted, CountedInside, Asked, ConstantsAssumption
  <2>5. \A k \in Keys : ~key[k].write
    <3> SUFFICES ASSUME NEW k \in Keys, key[k].write
                 PROVE  FALSE
      OBVIOUS
    <3>1. key[k].held /\ writeLockThreadId = Owner[k] /\ Owner[k] \in Threads
      BY DEF WriteKeys, ConstantsAssumption
    <3>2. writer = Owner[k]
      BY <3>1 DEF Noted
    <3>3. Owner[k] = t
      BY <1>3, <3>1, <3>2 DEF ConstantsAssumption
    <3> QED  BY <2>3, <3>1, <3>2, <3>3 DEF KeysInUse
  <2>6. WriteKeys'
    BY <1>1, <2>2, <2>5 DEF WriteKeys
  <2>7. LocksBalanced'
    BY <1>2, <1>4, <2>1, <2>2 DEF LocksBalanced, InFlight
  <2> QED  BY <2>4, <2>6, <2>7 DEF Control
<1>8. CASE Release(t)
  <2>1. \A u \in Threads : pc'[u] = IF u = t THEN "idle" ELSE pc[u]
    BY <1>8, PcAfter DEF Release
  <2>2. /\ pc[t] = "release"
        /\ UNCHANGED <<writeLockThreadId, locked>>
    BY <1>8 DEF Release, idVars
  <2>3. writer = t => locked = 0 /\ writeLockThreadId = None
    BY <2>2 DEF CountedInside, Noted, TypeOK
  <2>4. WriteKeys'
    BY <1>1, <2>2 DEF WriteKeys
  <2>5. CASE writer = t
    <3>1. writer' = None /\ readers' = readers
      BY <1>8, <2>5, Zenon DEF Release
    <3>2. Exclusion' /\ Noted' /\ CountedInside' /\ Asked'
      BY <1>1, <2>1, <2>2, <2>3, <2>5, <3>1
         DEF Exclusion, Noted, CountedInside, Asked, ConstantsAssumption
    <3>3. LocksBalanced'
      <4> SUFFICES ASSUME NEW u \in Threads
                   PROVE  readers[u] + 0 = Cardinality(KeysInUse(u))
                            + (IF InFlight(u)' THEN 1 ELSE 0)
        BY <1>2, <3>1 DEF LocksBalanced, ConstantsAssumption
      <4> QED  BY <1>4, <1>5, <2>1, <2>2, <2>3, <2>5 DEF InFlight
    <3> QED  BY <2>4, <3>2, <3>3 DEF Control
  <2>6. CASE writer # t
    <3>1. writer' = writer /\ readers' = [readers EXCEPT ![t] = @ - 1]
      BY <1>8, <2>6, Zenon DEF Release
    <3>2. writer = None
      BY <1>3, <2>6
    <3>3. \A u \in Threads :
            readers'[u] = IF u = t THEN readers[u] - 1 ELSE readers[u]
      BY <3>1 DEF TypeOK
    <3>4. Exclusion' /\ Noted' /\ CountedInside' /\ Asked'
      BY <1>1, <2>1, <2>2, <2>6, <3>1, <3>2
         DEF Exclusion, Noted, CountedInside, Asked, ConstantsAssumption
    <3>5. LocksBalanced'
      <4> SUFFICES ASSUME NEW u \in Threads
                   PROVE  readers'[u] + 0 = Cardinality(KeysInUse(u))
                            + (IF InFlight(u)' THEN 1 ELSE 0)
        BY <1>2, <3>1, <3>2 DEF LocksBalanced, ConstantsAssumption
      <4>1. readers[u] + 0 = Cardinality(KeysInUse(u))
              + (IF InFlight(u) THEN 1 ELSE 0)
        BY <1>4, <3>2 DEF ConstantsAssumption
      <4> QED  BY <1>5, <2>1, <2>2, <3>3, <4>1 DEF InFlight
    <3> QED  BY <2>4, <3>4, <3>5 DEF Control
  <2> QED  BY <2>5, <2>6
<1> QED  BY <1>6, <1>7, <1>8

(* Owner, locks and writer agree, in whatever order keys are removed.      *)
THEOREM LocksAreSound == Spec => []LockSound
<1>1. Init => LockInv
  BY LockInit
<1>2. LockInv /\ [Next]_vars => LockInv'
  <2> SUFFICES ASSUME LockInv, [Next]_vars
               PROVE  Control'
    BY TypesKept DEF LockInv, Control
  <2>1. CASE UNCHANGED <<readers, writer, writeLockThreadId, locked, threadId,
                         key, pc, op>>
    BY <2>1 DEF LockInv, Control, Exclusion, Noted, CountedInside, Asked,
                WriteKeys, LocksBalanced, InFlight, KeysInUse
  <2>2. ASSUME NEW t \in Threads, Use(t)  PROVE Control'
    BY <2>1, <2>2, Zenon
       DEF Use, Modify, SetExplicitModify, SetSyncStateKey, rwVars, idVars
  <2>3. CASE UNCHANGED vars
    BY <2>1, <2>3, Zenon DEF vars
  <2> QED
    BY <2>2, <2>3, ControlCall, ControlRefused, ControlAcquired,
       ControlLockedWrite, ControlLockedRead, ControlRemove, ControlUnlock
       DEF Next, Call, Leave, Inside
<1> QED  BY <1>1, <1>2, InvariantIsEnough, PTL DEF Spec
=============================================================================
