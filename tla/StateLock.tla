----------------------------- MODULE StateLock ------------------------------
(***************************************************************************)
(* The lock VDR puts around each of its lists (thread.c): cStateLock with  *)
(* its cRwLock, and the cStateKeys of the threads.  A key remembers the    *)
(* state of the list its owner has seen last; a read lock is granted only  *)
(* if the list has changed since.  A thread may take read locks while it   *)
(* holds a lock already, with another key.                                 *)
(*                                                                         *)
(* The fields of cRwLock are read and written without a lock of their own, *)
(* so Lock() and Unlock() are split at each access to the rwlock below     *)
(* them.  That one is external: a reader gets in whenever no thread holds  *)
(* the write lock.  PTHREAD_RWLOCK_PREFER_WRITER_NP does not change that:  *)
(* glibc ignores it, and the MSYS build does not set it.                   *)
(***************************************************************************)
EXTENDS Integers, FiniteSets

CONSTANTS
  Threads,        \* threads that use the list
  Keys,           \* their cStateKeys
  Owner,          \* Owner[k]: the thread that uses key k
  IgnoreFirst,    \* keys constructed with IgnoreFirst
  None,           \* no thread, no key
  MaxState        \* bound: no write lock is asked for from this state on

ASSUME ConstantsAssumption ==
  /\ IsFiniteSet(Keys)
  /\ Owner \in [Keys -> Threads]
  /\ IgnoreFirst \subseteq Keys
  /\ None \notin Threads \cup Keys
  /\ MaxState \in Nat

VARIABLES
  readers,            \* rwlock: read locks each thread holds
  writer,             \* rwlock: the thread with the write lock
  writeLockThreadId,  \* cRwLock
  locked,             \* cRwLock: read locks within the write lock
  threadId,           \* cStateLock: the thread that may write
  state,              \* cStateLock: counts the changes
  explicitModify,     \* cStateLock
  syncStateKey,       \* cStateLock
  key,                \* the cStateKeys
  pc,                 \* where each thread is in Lock() or Unlock()
  op,                 \* the arguments of the Lock() in progress
  dirty,              \* the writer has changed the list
  unseen              \* keys whose owner has not seen the newest list

rwVars   == <<readers, writer>>
idVars   == <<writeLockThreadId, locked>>
listVars == <<threadId, state, explicitModify, syncStateKey, dirty, unseen>>
vars     == <<readers, writer, writeLockThreadId, locked, threadId, state,
              explicitModify, syncStateKey, key, pc, op, dirty, unseen>>

emDisabled == 0
emArmed    == 1
emEnabled  == 2

Places  == {"idle", "wait", "gotWrite", "gotRead", "unlock", "release"}
NoOp    == [key |-> None, write |-> FALSE, timeout |-> FALSE]
Ops     == [key: Keys \cup {None}, write: BOOLEAN, timeout: BOOLEAN]
KeyType == [held: BOOLEAN, write: BOOLEAN, state: Int]

TypeOK ==
  /\ readers \in [Threads -> Nat]
  /\ writer \in Threads \cup {None}
  /\ writeLockThreadId \in Threads \cup {None}
  /\ locked \in Nat
  /\ threadId \in Threads \cup {None}
  /\ state \in Nat
  /\ explicitModify \in {emDisabled, emArmed, emEnabled}
  /\ syncStateKey \in Keys \cup {None}
  /\ key \in [Keys -> KeyType]
  /\ pc \in [Threads -> Places]
  /\ op \in [Threads -> Ops]
  /\ dirty \in BOOLEAN
  /\ unseen \subseteq Keys

Init ==
  /\ readers = [t \in Threads |-> 0]
  /\ writer = None
  /\ writeLockThreadId = None
  /\ locked = 0
  /\ threadId = None
  /\ state = 0
  /\ explicitModify = emDisabled
  /\ syncStateKey = None
  /\ key = [k \in Keys |-> [held |-> FALSE, write |-> FALSE,
                            state |-> IF k \in IgnoreFirst THEN 0 ELSE -1]]
  /\ pc = [t \in Threads |-> "idle"]
  /\ op = [t \in Threads |-> NoOp]
  /\ dirty = FALSE
  /\ unseen = Keys \ IgnoreFirst

-----------------------------------------------------------------------------
(* cStateLock::Lock.  The callers keep two rules the code relies on: a key *)
(* in use is not used again, and no write lock is asked for by a thread    *)
(* that holds only read locks.                                             *)

Goto(t, place) == pc' = [pc EXCEPT ![t] = place]

LockCall(t, k, write, timeout) ==
  /\ pc[t] = "idle"
  /\ Owner[k] = t
  /\ ~key[k].held
  /\ write => readers[t] = 0 /\ state < MaxState
  /\ op' = [op EXCEPT ![t] = [key |-> k, write |-> write, timeout |-> timeout]]
  /\ Goto(t, "wait")
  /\ UNCHANGED <<rwVars, idVars, listVars, key>>

(* cRwLock::Lock: the write lock ...                                       *)
AcquireWrite(t) ==
  /\ pc[t] = "wait"
  /\ op[t].write
  /\ writer = None
  /\ \A u \in Threads : readers[u] = 0
  /\ writer' = t
  /\ Goto(t, "gotWrite")
  /\ UNCHANGED <<readers, idVars, listVars, key, op>>

(* ... is refused to the thread that has it already (EDEADLK).             *)
RefuseWrite(t) ==
  /\ pc[t] = "wait"
  /\ op[t].write
  /\ writer = t
  /\ Goto(t, "idle")
  /\ op' = [op EXCEPT ![t] = NoOp]
  /\ UNCHANGED <<rwVars, idVars, listVars, key>>

(* A read lock inside the thread's own write lock is only counted.         *)
AcquireNestedRead(t) ==
  /\ pc[t] = "wait"
  /\ ~op[t].write
  /\ writeLockThreadId = t
  /\ locked' = locked + 1
  /\ Goto(t, "gotRead")
  /\ UNCHANGED <<rwVars, writeLockThreadId, listVars, key, op>>

AcquireRead(t) ==
  /\ pc[t] = "wait"
  /\ ~op[t].write
  /\ writeLockThreadId # t
  /\ writer = None
  /\ readers' = [readers EXCEPT ![t] = @ + 1]
  /\ Goto(t, "gotRead")
  /\ UNCHANGED <<writer, idVars, listVars, key, op>>

(* The rwlock was not to be had within TimeoutMs.                          *)
TimeOut(t) ==
  /\ pc[t] = "wait"
  /\ op[t].timeout
  /\ \/ writer \notin {None, t}
     \/ op[t].write /\ \E u \in Threads : readers[u] > 0
  /\ Goto(t, "idle")
  /\ op' = [op EXCEPT ![t] = NoOp]
  /\ UNCHANGED <<rwVars, idVars, listVars, key>>

LockedWrite(t) ==
  /\ pc[t] = "gotWrite"
  /\ writeLockThreadId' = t
  /\ threadId' = t
  /\ key' = [key EXCEPT ![op[t].key].held = TRUE, ![op[t].key].write = TRUE]
  /\ Goto(t, "idle")
  /\ op' = [op EXCEPT ![t] = NoOp]
  /\ UNCHANGED <<rwVars, locked, state, explicitModify, syncStateKey, dirty,
                 unseen>>

Changed(k) == state # key[k].state

(* The comparison of the states: true keeps the lock, false gives it back. *)
LockedRead(t) ==
  /\ pc[t] = "gotRead"
  /\ IF Changed(op[t].key)
     THEN /\ key' = [key EXCEPT ![op[t].key].held = TRUE]
          /\ Goto(t, "idle")
     ELSE /\ Goto(t, "unlock")
          /\ UNCHANGED key
  /\ op' = [op EXCEPT ![t] = NoOp]
  /\ UNCHANGED <<rwVars, idVars, listVars>>

-----------------------------------------------------------------------------
(* What a writer does with the list.                                       *)

(* Modify: a caller that has armed explicit modification reports each      *)
(* change with SetModified().                                              *)
Modify(t) ==
  /\ pc[t] = "idle" /\ threadId = t
  /\ dirty' = TRUE
  /\ explicitModify' = IF explicitModify = emDisabled THEN emDisabled
                       ELSE emEnabled
  /\ UNCHANGED <<rwVars, idVars, threadId, state, syncStateKey, key, pc, op,
                 unseen>>

(* SetExplicitModify() comes before the first change.                      *)
SetExplicitModify(t) ==
  /\ pc[t] = "idle" /\ threadId = t
  /\ explicitModify = emDisabled /\ ~dirty
  /\ explicitModify' = emArmed
  /\ UNCHANGED <<rwVars, idVars, threadId, state, syncStateKey, key, pc, op,
                 dirty, unseen>>

SetSyncStateKey(t, k) ==
  /\ pc[t] = "idle" /\ threadId = t
  /\ ~key[k].held
  /\ syncStateKey = None
  /\ syncStateKey' = k
  /\ UNCHANGED <<rwVars, idVars, threadId, state, explicitModify, key, pc, op,
                 dirty, unseen>>

-----------------------------------------------------------------------------
(* cStateLock::Unlock, called by cStateKey::Remove(IncState).              *)

(* Mutant: the synchronised key is moved on even if it lags behind.        *)
SyncAlways(k) == syncStateKey = k

(* The synchronised key moves along if it was up to date.                  *)
Synced(k) == syncStateKey = k /\ key[k].state = state

Counts(inc) == \/ inc /\ explicitModify # emArmed
               \/ explicitModify = emEnabled

(* A writer that has changed the list does not say that it has not.        *)
Remove(t, k, inc) ==
  LET inced == key[k].write /\ Counts(inc)
      now   == IF inced THEN state + 1 ELSE state
  IN
  /\ pc[t] = "idle"
  /\ Owner[k] = t /\ key[k].held
  /\ key[k].write /\ dirty /\ explicitModify = emDisabled => inc
  /\ state' = now
  /\ key' = [j \in Keys |->
               IF j = k THEN [held |-> FALSE, write |-> FALSE, state |-> now]
               ELSE IF inced /\ Synced(j) THEN [key[j] EXCEPT !.state = now]
               ELSE key[j]]
  /\ IF key[k].write
     THEN /\ threadId' = None
          /\ explicitModify' = emDisabled
          /\ syncStateKey' = None
          /\ dirty' = FALSE
          /\ unseen' = (IF dirty THEN unseen \cup (Keys \ {syncStateKey})
                        ELSE unseen) \ {k}
     ELSE /\ unseen' = unseen \ {k}
          /\ UNCHANGED <<threadId, explicitModify, syncStateKey, dirty>>
  /\ Goto(t, "unlock")
  /\ UNCHANGED <<rwVars, idVars, op>>

(* Mutant: the count of the read locks is not looked at.                   *)
NestedUncounted(t) == FALSE

(* Mutant: whatever the owner unlocks is taken for a nested read lock.     *)
NestedWhenOwner(t) == writeLockThreadId = t

Nested(t) == writeLockThreadId = t /\ locked > 0

(* cRwLock::Unlock: a read lock within the write lock is counted down ...  *)
UnlockNested(t) ==
  /\ pc[t] = "unlock"
  /\ Nested(t)
  /\ locked' = locked - 1
  /\ Goto(t, "idle")
  /\ UNCHANGED <<rwVars, writeLockThreadId, listVars, key, op>>

ClearOwner(t) == writeLockThreadId' = None

(* ... and otherwise the owner is cleared ...                              *)
UnlockClear(t) ==
  /\ pc[t] = "unlock"
  /\ ~Nested(t)
  /\ ClearOwner(t)
  /\ Goto(t, "release")
  /\ UNCHANGED <<rwVars, locked, listVars, key, op>>

(* ... before the rwlock is released.                                      *)
Release(t) ==
  /\ pc[t] = "release"
  /\ IF writer = t
     THEN writer' = None /\ UNCHANGED readers
     ELSE readers' = [readers EXCEPT ![t] = @ - 1] /\ UNCHANGED writer
  /\ Goto(t, "idle")
  /\ UNCHANGED <<idVars, listVars, key, op>>

-----------------------------------------------------------------------------
Call(t) == \E k \in Keys, write, timeout \in BOOLEAN :
             LockCall(t, k, write, timeout)
Use(t)  == \/ Modify(t)
           \/ SetExplicitModify(t)
           \/ \E k \in Keys : SetSyncStateKey(t, k)
Leave(t) == \E k \in Keys, inc \in BOOLEAN : Remove(t, k, inc)
Inside(t) == \/ RefuseWrite(t)
             \/ AcquireNestedRead(t)
             \/ LockedWrite(t)
             \/ LockedRead(t)
             \/ UnlockNested(t)
             \/ UnlockClear(t)
             \/ Release(t)

Next == \E t \in Threads :
          \/ Call(t) \/ Use(t) \/ Leave(t) \/ Inside(t)
          \/ AcquireWrite(t) \/ AcquireRead(t) \/ TimeOut(t)

Spec == Init /\ [][Next]_vars

(* A thread goes on when it can, a key locked is removed at the end of its *)
(* block, and a reader that waits is let in between two writers: glibc     *)
(* hands the rwlock to waiting readers when a writer releases it.          *)
FairSpec ==
  /\ Spec
  /\ \A t \in Threads : WF_vars(Inside(t)) /\ SF_vars(AcquireRead(t))
  /\ \A t \in Threads, k \in Keys :
       SF_vars(\E inc \in BOOLEAN : Remove(t, k, inc))

-----------------------------------------------------------------------------
KeysInUse(t) == {k \in Keys : Owner[k] = t /\ key[k].held}
InFlight(t)  == pc[t] \in {"gotWrite", "gotRead", "unlock", "release"}

(* The owner noted in cRwLock is the thread with the write lock, and while *)
(* a writer's key is in use it is noted: the unsynchronised comparison in  *)
(* Lock() and Unlock() never takes another thread for the owner.           *)
OwnerIsHolder ==
  /\ \A t \in Threads : writeLockThreadId = t => writer = t
  /\ \A k \in Keys : key[k].held /\ key[k].write =>
       /\ writeLockThreadId = Owner[k]
       /\ threadId = Owner[k]

(* Each key in use, and each Lock() or Unlock() under way, stands for one  *)
(* lock taken, in whatever order a thread removes its keys: no lock stays  *)
(* behind and none is released twice.                                      *)
LocksBalanced ==
  \A t \in Threads :
    readers[t] + (IF writer = t THEN 1 + locked ELSE 0)
      = Cardinality(KeysInUse(t)) + (IF InFlight(t) THEN 1 ELSE 0)

(* While a thread may change the list no other thread uses it.             *)
WriterIsAlone ==
  \A t \in Threads : threadId = t =>
    \A u \in Threads \ {t} : KeysInUse(u) = {}

LockSound == TypeOK /\ OwnerIsHolder /\ LocksBalanced /\ WriterIsAlone

(* A key whose owner has not seen the newest list differs from the state   *)
(* of the lock, so the next Lock() with it returns true: no change is ever *)
(* missed, not even by a key that is synchronised with some of them.       *)
NoMissedChange == \A k \in unseen : key[k].state # state

(* A reader that waits without a timeout gets the answer of Lock().        *)
ReaderServed ==
  \A t \in Threads :
    (pc[t] = "wait" /\ ~op[t].write /\ ~op[t].timeout) ~> (pc[t] = "idle")
=============================================================================
