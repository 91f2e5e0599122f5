-------------------------- MODULE ReceiversProofs ---------------------------
(***************************************************************************)
(* Proof about Receivers, for any number of receivers, PIDs, slots,        *)
(* handles and threads that attach and detach.                             *)
(***************************************************************************)
EXTENDS Receivers, FiniteSetTheorems, TLAPS

(* What the slots hold, and where the device's thread is in them.          *)
SlotTypes ==
  /\ slot \in [1..Slots -> Receivers \cup {None}]
  /\ pc \in [Actors -> UserPlaces \cup DetachPlaces \cup DevPlaces]
  /\ arg \in [Actors -> Receivers \cup {None}]
  /\ pos \in [Actors -> Nat]

(* The places a thread can be at: only the device's is in its loop; in a   *)
(* loop over the slots one has been reached.                               *)
PlacesOwn ==
  /\ \A u \in Users : pc[u] \notin DevPlaces /\ (pc[u] = "all" => pos[u] > 0)
  /\ pc[Dev] \in DetachPlaces \cup {"deliver"} => pos[Dev] > 0
  /\ pc[Dev] \notin UserPlaces

(* A receiver in a slot is active and has this device; one being attached  *)
(* has not, and nobody else is busy with it; and one that is about to be   *)
(* deactivated is in no slot.                                              *)
SlotsActive ==
  /\ \A i \in 1..Slots : slot[i] # None => slot[i] \in device \cap activated
  /\ \A u \in Actors : pc[u] \in {"attach", "undo"} =>
       /\ arg[u] \in Receivers \ device
       /\ \A v \in Actors \ {u} : arg[v] # arg[u]
  /\ \A a \in Actors : pc[a] \in DetachPlaces => arg[a] \in Receivers
  /\ \A a \in Actors : pc[a] = "deactivate" =>
       \A i \in 1..Slots : slot[i] # arg[a]

IInv == SlotTypes /\ PlacesOwn /\ SlotsActive

(* The invariant holds initially.                                          *)
LEMMA InitOk == Init => IInv
<1> SUFFICES ASSUME Init
             PROVE  IInv
  OBVIOUS
<1>1. Dev \notin Users
  BY ConstantsAssumption
<1>2. SlotTypes
  BY DEF Init, SlotTypes, UserPlaces, DevPlaces
<1>3. PlacesOwn
  BY <1>1 DEF Init, PlacesOwn, Actors, UserPlaces, DetachPlaces, DevPlaces
<1>4. SlotsActive
  BY DEF Init, SlotsActive, DetachPlaces
<1> QED BY <1>2, <1>3, <1>4 DEF IInv

(* AttachCall preserves the invariant.                                   *)
LEMMA KeepsAttachCall ==
  ASSUME IInv, NEW u \in Users, NEW r \in Receivers, AttachCall(u, r)
  PROVE  IInv'
<1> USE DEF IInv, Goto, slotVars, threadVars, Actors
<1>0. Dev \notin Users /\ None \notin Receivers
  BY ConstantsAssumption
<1>1. SlotTypes'
  BY <1>0 DEF AttachCall, SlotTypes, UserPlaces, DetachPlaces, DevPlaces
<1>2. PlacesOwn'
  BY <1>0 DEF AttachCall, SlotTypes, PlacesOwn, UserPlaces, DetachPlaces, DevPlaces
<1>3. SlotsActive'
  BY <1>0 DEF AttachCall, SlotTypes, PlacesOwn, SlotsActive, DetachPlaces, DevPlaces
<1> QED BY <1>1, <1>2, <1>3

(* AttachPid preserves the invariant.                                    *)
LEMMA KeepsAttachPid ==
  ASSUME IInv, NEW u \in Users, AttachPid(u)
  PROVE  IInv'
<1> USE DEF IInv, Goto, slotVars, threadVars, Actors
<1>0. Dev \notin Users /\ None \notin Receivers
  BY ConstantsAssumption
<1>1. SlotTypes'
  BY <1>0 DEF AttachPid, SlotTypes, UserPlaces, DetachPlaces, DevPlaces
<1>2. PlacesOwn'
  BY <1>0 DEF AttachPid, SlotTypes, PlacesOwn, UserPlaces, DetachPlaces, DevPlaces
<1>3. SlotsActive'
  BY <1>0 DEF AttachPid, SlotTypes, PlacesOwn, SlotsActive, DetachPlaces, DevPlaces
<1> QED BY <1>1, <1>2, <1>3

(* AttachUndo preserves the invariant.                                   *)
LEMMA KeepsAttachUndo ==
  ASSUME IInv, NEW u \in Users, AttachUndo(u)
  PROVE  IInv'
<1> USE DEF IInv, Goto, slotVars, threadVars, Actors
<1>0. Dev \notin Users /\ None \notin Receivers
  BY ConstantsAssumption
<1>1. SlotTypes'
  BY <1>0 DEF AttachUndo, SlotTypes, UserPlaces, DetachPlaces, DevPlaces
<1>2. PlacesOwn'
  BY <1>0 DEF AttachUndo, SlotTypes, PlacesOwn, UserPlaces, DetachPlaces, DevPlaces
<1>3. SlotsActive'
  BY <1>0 DEF AttachUndo, SlotTypes, PlacesOwn, SlotsActive, DetachPlaces, DevPlaces
<1> QED BY <1>1, <1>2, <1>3

(* AttachSlot preserves the invariant.                                   *)
LEMMA KeepsAttachSlot ==
  ASSUME IInv, NEW u \in Users, AttachSlot(u)
  PROVE  IInv'
<1> USE DEF IInv, Goto, slotVars, threadVars, Actors
<1>0. Dev \notin Users /\ None \notin Receivers
  BY ConstantsAssumption
<1>1. SlotTypes'
  BY <1>0 DEF AttachSlot, SlotTypes, UserPlaces, DetachPlaces, DevPlaces
<1>2. PlacesOwn'
  BY <1>0 DEF AttachSlot, SlotTypes, PlacesOwn, UserPlaces, DetachPlaces, DevPlaces
<1>3. SlotsActive'
  BY <1>0 DEF AttachSlot, SlotTypes, PlacesOwn, SlotsActive, DetachPlaces, DevPlaces
<1> QED BY <1>1, <1>2, <1>3

(* AttachStart preserves the invariant.                                  *)
LEMMA KeepsAttachStart ==
  ASSUME IInv, NEW u \in Users, AttachStart(u)
  PROVE  IInv'
<1> USE DEF IInv, Goto, slotVars, threadVars, Actors
<1>0. Dev \notin Users /\ None \notin Receivers
  BY ConstantsAssumption
<1>1. SlotTypes'
  BY <1>0 DEF AttachStart, SlotTypes, UserPlaces, DetachPlaces, DevPlaces
<1>2. PlacesOwn'
  BY <1>0 DEF AttachStart, SlotTypes, PlacesOwn, UserPlaces, DetachPlaces, DevPlaces
<1>3. SlotsActive'
  BY <1>0 DEF AttachStart, SlotTypes, PlacesOwn, SlotsActive, DetachPlaces, DevPlaces
<1> QED BY <1>1, <1>2, <1>3

(* DetachCall preserves the invariant.                                   *)
LEMMA KeepsDetachCall ==
  ASSUME IInv, NEW u \in Users, NEW r \in Receivers, DetachCall(u, r)
  PROVE  IInv'
<1> USE DEF IInv, Goto, slotVars, threadVars, Actors
<1>0. Dev \notin Users /\ None \notin Receivers
  BY ConstantsAssumption
<1>1. SlotTypes'
  BY <1>0 DEF DetachCall, SlotTypes, UserPlaces, DetachPlaces, DevPlaces
<1>2. PlacesOwn'
  BY <1>0 DEF DetachCall, SlotTypes, PlacesOwn, UserPlaces, DetachPlaces, DevPlaces
<1>3. SlotsActive'
  BY <1>0 DEF DetachCall, SlotTypes, PlacesOwn, SlotsActive, DetachPlaces, DevPlaces
<1> QED BY <1>1, <1>2, <1>3

(* DetachAllCall preserves the invariant.                                *)
LEMMA KeepsDetachAllCall ==
  ASSUME IInv, NEW u \in Users, DetachAllCall(u)
  PROVE  IInv'
<1> USE DEF IInv, Goto, slotVars, threadVars, Actors
<1>0. Dev \notin Users /\ None \notin Receivers
  BY ConstantsAssumption
<1>1. SlotTypes'
  BY <1>0 DEF DetachAllCall, SlotTypes, UserPlaces, DetachPlaces, DevPlaces
<1>2. PlacesOwn'
  BY <1>0 DEF DetachAllCall, SlotTypes, PlacesOwn, UserPlaces, DetachPlaces, DevPlaces
<1>3. SlotsActive'
  BY <1>0 DEF DetachAllCall, SlotTypes, PlacesOwn, SlotsActive, DetachPlaces, DevPlaces
<1> QED BY <1>1, <1>2, <1>3

(* DetachAllNext preserves the invariant.                                *)
LEMMA KeepsDetachAllNext ==
  ASSUME IInv, NEW u \in Users, DetachAllNext(u)
  PROVE  IInv'
<1> USE DEF IInv, Goto, slotVars, threadVars, Actors
<1>0. Dev \notin Users /\ None \notin Receivers /\ Slots \in Nat
  BY ConstantsAssumption
<1>a. CASE pos[u] > Slots \/ slot[pos[u]] = None
  <2>1. /\ UNCHANGED slotVars /\ arg' = arg
        /\ pc' = pc \/ pc' = [pc EXCEPT ![u] = "idle"]
    BY <1>a DEF DetachAllNext
  <2>2. SlotTypes'
    BY <1>0, <1>a DEF DetachAllNext, SlotTypes, UserPlaces
  <2>3. PlacesOwn'
    BY <1>0, <1>a
    DEF DetachAllNext, SlotTypes, PlacesOwn, UserPlaces, DetachPlaces, DevPlaces
  <2>4. SlotsActive'
    BY <1>0, <1>a, <2>1
    DEF SlotTypes, PlacesOwn, SlotsActive, UserPlaces, DetachPlaces, DevPlaces
  <2> QED BY <2>2, <2>3, <2>4
<1>b. CASE ~(pos[u] > Slots \/ slot[pos[u]] = None)
  <2>1. pos[u] \in 1..Slots /\ slot[pos[u]] # None
    BY <1>0, <1>b DEF DetachAllNext, SlotTypes, PlacesOwn
  <2>2. PICK r \in Receivers : r = slot[pos[u]] /\ r \in device \cap activated
    BY <2>1 DEF SlotTypes, SlotsActive
  <2>3. /\ arg' = [arg EXCEPT ![u] = r]
        /\ pc' = [pc EXCEPT ![u] = "clear"]
        /\ UNCHANGED <<slot, device, activated, pos>>
    BY <1>b, <2>1, <2>2 DEF DetachAllNext
  <2>4. SlotTypes'
    BY <2>3 DEF SlotTypes, DetachPlaces
  <2>5. PlacesOwn'
    BY <1>0, <2>3 DEF SlotTypes, PlacesOwn, UserPlaces, DetachPlaces, DevPlaces
  <2>6. SlotsActive'
    BY <1>0, <2>2, <2>3 DEF SlotTypes, SlotsActive, DetachPlaces
  <2> QED BY <2>4, <2>5, <2>6
<1> QED BY <1>a, <1>b

(* DetachClear preserves the invariant.                                  *)
LEMMA KeepsDetachClear ==
  ASSUME IInv, NEW a \in Actors, DetachClear(a)
  PROVE  IInv'
<1> USE DEF IInv, Goto, slotVars, threadVars, Actors
<1>0. Dev \notin Users /\ None \notin Receivers
  BY ConstantsAssumption
<1>1. SlotTypes'
  BY <1>0 DEF DetachClear, Cleared, SlotTypes, UserPlaces, DetachPlaces, DevPlaces
<1>2. PlacesOwn'
  BY <1>0 DEF DetachClear, Cleared, SlotTypes, PlacesOwn, UserPlaces, DetachPlaces, DevPlaces
<1>3. SlotsActive'
  BY <1>0 DEF DetachClear, Cleared, SlotTypes, PlacesOwn, SlotsActive, DetachPlaces, DevPlaces
<1> QED BY <1>1, <1>2, <1>3

(* DetachDeactivate preserves the invariant.                             *)
LEMMA KeepsDetachDeactivate ==
  ASSUME IInv, NEW a \in Actors, DetachDeactivate(a)
  PROVE  IInv'
<1> USE DEF IInv, Goto, slotVars, threadVars, Actors
<1>0. Dev \notin Users /\ None \notin Receivers
  BY ConstantsAssumption
<1>1. SlotTypes'
  BY <1>0 DEF DetachDeactivate, SlotTypes, UserPlaces, DetachPlaces, DevPlaces
<1>2. PlacesOwn'
  BY <1>0 DEF DetachDeactivate, SlotTypes, PlacesOwn, UserPlaces, DetachPlaces, DevPlaces
<1>3. SlotsActive'
  BY <1>0 DEF DetachDeactivate, SlotTypes, PlacesOwn, SlotsActive, DetachPlaces, DevPlaces
<1> QED BY <1>1, <1>2, <1>3

(* DetachPid preserves the invariant.                                    *)
LEMMA KeepsDetachPid ==
  ASSUME IInv, NEW a \in Actors, DetachPid(a)
  PROVE  IInv'
<1> USE DEF IInv, Goto, slotVars, threadVars, Actors
<1>0. Dev \notin Users /\ None \notin Receivers
  BY ConstantsAssumption
<1>1. SlotTypes'
  BY <1>0 DEF DetachPid, SlotTypes, UserPlaces, DetachPlaces, DevPlaces
<1>2. PlacesOwn'
  BY <1>0 DEF DetachPid, SlotTypes, PlacesOwn, UserPlaces, DetachPlaces, DevPlaces
<1>3. SlotsActive'
  BY <1>0 DEF DetachPid, SlotTypes, PlacesOwn, SlotsActive, DetachPlaces, DevPlaces
<1> QED BY <1>1, <1>2, <1>3

(* DetachCancel preserves the invariant.                                 *)
LEMMA KeepsDetachCancel ==
  ASSUME IInv, NEW a \in Actors, DetachCancel(a)
  PROVE  IInv'
<1> USE DEF IInv, Goto, slotVars, threadVars, Actors
<1>0. Dev \notin Users /\ None \notin Receivers
  BY ConstantsAssumption
<1>1. SlotTypes'
  BY <1>0 DEF DetachCancel, SlotTypes, UserPlaces, DetachPlaces, DevPlaces
<1>2. PlacesOwn'
  BY <1>0 DEF DetachCancel, SlotTypes, PlacesOwn, UserPlaces, DetachPlaces, DevPlaces
<1>3. SlotsActive'
  BY <1>0 DEF DetachCancel, SlotTypes, PlacesOwn, SlotsActive, DetachPlaces, DevPlaces
<1> QED BY <1>1, <1>2, <1>3

(* DevOpen preserves the invariant.                                      *)
LEMMA KeepsDevOpen ==
  ASSUME IInv, DevOpen
  PROVE  IInv'
<1> USE DEF IInv, Goto, slotVars, threadVars, Actors
<1>0. Dev \notin Users /\ None \notin Receivers
  BY ConstantsAssumption
<1>1. SlotTypes'
  BY <1>0 DEF DevOpen, SlotTypes, UserPlaces, DetachPlaces, DevPlaces
<1>2. PlacesOwn'
  BY <1>0 DEF DevOpen, SlotTypes, PlacesOwn, UserPlaces, DetachPlaces, DevPlaces
<1>3. SlotsActive'
  BY <1>0 DEF DevOpen, SlotTypes, PlacesOwn, SlotsActive, DetachPlaces, DevPlaces
<1> QED BY <1>1, <1>2, <1>3

(* DevLoop preserves the invariant.                                      *)
LEMMA KeepsDevLoop ==
  ASSUME IInv, DevLoop
  PROVE  IInv'
<1> USE DEF IInv, Goto, slotVars, threadVars, Actors
<1>0. Dev \notin Users /\ None \notin Receivers
  BY ConstantsAssumption
<1>1. SlotTypes'
  BY <1>0 DEF DevLoop, SlotTypes, UserPlaces, DetachPlaces, DevPlaces
<1>2. PlacesOwn'
  BY <1>0 DEF DevLoop, SlotTypes, PlacesOwn, UserPlaces, DetachPlaces, DevPlaces
<1>3. SlotsActive'
  BY <1>0 DEF DevLoop, SlotTypes, PlacesOwn, SlotsActive, DetachPlaces, DevPlaces
<1> QED BY <1>1, <1>2, <1>3

(* DevReceive preserves the invariant.                                   *)
LEMMA KeepsDevReceive ==
  ASSUME IInv, NEW r \in Receivers \cup {None}, DevReceive(r)
  PROVE  IInv'
<1> USE DEF IInv, Goto, slotVars, threadVars, Actors
<1>0. Dev \notin Users /\ None \notin Receivers
  BY ConstantsAssumption
<1>1. SlotTypes'
  BY <1>0 DEF DevReceive, AtSlot, SlotTypes, UserPlaces, DetachPlaces, DevPlaces
<1>2. PlacesOwn'
  BY <1>0 DEF DevReceive, AtSlot, SlotTypes, PlacesOwn, UserPlaces, DetachPlaces, DevPlaces
<1>3. SlotsActive'
  BY <1>0 DEF DevReceive, AtSlot, SlotTypes, PlacesOwn, SlotsActive, DetachPlaces, DevPlaces
<1> QED BY <1>1, <1>2, <1>3

(* DevScrambled preserves the invariant.                                 *)
LEMMA KeepsDevScrambled ==
  ASSUME IInv, NEW r \in Scrambled, DevScrambled(r)
  PROVE  IInv'
<1> USE DEF IInv, Goto, slotVars, threadVars, Actors
<1>0. /\ Dev \notin Users /\ None \notin Receivers
     /\ r \in Receivers
  BY ConstantsAssumption
<1>1. SlotTypes'
  BY <1>0 DEF DevScrambled, AtSlot, SlotTypes, UserPlaces, DetachPlaces, DevPlaces
<1>2. PlacesOwn'
  BY <1>0 DEF DevScrambled, AtSlot, SlotTypes, PlacesOwn, UserPlaces, DetachPlaces, DevPlaces
<1>3. SlotsActive'
  BY <1>0 DEF DevScrambled, AtSlot, SlotTypes, PlacesOwn, SlotsActive, DetachPlaces, DevPlaces
<1> QED BY <1>1, <1>2, <1>3

(* DevDelivered preserves the invariant.                                 *)
LEMMA KeepsDevDelivered ==
  ASSUME IInv, DevDelivered
  PROVE  IInv'
<1> USE DEF IInv, Goto, slotVars, threadVars, Actors
<1>0. Dev \notin Users /\ None \notin Receivers
  BY ConstantsAssumption
<1>1. SlotTypes'
  BY <1>0 DEF DevDelivered, SlotTypes, UserPlaces, DetachPlaces, DevPlaces
<1>2. PlacesOwn'
  BY <1>0 DEF DevDelivered, SlotTypes, PlacesOwn, UserPlaces, DetachPlaces, DevPlaces
<1>3. SlotsActive'
  BY <1>0 DEF DevDelivered, SlotTypes, PlacesOwn, SlotsActive, DetachPlaces, DevPlaces
<1> QED BY <1>1, <1>2, <1>3

(* DevEnded preserves the invariant.                                     *)
LEMMA KeepsDevEnded ==
  ASSUME IInv, DevEnded
  PROVE  IInv'
<1> USE DEF IInv, Goto, slotVars, threadVars, Actors
<1>0. Dev \notin Users /\ None \notin Receivers
  BY ConstantsAssumption
<1>1. SlotTypes'
  BY <1>0 DEF DevEnded, SlotTypes, UserPlaces, DetachPlaces, DevPlaces
<1>2. PlacesOwn'
  BY <1>0 DEF DevEnded, SlotTypes, PlacesOwn, UserPlaces, DetachPlaces, DevPlaces
<1>3. SlotsActive'
  BY <1>0 DEF DevEnded, SlotTypes, PlacesOwn, SlotsActive, DetachPlaces, DevPlaces
<1> QED BY <1>1, <1>2, <1>3

(* Every step preserves the invariant.                                     *)
LEMMA Step == IInv /\ [Next]_vars => IInv'
<1> SUFFICES ASSUME IInv, [Next]_vars
             PROVE  IInv'
  OBVIOUS
<1>1. ASSUME NEW a \in Actors, Detaching(a)
      PROVE  IInv'
  BY <1>1, KeepsDetachClear, KeepsDetachDeactivate, KeepsDetachPid,
     KeepsDetachCancel DEF Detaching
<1>2. ASSUME NEW u \in Users, Call(u) \/ User(u)
      PROVE  IInv'
  <2>1. u \in Actors
    BY DEF Actors
  <2> QED
    BY <1>1, <1>2, <2>1, KeepsAttachCall, KeepsAttachPid, KeepsAttachUndo,
       KeepsAttachSlot, KeepsAttachStart, KeepsDetachCall, KeepsDetachAllCall,
       KeepsDetachAllNext DEF Call, User
<1>3. CASE Device
  <2>1. Dev \in Actors
    BY DEF Actors
  <2> QED
    BY <1>1, <1>3, <2>1, KeepsDevOpen, KeepsDevLoop, KeepsDevReceive,
       KeepsDevScrambled, KeepsDevDelivered, KeepsDevEnded DEF Device
<1>4. CASE UNCHANGED vars
  BY <1>4 DEF vars, IInv, SlotTypes, PlacesOwn, SlotsActive
<1> QED BY <1>2, <1>3, <1>4 DEF Next

(* Receive() is called only between Activate(true) and Activate(false) of  *)
(* the receiver, whoever else is attached or detached meanwhile.           *)
THEOREM OnlyActiveReceive == Spec => ReceiveWhenActivated
<1>1. IInv /\ [Next]_vars =>
        [\A r \in Receivers : DevReceive(r) => r \in activated]_vars
  <2> SUFFICES ASSUME IInv, NEW r \in Receivers, DevReceive(r)
               PROVE  r \in activated
    OBVIOUS
  <2>1. pos[Dev] \in 1..Slots /\ slot[pos[Dev]] = r
    BY DEF DevReceive, AtSlot, IInv, SlotTypes, PlacesOwn, Actors
  <2>2. r # None
    BY ConstantsAssumption
  <2> QED BY <2>1, <2>2 DEF IInv, SlotsActive
<1> QED BY InitOk, Step, <1>1, PTL DEF Spec, ReceiveWhenActivated

-----------------------------------------------------------------------------
(* The counts of the PIDs, with one thread that attaches and detaches.     *)
OneUser == \A u, v \in Users : u = v

OwnPids ==
  \A r \in Receivers : \A i, j \in 1..Len(PidsOf[r]) :
    PidsOf[r][i] = PidsOf[r][j] => i = j

ClaimPlaces == {"attach", "undo", "delPids"}

(* Where the threads are, and what their receivers are then.               *)
PlacesKnown ==
  /\ active <=> pc[Dev] # "off"
  /\ arg[Dev] \in Scrambled \cup {None}
  /\ \A a \in Actors : pc[a] \in DetachPlaces => pos[a] <= Slots
  /\ \A u \in Users : pc[u] \in UserPlaces \ {"all"} => pos[u] = 0
  /\ \A a \in Actors :
       IF pc[a] \in ClaimPlaces
       THEN arg[a] \in Receivers /\ n[a] <= Len(PidsOf[arg[a]])
       ELSE n[a] = 0
  /\ \A a \in Actors : pc[a] \in {"delPids", "cancel"} => arg[a] \notin device
  /\ \A u \in Users : pc[u] \in {"clear", "deactivate"} /\ arg[u] \notin Scrambled
                        => arg[u] \in device

(* The receivers a PID is counted for, if the CAM drops none of them.      *)
Clear(p) == \A r \in Scrambled : ~Has(r, p)

Claimants(p) == {r \in Receivers : Claims(r, p)}

Counted ==
  \A p \in Pids : Clear(p) =>
    IsFiniteSet(Claimants(p)) /\ used[p] = Cardinality(Claimants(p))

(* A PID of a receiver that is counted for it, and one it has been given.  *)
ClaimBy(a, r, i) ==
  arg[a] = r /\ (\/ pc[a] \in {"attach", "undo"} /\ i <= n[a]
                 \/ pc[a] = "delPids" /\ i > n[a])

Mine(r, i) == r \in device \/ \E a \in Actors : ClaimBy(a, r, i)

Held(r, i) ==
  r \in device \/ \E a \in Actors : arg[a] = r /\ pc[a] = "attach" /\ i <= n[a]

(* A receiver the CAM may drop has its own PIDs once it has added them.    *)
Fed ==
  \A r \in Scrambled : \A i \in 1..Len(PidsOf[r]) :
    Unshared(PidsOf[r][i]) /\ Held(r, i) => used[PidsOf[r][i]] > 0

CountInv == IInv /\ TypeOK /\ PlacesKnown /\ Counted /\ Fed

LEMMA PidIs ==
  ASSUME NEW r \in Receivers, NEW i \in 1..Len(PidsOf[r])
  PROVE  PidsOf[r][i] \in Pids /\ Has(r, PidsOf[r][i]) /\ i \in Nat
BY ConstantsAssumption DEF Has

LEMMA ClaimsAre ==
  ASSUME NEW r, NEW p
  PROVE  /\ Claims(r, p) <=>
              \E i \in 1..Len(PidsOf[r]) : PidsOf[r][i] = p /\ Mine(r, i)
         /\ Claims(r, p)' <=>
              \E i \in 1..Len(PidsOf[r]) : PidsOf[r][i] = p /\ Mine(r, i)'
BY DEF Claims, Mine, ClaimBy

(* A step after which each receiver has what it had.                       *)
LEMMA QuietCounts ==
  ASSUME Counted, Fed, used' = used,
         \A r \in Receivers : \A i \in 1..Len(PidsOf[r]) :
           /\ Clear(PidsOf[r][i]) => (Mine(r, i)' <=> Mine(r, i))
           /\ Held(r, i)' => Held(r, i)
  PROVE  Counted' /\ Fed'
<1>1. \A p \in Pids : Clear(p) => Claimants(p)' = Claimants(p)
  BY ClaimsAre DEF Claimants
<1>2. Counted'
  BY <1>1 DEF Counted
<1>3. Fed'
  BY ConstantsAssumption DEF Fed
<1> QED BY <1>2, <1>3

(* One PID of one receiver comes to be counted, or ceases to be.           *)
LEMMA CountsAdd ==
  ASSUME OwnPids, TypeOK, Counted, NEW r \in Receivers,
         NEW k \in 1..Len(PidsOf[r]), AddPid(PidsOf[r][k]),
         ~Mine(r, k),
         \A s \in Receivers : \A i \in 1..Len(PidsOf[s]) :
           Mine(s, i)' <=> Mine(s, i) \/ (s = r /\ i = k)
  PROVE  Counted'
<1> SUFFICES ASSUME NEW p \in Pids, Clear(p)
             PROVE  /\ IsFiniteSet(Claimants(p)')
                    /\ used'[p] = Cardinality(Claimants(p)')
  BY DEF Counted
<1>1. IsFiniteSet(Claimants(p)) /\ used[p] = Cardinality(Claimants(p))
  BY DEF Counted
<1>2. CASE p = PidsOf[r][k]
  <2>1. Claimants(p)' = Claimants(p) \cup {r}
    BY <1>2, ClaimsAre DEF Claimants
  <2>2. r \notin Claimants(p)
    BY <1>2, ClaimsAre DEF Claimants, OwnPids
  <2>3. used'[p] = used[p] + 1
    BY <1>2 DEF AddPid, TypeOK
  <2> QED BY <1>1, <2>1, <2>2, <2>3, FS_AddElement
<1>3. CASE p # PidsOf[r][k]
  <2>1. Claimants(p)' = Claimants(p)
    BY <1>3, ClaimsAre DEF Claimants
  <2>2. used'[p] = used[p]
    BY <1>3 DEF AddPid, TypeOK
  <2> QED BY <1>1, <2>1, <2>2
<1> QED BY <1>2, <1>3

LEMMA CountsDel ==
  ASSUME OwnPids, TypeOK, Counted, NEW r \in Receivers,
         NEW k \in 1..Len(PidsOf[r]), DelPid(PidsOf[r][k]),
         Clear(PidsOf[r][k]) => Mine(r, k),
         \A s \in Receivers : \A i \in 1..Len(PidsOf[s]) :
           Clear(PidsOf[s][i]) =>
             (Mine(s, i)' <=> Mine(s, i) /\ ~(s = r /\ i = k))
  PROVE  Counted'
<1> SUFFICES ASSUME NEW p \in Pids, Clear(p)
             PROVE  /\ IsFiniteSet(Claimants(p)')
                    /\ used'[p] = Cardinality(Claimants(p)')
  BY DEF Counted
<1>1. IsFiniteSet(Claimants(p)) /\ used[p] = Cardinality(Claimants(p))
  BY DEF Counted
<1>2. CASE p = PidsOf[r][k]
  <2>1. Claimants(p)' = Claimants(p) \ {r}
    BY <1>2, ClaimsAre DEF Claimants, OwnPids
  <2>2. r \in Claimants(p)
    BY <1>2, ClaimsAre DEF Claimants
  <2>3. used[p] # 0 /\ used[p] \in Nat
    BY <1>1, <2>2, FS_EmptySet DEF TypeOK
  <2>4. used'[p] = used[p] - 1
    BY <1>2, <2>3 DEF DelPid, TypeOK
  <2> QED BY <1>1, <2>1, <2>2, <2>4, FS_RemoveElement
<1>3. CASE p # PidsOf[r][k]
  <2>1. Claimants(p)' = Claimants(p)
    BY <1>3, ClaimsAre DEF Claimants
  <2>2. used'[p] = used[p]
    BY <1>3 DEF DelPid, TypeOK
  <2> QED BY <1>1, <2>1, <2>2
<1> QED BY <1>2, <1>3

(* The receiver whose PID goes does not have it any more.                  *)
LEMMA FedDel ==
  ASSUME TypeOK, Fed, NEW r \in Receivers,
         NEW k \in 1..Len(PidsOf[r]), DelPid(PidsOf[r][k]),
         \A s \in Receivers : \A i \in 1..Len(PidsOf[s]) :
           Held(s, i)' => Held(s, i) /\ s # r
  PROVE  Fed'
<1> SUFFICES ASSUME NEW s \in Scrambled, NEW i \in 1..Len(PidsOf[s]),
                    Unshared(PidsOf[s][i]), Held(s, i)'
             PROVE  used'[PidsOf[s][i]] > 0
  BY DEF Fed
<1>1. s \in Receivers
  BY ConstantsAssumption
<1>2. PidsOf[s][i] # PidsOf[r][k]
  BY <1>1, PidIs DEF Unshared
<1>3. used[PidsOf[s][i]] > 0 /\ PidsOf[s][i] \in Pids
  BY <1>1, PidIs DEF Fed
<1> QED BY <1>2, <1>3 DEF DelPid, TypeOK

LEMMA PidTypes ==
  ASSUME TypeOK
  PROVE  /\ \A p : AddPid(p) => used' \in [Pids -> Nat]
         /\ \A p : DelPid(p) => used' \in [Pids -> Nat]
<1>1. ASSUME NEW p, AddPid(p)
      PROVE  used' \in [Pids -> Nat]
  <2>1. p \in Pids => used[p] + 1 \in Nat
    BY DEF TypeOK
  <2> QED BY <1>1, <2>1 DEF AddPid, TypeOK
<1>2. ASSUME NEW p, DelPid(p)
      PROVE  used' \in [Pids -> Nat]
  <2>1. p \in Pids => (IF used[p] > 0 THEN used[p] - 1 ELSE 0) \in Nat
    BY DEF TypeOK
  <2> QED BY <1>2, <2>1 DEF DelPid, TypeOK
<1> QED BY <1>1, <1>2

LEMMA PlacesAttachCall ==
  ASSUME OneUser, IInv, TypeOK, PlacesKnown, NEW u \in Users, NEW r \in Receivers, AttachCall(u, r)
  PROVE  TypeOK' /\ PlacesKnown'
<1> USE DEF Goto, slotVars, threadVars, Actors
<1>0. /\ Dev \notin Users /\ None \notin Users \cup {Dev} \cup Receivers
      /\ Scrambled \subseteq Receivers /\ Slots \in Nat \ {0}
      /\ PidsOf \in [Receivers -> Seq(Pids)]
  BY ConstantsAssumption
<1>1. TypeOK'
  BY <1>0 DEF AttachCall, IInv, SlotTypes, PlacesOwn, SlotsActive, TypeOK, PlacesKnown,
     UserPlaces, DetachPlaces, DevPlaces, ClaimPlaces
<1>2. PlacesKnown'
  BY <1>0 DEF AttachCall, IInv, SlotTypes, PlacesOwn, SlotsActive, TypeOK, PlacesKnown,
     UserPlaces, DetachPlaces, DevPlaces, ClaimPlaces, OneUser
<1> QED BY <1>1, <1>2

LEMMA PlacesAttachPid ==
  ASSUME OneUser, IInv, TypeOK, PlacesKnown, NEW u \in Users, AttachPid(u)
  PROVE  TypeOK' /\ PlacesKnown'
<1> USE DEF Goto, slotVars, threadVars, Actors
<1>0. /\ Dev \notin Users /\ None \notin Users \cup {Dev} \cup Receivers
      /\ Scrambled \subseteq Receivers /\ Slots \in Nat \ {0}
      /\ PidsOf \in [Receivers -> Seq(Pids)]
  BY ConstantsAssumption
<1>1. TypeOK'
  <2>1. used' \in [Pids -> Nat]
    BY PidTypes DEF AttachPid, TypeOK
  <2>2. n' \in [Actors -> Nat]
    BY DEF AttachPid, TypeOK
  <2>3. pc' \in [Actors -> UserPlaces \cup DetachPlaces \cup DevPlaces]
    BY DEF AttachPid, TypeOK, UserPlaces
  <2> QED BY <2>1, <2>2, <2>3 DEF AttachPid, TypeOK
<1>2. PlacesKnown'
  BY <1>0 DEF AttachPid, AddPid, IInv, SlotTypes, PlacesOwn, SlotsActive, TypeOK, PlacesKnown,
     UserPlaces, DetachPlaces, DevPlaces, ClaimPlaces, OneUser
<1> QED BY <1>1, <1>2

LEMMA PlacesAttachUndo ==
  ASSUME OneUser, IInv, TypeOK, PlacesKnown, NEW u \in Users, AttachUndo(u)
  PROVE  TypeOK' /\ PlacesKnown'
<1> USE DEF Goto, slotVars, threadVars, Actors
<1>0. /\ Dev \notin Users /\ None \notin Users \cup {Dev} \cup Receivers
      /\ Scrambled \subseteq Receivers /\ Slots \in Nat \ {0}
      /\ PidsOf \in [Receivers -> Seq(Pids)]
  BY ConstantsAssumption
<1>1. TypeOK'
  <2>1. used' \in [Pids -> Nat]
    BY PidTypes DEF AttachUndo, TypeOK
  <2>2. n[u] # 0 => n[u] - 1 \in Nat
    BY DEF TypeOK
  <2>3. n' \in [Actors -> Nat]
    BY <2>2 DEF AttachUndo, Undone, TypeOK
  <2>4. /\ pc' \in [Actors -> UserPlaces \cup DetachPlaces \cup DevPlaces]
        /\ mutexReceiver' \in Actors \cup {None}
        /\ arg' \in [Actors -> Receivers \cup {None}]
    BY DEF AttachUndo, TypeOK, UserPlaces
  <2> QED BY <2>1, <2>3, <2>4 DEF AttachUndo, TypeOK
<1>2. PlacesKnown'
  BY <1>0 DEF AttachUndo, DelPid, Undone, IInv, SlotTypes, PlacesOwn, SlotsActive, TypeOK, PlacesKnown,
     UserPlaces, DetachPlaces, DevPlaces, ClaimPlaces, OneUser
<1> QED BY <1>1, <1>2

LEMMA PlacesAttachSlot ==
  ASSUME OneUser, IInv, TypeOK, PlacesKnown, NEW u \in Users, AttachSlot(u)
  PROVE  TypeOK' /\ PlacesKnown'
<1> USE DEF Goto, slotVars, threadVars, Actors
<1>0. /\ Dev \notin Users /\ None \notin Users \cup {Dev} \cup Receivers
      /\ Scrambled \subseteq Receivers /\ Slots \in Nat \ {0}
      /\ PidsOf \in [Receivers -> Seq(Pids)]
  BY ConstantsAssumption
<1>1. TypeOK'
  BY <1>0 DEF AttachSlot, IInv, SlotTypes, PlacesOwn, SlotsActive, TypeOK, PlacesKnown,
     UserPlaces, DetachPlaces, DevPlaces, ClaimPlaces
<1>2. PlacesKnown'
  BY <1>0 DEF AttachSlot, IInv, SlotTypes, PlacesOwn, SlotsActive, TypeOK, PlacesKnown,
     UserPlaces, DetachPlaces, DevPlaces, ClaimPlaces, OneUser
<1> QED BY <1>1, <1>2

LEMMA PlacesAttachStart ==
  ASSUME OneUser, IInv, TypeOK, PlacesKnown, NEW u \in Users, AttachStart(u)
  PROVE  TypeOK' /\ PlacesKnown'
<1> USE DEF Goto, slotVars, threadVars, Actors
<1>0. /\ Dev \notin Users /\ None \notin Users \cup {Dev} \cup Receivers
      /\ Scrambled \subseteq Receivers /\ Slots \in Nat \ {0}
      /\ PidsOf \in [Receivers -> Seq(Pids)]
  BY ConstantsAssumption
<1>1. TypeOK'
  BY <1>0 DEF AttachStart, IInv, SlotTypes, PlacesOwn, SlotsActive, TypeOK, PlacesKnown,
     UserPlaces, DetachPlaces, DevPlaces, ClaimPlaces
<1>2. PlacesKnown'
  BY <1>0 DEF AttachStart, IInv, SlotTypes, PlacesOwn, SlotsActive, TypeOK, PlacesKnown,
     UserPlaces, DetachPlaces, DevPlaces, ClaimPlaces, OneUser
<1> QED BY <1>1, <1>2

LEMMA PlacesDetachCall ==
  ASSUME OneUser, IInv, TypeOK, PlacesKnown, NEW u \in Users, NEW r \in Receivers, DetachCall(u, r)
  PROVE  TypeOK' /\ PlacesKnown'
<1> USE DEF Goto, slotVars, threadVars, Actors
<1>0. /\ Dev \notin Users /\ None \notin Users \cup {Dev} \cup Receivers
      /\ Scrambled \subseteq Receivers /\ Slots \in Nat \ {0}
      /\ PidsOf \in [Receivers -> Seq(Pids)]
  BY ConstantsAssumption
<1>1. TypeOK'
  BY <1>0 DEF DetachCall, IInv, SlotTypes, PlacesOwn, SlotsActive, TypeOK, PlacesKnown,
     UserPlaces, DetachPlaces, DevPlaces, ClaimPlaces
<1>2. PlacesKnown'
  <2>1. /\ arg' = [arg EXCEPT ![u] = r] /\ pc' = [pc EXCEPT ![u] = "clear"]
        /\ pc[u] = "idle" /\ r \in device /\ pos[u] = 0
        /\ UNCHANGED <<device, active, n, pos>>
    BY DEF DetachCall, PlacesKnown, UserPlaces
  <2>2. /\ active' <=> pc'[Dev] # "off"
        /\ arg'[Dev] \in Scrambled \cup {None}
    BY <1>0, <2>1 DEF TypeOK, PlacesKnown
  <2>3. /\ \A a \in Actors : pc'[a] \in DetachPlaces => pos'[a] <= Slots
        /\ \A v \in Users : pc'[v] \in UserPlaces \ {"all"} => pos'[v] = 0
    BY <1>0, <2>1 DEF TypeOK, PlacesKnown, UserPlaces, DetachPlaces
  <2>4. \A a \in Actors :
          IF pc'[a] \in ClaimPlaces
          THEN arg'[a] \in Receivers /\ n'[a] <= Len(PidsOf[arg'[a]])
          ELSE n'[a] = 0
    BY <1>0, <2>1 DEF TypeOK, PlacesKnown, ClaimPlaces
  <2>5. /\ \A a \in Actors : pc'[a] \in {"delPids", "cancel"} => arg'[a] \notin device'
        /\ \A v \in Users :
             pc'[v] \in {"clear", "deactivate"} /\ arg'[v] \notin Scrambled
               => arg'[v] \in device'
    BY <1>0, <2>1 DEF TypeOK, PlacesKnown
  <2> QED BY <2>2, <2>3, <2>4, <2>5 DEF PlacesKnown
<1> QED BY <1>1, <1>2

LEMMA PlacesDetachAllCall ==
  ASSUME OneUser, IInv, TypeOK, PlacesKnown, NEW u \in Users, DetachAllCall(u)
  PROVE  TypeOK' /\ PlacesKnown'
<1> USE DEF Goto, slotVars, threadVars, Actors
<1>0. /\ Dev \notin Users /\ None \notin Users \cup {Dev} \cup Receivers
      /\ Scrambled \subseteq Receivers /\ Slots \in Nat \ {0}
      /\ PidsOf \in [Receivers -> Seq(Pids)]
  BY ConstantsAssumption
<1>1. TypeOK'
  BY <1>0 DEF DetachAllCall, IInv, SlotTypes, PlacesOwn, SlotsActive, TypeOK, PlacesKnown,
     UserPlaces, DetachPlaces, DevPlaces, ClaimPlaces
<1>2. PlacesKnown'
  BY <1>0 DEF DetachAllCall, IInv, SlotTypes, PlacesOwn, SlotsActive, TypeOK, PlacesKnown,
     UserPlaces, DetachPlaces, DevPlaces, ClaimPlaces, OneUser
<1> QED BY <1>1, <1>2

LEMMA PlacesDetachAllNext ==
  ASSUME OneUser, IInv, TypeOK, PlacesKnown, NEW u \in Users, DetachAllNext(u)
  PROVE  TypeOK' /\ PlacesKnown'
<1> USE DEF Goto, slotVars, threadVars, Actors
<1>0. /\ Dev \notin Users /\ None \notin Users \cup {Dev} \cup Receivers
      /\ Scrambled \subseteq Receivers /\ Slots \in Nat \ {0}
      /\ PidsOf \in [Receivers -> Seq(Pids)]
  BY ConstantsAssumption
<1>1. TypeOK'
  <2>1. pos[u] \in 1..Slots + 1
    BY <1>0 DEF DetachAllNext, IInv, PlacesOwn, TypeOK
  <2>2. CASE pos[u] > Slots
    <3>1. /\ pc' \in [Actors -> UserPlaces \cup DetachPlaces \cup DevPlaces]
          /\ pos' \in [Actors -> 0..Slots + 1]
          /\ mutexReceiver' = None /\ arg' = arg
      <4>1. /\ pc' = [pc EXCEPT ![u] = "idle"] /\ pos' = [pos EXCEPT ![u] = 0]
            /\ mutexReceiver' = None /\ arg' = arg
        BY <2>2 DEF DetachAllNext
      <4>2. 0 \in 0..Slots + 1
        BY <1>0
      <4> QED BY <4>1, <4>2 DEF TypeOK, UserPlaces
    <3> QED BY <3>1 DEF DetachAllNext, TypeOK
  <2>3. CASE ~(pos[u] > Slots)
    <3>1. pos[u] \in 1..Slots /\ slot[pos[u]] \in Receivers \cup {None}
      BY <1>0, <2>1, <2>3 DEF TypeOK
    <3>2. mutexReceiver' = mutexReceiver
      BY <2>3 DEF DetachAllNext
    <3>3. CASE slot[pos[u]] = None
      <4>1. pos' = [pos EXCEPT ![u] = @ + 1] /\ pc' = pc /\ arg' = arg
        BY <2>3, <3>3 DEF DetachAllNext
      <4>2. pos[u] + 1 \in 0..Slots + 1
        BY <1>0, <3>1
      <4>3. pos' \in [Actors -> 0..Slots + 1]
        BY <4>1, <4>2 DEF TypeOK
      <4> QED BY <3>2, <4>1, <4>3 DEF DetachAllNext, TypeOK
    <3>4. CASE slot[pos[u]] # None
      <4>1. /\ arg' \in [Actors -> Receivers \cup {None}]
            /\ pc' \in [Actors -> UserPlaces \cup DetachPlaces \cup DevPlaces]
            /\ pos' = pos
        BY <2>3, <3>1, <3>4 DEF DetachAllNext, TypeOK, DetachPlaces
      <4> QED BY <3>2, <4>1 DEF DetachAllNext, TypeOK
    <3> QED BY <3>3, <3>4
  <2> QED BY <2>2, <2>3
<1>2. PlacesKnown'
  BY <1>0 DEF DetachAllNext, IInv, SlotTypes, PlacesOwn, SlotsActive, TypeOK, PlacesKnown,
     UserPlaces, DetachPlaces, DevPlaces, ClaimPlaces, OneUser
<1> QED BY <1>1, <1>2

LEMMA PlacesDetachClear ==
  ASSUME OneUser, IInv, TypeOK, PlacesKnown, NEW a \in Actors, DetachClear(a)
  PROVE  TypeOK' /\ PlacesKnown'
<1> USE DEF Goto, slotVars, threadVars, Actors
<1>0. /\ Dev \notin Users /\ None \notin Users \cup {Dev} \cup Receivers
      /\ Scrambled \subseteq Receivers /\ Slots \in Nat \ {0}
      /\ PidsOf \in [Receivers -> Seq(Pids)]
  BY ConstantsAssumption
<1>1. TypeOK'
  BY <1>0 DEF DetachClear, Cleared, OthersLeft, IInv, SlotTypes, PlacesOwn, SlotsActive, TypeOK, PlacesKnown,
     UserPlaces, DetachPlaces, DevPlaces, ClaimPlaces
<1>2. PlacesKnown'
  BY <1>0 DEF DetachClear, Cleared, OthersLeft, IInv, SlotTypes, PlacesOwn, SlotsActive, TypeOK, PlacesKnown,
     UserPlaces, DetachPlaces, DevPlaces, ClaimPlaces, OneUser
<1> QED BY <1>1, <1>2

LEMMA PlacesDetachDeactivate ==
  ASSUME OneUser, IInv, TypeOK, PlacesKnown, NEW a \in Actors, DetachDeactivate(a)
  PROVE  TypeOK' /\ PlacesKnown'
<1> USE DEF Goto, slotVars, threadVars, Actors
<1>0. /\ Dev \notin Users /\ None \notin Users \cup {Dev} \cup Receivers
      /\ Scrambled \subseteq Receivers /\ Slots \in Nat \ {0}
      /\ PidsOf \in [Receivers -> Seq(Pids)]
  BY ConstantsAssumption
<1>1. TypeOK'
  BY <1>0 DEF DetachDeactivate, IInv, SlotTypes, PlacesOwn, SlotsActive, TypeOK, PlacesKnown,
     UserPlaces, DetachPlaces, DevPlaces, ClaimPlaces
<1>2. PlacesKnown'
  BY <1>0 DEF DetachDeactivate, IInv, SlotTypes, PlacesOwn, SlotsActive, TypeOK, PlacesKnown,
     UserPlaces, DetachPlaces, DevPlaces, ClaimPlaces, OneUser
<1> QED BY <1>1, <1>2

LEMMA PlacesDetachPid ==
  ASSUME OneUser, IInv, TypeOK, PlacesKnown, NEW a \in Actors, DetachPid(a)
  PROVE  TypeOK' /\ PlacesKnown'
<1> USE DEF Goto, slotVars, threadVars, Actors
<1>0. /\ Dev \notin Users /\ None \notin Users \cup {Dev} \cup Receivers
      /\ Scrambled \subseteq Receivers /\ Slots \in Nat \ {0}
      /\ PidsOf \in [Receivers -> Seq(Pids)]
  BY ConstantsAssumption
<1>1. TypeOK'
  <2>1. used' \in [Pids -> Nat]
    BY PidTypes DEF DetachPid, TypeOK
  <2>2. n' \in [Actors -> Nat]
    BY DEF DetachPid, TypeOK
  <2>3. pc' \in [Actors -> UserPlaces \cup DetachPlaces \cup DevPlaces]
    BY DEF DetachPid, TypeOK, DetachPlaces
  <2> QED BY <2>1, <2>2, <2>3 DEF DetachPid, TypeOK
<1>2. PlacesKnown'
  BY <1>0 DEF DetachPid, DelPid, IInv, SlotTypes, PlacesOwn, SlotsActive, TypeOK, PlacesKnown,
     UserPlaces, DetachPlaces, DevPlaces, ClaimPlaces, OneUser
<1> QED BY <1>1, <1>2

LEMMA PlacesDetachCancel ==
  ASSUME OneUser, IInv, TypeOK, PlacesKnown, NEW a \in Actors, DetachCancel(a)
  PROVE  TypeOK' /\ PlacesKnown'
<1> USE DEF Goto, slotVars, threadVars, Actors
<1>0. /\ Dev \notin Users /\ None \notin Users \cup {Dev} \cup Receivers
      /\ Scrambled \subseteq Receivers /\ Slots \in Nat \ {0}
      /\ PidsOf \in [Receivers -> Seq(Pids)]
  BY ConstantsAssumption
<1>1. TypeOK'
  <2>1. pos[a] \in 0..Slots
    BY <1>0 DEF DetachCancel, DetachPlaces, TypeOK, PlacesKnown
  <2>2. (running /\ left[a]) \in BOOLEAN
    OBVIOUS
  <2>3. running' \in BOOLEAN
    BY <2>2 DEF DetachCancel
  <2>4. pc' \in [Actors -> UserPlaces \cup DetachPlaces \cup DevPlaces]
    BY DEF DetachCancel, TypeOK, UserPlaces, DevPlaces
  <2>5. pos' \in [Actors -> 0..Slots + 1]
    <3>1. pos[a] + 1 \in 0..Slots + 1
      BY <1>0, <2>1
    <3>2. pos' = pos \/ pos' = [pos EXCEPT ![a] = @ + 1]
      BY DEF DetachCancel
    <3> QED BY <3>1, <3>2 DEF TypeOK
  <2>6. mutexReceiver' \in Actors \cup {None}
    BY DEF DetachCancel, TypeOK
  <2>7. arg' \in [Actors -> Receivers \cup {None}] /\ left' \in [Actors -> BOOLEAN]
    BY DEF DetachCancel, TypeOK
  <2> QED BY <2>3, <2>4, <2>5, <2>6, <2>7 DEF DetachCancel, TypeOK
<1>2. PlacesKnown'
  <2>1. /\ pc[a] = "cancel" /\ n[a] = 0
        /\ arg' = [arg EXCEPT ![a] = None]
        /\ UNCHANGED <<device, active, n>>
    BY DEF DetachCancel, PlacesKnown, ClaimPlaces
  <2>2. CASE pos[a] = 0
    <3>1. pc' = [pc EXCEPT ![a] = "idle"] /\ pos' = pos /\ a # Dev
      BY <1>0, <2>1, <2>2 DEF DetachCancel, IInv, PlacesOwn, DetachPlaces
    <3> QED BY <1>0, <2>1, <2>2, <3>1 DEF TypeOK, PlacesKnown, UserPlaces,
            DetachPlaces, ClaimPlaces
  <2>3. CASE pos[a] # 0
    <3>1. /\ pc' = [pc EXCEPT ![a] = IF a = Dev THEN "deliver" ELSE "all"]
          /\ pos' = [pos EXCEPT ![a] = @ + 1]
      BY <2>3 DEF DetachCancel
    <3> QED BY <1>0, <2>1, <3>1 DEF TypeOK, PlacesKnown, UserPlaces,
            DetachPlaces, ClaimPlaces
  <2> QED BY <2>2, <2>3
<1> QED BY <1>1, <1>2

LEMMA PlacesDevOpen ==
  ASSUME OneUser, IInv, TypeOK, PlacesKnown, DevOpen
  PROVE  TypeOK' /\ PlacesKnown'
<1> USE DEF Goto, slotVars, threadVars, Actors
<1>0. /\ Dev \notin Users /\ None \notin Users \cup {Dev} \cup Receivers
      /\ Scrambled \subseteq Receivers /\ Slots \in Nat \ {0}
      /\ PidsOf \in [Receivers -> Seq(Pids)]
  BY ConstantsAssumption
<1>1. TypeOK'
  BY <1>0 DEF DevOpen, IInv, SlotTypes, PlacesOwn, SlotsActive, TypeOK, PlacesKnown,
     UserPlaces, DetachPlaces, DevPlaces, ClaimPlaces
<1>2. PlacesKnown'
  BY <1>0 DEF DevOpen, IInv, SlotTypes, PlacesOwn, SlotsActive, TypeOK, PlacesKnown,
     UserPlaces, DetachPlaces, DevPlaces, ClaimPlaces, OneUser
<1> QED BY <1>1, <1>2

LEMMA PlacesDevLoop ==
  ASSUME OneUser, IInv, TypeOK, PlacesKnown, DevLoop
  PROVE  TypeOK' /\ PlacesKnown'
<1> USE DEF Goto, slotVars, threadVars, Actors
<1>0. /\ Dev \notin Users /\ None \notin Users \cup {Dev} \cup Receivers
      /\ Scrambled \subseteq Receivers /\ Slots \in Nat \ {0}
      /\ PidsOf \in [Receivers -> Seq(Pids)]
  BY ConstantsAssumption
<1>1. TypeOK'
  BY <1>0 DEF DevLoop, IInv, SlotTypes, PlacesOwn, SlotsActive, TypeOK, PlacesKnown,
     UserPlaces, DetachPlaces, DevPlaces, ClaimPlaces
<1>2. PlacesKnown'
  <2>1. /\ pc[Dev] = "loop"
        /\ \E place \in {"deliver", "ended"} : pc' = [pc EXCEPT ![Dev] = place]
        /\ \A u \in Users : pos'[u] = pos[u]
        /\ UNCHANGED <<device, active, arg, n>>
    BY <1>0 DEF DevLoop, TypeOK
  <2> QED BY <1>0, <2>1 DEF TypeOK, PlacesKnown, UserPlaces, DetachPlaces,
          ClaimPlaces
<1> QED BY <1>1, <1>2

LEMMA PlacesDevReceive ==
  ASSUME OneUser, IInv, TypeOK, PlacesKnown, NEW r \in Receivers \cup {None}, DevReceive(r)
  PROVE  TypeOK' /\ PlacesKnown'
<1> USE DEF Goto, slotVars, threadVars, Actors
<1>0. /\ Dev \notin Users /\ None \notin Users \cup {Dev} \cup Receivers
      /\ Scrambled \subseteq Receivers /\ Slots \in Nat \ {0}
      /\ PidsOf \in [Receivers -> Seq(Pids)]
  BY ConstantsAssumption
<1>1. TypeOK'
  BY <1>0 DEF DevReceive, AtSlot, IInv, SlotTypes, PlacesOwn, SlotsActive, TypeOK, PlacesKnown,
     UserPlaces, DetachPlaces, DevPlaces, ClaimPlaces
<1>2. PlacesKnown'
  BY <1>0 DEF DevReceive, AtSlot, IInv, SlotTypes, PlacesOwn, SlotsActive, TypeOK, PlacesKnown,
     UserPlaces, DetachPlaces, DevPlaces, ClaimPlaces, OneUser
<1> QED BY <1>1, <1>2

LEMMA PlacesDevScrambled ==
  ASSUME OneUser, IInv, TypeOK, PlacesKnown, NEW r \in Scrambled, DevScrambled(r)
  PROVE  TypeOK' /\ PlacesKnown'
<1> USE DEF Goto, slotVars, threadVars, Actors
<1>0. /\ Dev \notin Users /\ None \notin Users \cup {Dev} \cup Receivers
      /\ Scrambled \subseteq Receivers /\ Slots \in Nat \ {0}
      /\ PidsOf \in [Receivers -> Seq(Pids)]
  BY ConstantsAssumption
<1>1. TypeOK'
  BY <1>0 DEF DevScrambled, AtSlot, IInv, SlotTypes, PlacesOwn, SlotsActive, TypeOK, PlacesKnown,
     UserPlaces, DetachPlaces, DevPlaces, ClaimPlaces
<1>2. PlacesKnown'
  BY <1>0 DEF DevScrambled, AtSlot, IInv, SlotTypes, PlacesOwn, SlotsActive, TypeOK, PlacesKnown,
     UserPlaces, DetachPlaces, DevPlaces, ClaimPlaces, OneUser
<1> QED BY <1>1, <1>2

LEMMA PlacesDevDelivered ==
  ASSUME OneUser, IInv, TypeOK, PlacesKnown, DevDelivered
  PROVE  TypeOK' /\ PlacesKnown'
<1> USE DEF Goto, slotVars, threadVars, Actors
<1>0. /\ Dev \notin Users /\ None \notin Users \cup {Dev} \cup Receivers
      /\ Scrambled \subseteq Receivers /\ Slots \in Nat \ {0}
      /\ PidsOf \in [Receivers -> Seq(Pids)]
  BY ConstantsAssumption
<1>1. TypeOK'
  BY <1>0 DEF DevDelivered, IInv, SlotTypes, PlacesOwn, SlotsActive, TypeOK, PlacesKnown,
     UserPlaces, DetachPlaces, DevPlaces, ClaimPlaces
<1>2. PlacesKnown'
  BY <1>0 DEF DevDelivered, IInv, SlotTypes, PlacesOwn, SlotsActive, TypeOK, PlacesKnown,
     UserPlaces, DetachPlaces, DevPlaces, ClaimPlaces, OneUser
<1> QED BY <1>1, <1>2

LEMMA PlacesDevEnded ==
  ASSUME OneUser, IInv, TypeOK, PlacesKnown, DevEnded
  PROVE  TypeOK' /\ PlacesKnown'
<1> USE DEF Goto, slotVars, threadVars, Actors
<1>0. /\ Dev \notin Users /\ None \notin Users \cup {Dev} \cup Receivers
      /\ Scrambled \subseteq Receivers /\ Slots \in Nat \ {0}
      /\ PidsOf \in [Receivers -> Seq(Pids)]
  BY ConstantsAssumption
<1>1. TypeOK'
  BY <1>0 DEF DevEnded, IInv, SlotTypes, PlacesOwn, SlotsActive, TypeOK, PlacesKnown,
     UserPlaces, DetachPlaces, DevPlaces, ClaimPlaces
<1>2. PlacesKnown'
  BY <1>0 DEF DevEnded, IInv, SlotTypes, PlacesOwn, SlotsActive, TypeOK, PlacesKnown,
     UserPlaces, DetachPlaces, DevPlaces, ClaimPlaces, OneUser
<1> QED BY <1>1, <1>2

(* A thread that is at none of the three places claims nothing; nor does   *)
(* one about to attach.                                                    *)
LEMMA QuietThreads ==
  ASSUME TypeOK, Counted, Fed, UNCHANGED <<used, device>>,
         \A a \in Actors :
           \/ arg'[a] = arg[a] /\ pc'[a] = pc[a] /\ n'[a] = n[a]
           \/ /\ pc[a] \notin ClaimPlaces
              /\ pc'[a] \notin ClaimPlaces \/ (pc'[a] = "attach" /\ n'[a] = 0)
  PROVE  Counted' /\ Fed'
<1>1. ASSUME NEW r \in Receivers, NEW i \in 1..Len(PidsOf[r])
      PROVE  (Mine(r, i)' <=> Mine(r, i)) /\ (Held(r, i)' => Held(r, i))
  <2>1. ASSUME NEW a \in Actors
        PROVE  /\ ClaimBy(a, r, i)' <=> ClaimBy(a, r, i)
               /\ (arg[a] = r /\ pc[a] = "attach" /\ i <= n[a])'
                    => arg[a] = r /\ pc[a] = "attach" /\ i <= n[a]
    BY DEF ClaimBy, ClaimPlaces
  <2> QED BY <2>1 DEF Mine, Held
<1> QED BY <1>1, QuietCounts

LEMMA CountsAttachCall ==
  ASSUME CountInv, NEW u \in Users, NEW r \in Receivers, AttachCall(u, r)
  PROVE  Counted' /\ Fed'
<1>1. /\ used' = used /\ device' = device
      /\ pc[u] = "idle" /\ pc' = [pc EXCEPT ![u] = "attach"]
      /\ n' = [n EXCEPT ![u] = 0] /\ arg' = [arg EXCEPT ![u] = r]
  BY DEF AttachCall, Goto, slotVars
<1> QED BY <1>1, QuietThreads DEF CountInv, TypeOK, ClaimPlaces, Actors

LEMMA CountsAttachPid ==
  ASSUME OwnPids, CountInv, NEW u \in Users, AttachPid(u)
  PROVE  Counted' /\ Fed'
<1>1. PICK r, k : r = arg[u] /\ k = n[u] + 1
  OBVIOUS
<1>2. /\ r \in Receivers \ device /\ k \in 1..Len(PidsOf[r])
      /\ u \in Actors /\ \A v \in Actors \ {u} : arg[v] # r
      /\ pc[u] = "attach" /\ arg' = arg /\ device' = device
  <2>1. r \in Receivers => Len(PidsOf[r]) \in Nat
    BY ConstantsAssumption
  <2> QED BY <1>1, <2>1 DEF AttachPid, CountInv, IInv, SlotsActive, TypeOK,
             slotVars, Actors
<1>3. CASE AddPid(PidsOf[r][k]) /\ n' = [n EXCEPT ![u] = @ + 1] /\ pc' = pc
  <2>1. n'[u] = k /\ k = n[u] + 1 /\ n[u] \in Nat
    BY <1>1, <1>2, <1>3 DEF CountInv, TypeOK
  <2>2. ~Mine(r, k)
    BY <1>2, <2>1 DEF Mine, ClaimBy
  <2>3. ASSUME NEW s \in Receivers, NEW i \in 1..Len(PidsOf[s])
        PROVE  /\ Mine(s, i)' <=> Mine(s, i) \/ (s = r /\ i = k)
               /\ Held(s, i)' => Held(s, i) \/ (s = r /\ i = k)
    <3>1. CASE s = r
      <4>1. \A a \in Actors : ClaimBy(a, s, i) <=> a = u /\ i <= n[u]
        BY <1>1, <1>2, <3>1 DEF ClaimBy
      <4>2. \A a \in Actors : ClaimBy(a, s, i)' <=> a = u /\ i <= k
        BY <1>1, <1>2, <1>3, <2>1, <3>1 DEF ClaimBy
      <4>3. s \notin device
        BY <1>2, <3>1
      <4>4. i <= k <=> i <= n[u] \/ i = k
        BY <2>1, <3>1
      <4>5. Mine(s, i)' <=> Mine(s, i) \/ i = k
        BY <1>2, <4>1, <4>2, <4>3, <4>4 DEF Mine
      <4>6. Held(s, i)' => i <= k
        BY <1>2, <1>3, <2>1, <3>1 DEF Held
      <4>7. i <= n[u] => Held(s, i)
        BY <1>1, <1>2, <3>1 DEF Held
      <4> QED BY <3>1, <4>4, <4>5, <4>6, <4>7
    <3>2. CASE s # r
      <4>1. \A a \in Actors :
              /\ ClaimBy(a, s, i)' <=> ClaimBy(a, s, i)
              /\ (arg[a] = s /\ pc[a] = "attach" /\ i <= n[a])'
                   => arg[a] = s /\ pc[a] = "attach" /\ i <= n[a]
        BY <1>1, <1>2, <1>3, <3>2 DEF ClaimBy, CountInv, TypeOK
      <4> QED BY <1>2, <3>2, <4>1 DEF Mine, Held
    <3> QED BY <3>1, <3>2
  <2>4. Counted'
    BY <1>2, <1>3, <2>2, <2>3, CountsAdd DEF CountInv
  <2>5. Fed'
    <3> SUFFICES ASSUME NEW s \in Scrambled, NEW i \in 1..Len(PidsOf[s]),
                        Unshared(PidsOf[s][i]), Held(s, i)'
                 PROVE  used'[PidsOf[s][i]] > 0
      BY DEF Fed
    <3>1. s \in Receivers /\ PidsOf[s][i] \in Pids
      BY ConstantsAssumption, PidIs
    <3>2. /\ used'[PidsOf[s][i]] >= used[PidsOf[s][i]]
          /\ PidsOf[s][i] = PidsOf[r][k] => used'[PidsOf[s][i]] > 0
          /\ used[PidsOf[s][i]] \in Nat /\ used'[PidsOf[s][i]] \in Nat
      BY <1>3, <3>1 DEF AddPid, CountInv, TypeOK
    <3>3. Held(s, i) => used[PidsOf[s][i]] > 0
      BY DEF CountInv, Fed
    <3> QED BY <2>3, <3>1, <3>2, <3>3
  <2> QED BY <2>4, <2>5
<1>4. CASE used' = used /\ n' = n /\ pc' = [pc EXCEPT ![u] = "undo"]
  <2>1. ASSUME NEW s \in Receivers, NEW i \in 1..Len(PidsOf[s])
        PROVE  (Mine(s, i)' <=> Mine(s, i)) /\ (Held(s, i)' => Held(s, i))
    <3>1. \A a \in Actors :
            /\ ClaimBy(a, s, i)' <=> ClaimBy(a, s, i)
            /\ pc'[a] = "attach" => pc[a] = "attach"
      BY <1>2, <1>4 DEF ClaimBy, CountInv, TypeOK
    <3> QED BY <1>2, <1>4, <3>1 DEF Mine, Held
  <2> QED BY <1>4, <2>1, QuietCounts DEF CountInv
<1> QED BY <1>1, <1>3, <1>4 DEF AttachPid, Goto

LEMMA CountsAttachUndo ==
  ASSUME OwnPids, CountInv, NEW u \in Users, AttachUndo(u)
  PROVE  Counted' /\ Fed'
<1>1. PICK r, k : r = arg[u] /\ k = n[u]
  OBVIOUS
<1>2. /\ r \in Receivers \ device /\ k \in 0..Len(PidsOf[r])
      /\ u \in Actors /\ \A v \in Actors \ {u} : arg[v] # r
      /\ pc[u] = "undo" /\ device' = device
  <2>1. r \in Receivers => Len(PidsOf[r]) \in Nat
    BY ConstantsAssumption
  <2> QED BY <1>1, <2>1 DEF AttachUndo, CountInv, IInv, SlotsActive, TypeOK,
             PlacesKnown, ClaimPlaces, slotVars, Actors
<1>3. CASE Undone(u)
  <2>1. /\ used' = used /\ n[u] = 0 /\ pc' = [pc EXCEPT ![u] = "idle"]
        /\ arg' = [arg EXCEPT ![u] = None] /\ n' = [n EXCEPT ![u] = 0]
    BY <1>3 DEF AttachUndo, Undone, Goto
  <2>2. ASSUME NEW s \in Receivers, NEW i \in 1..Len(PidsOf[s])
        PROVE  (Mine(s, i)' <=> Mine(s, i)) /\ (Held(s, i)' => Held(s, i))
    <3>1. \A a \in Actors :
            /\ ClaimBy(a, s, i)' <=> ClaimBy(a, s, i)
            /\ (arg[a] = s /\ pc[a] = "attach" /\ i <= n[a])'
                 => arg[a] = s /\ pc[a] = "attach" /\ i <= n[a]
      BY <1>2, <2>1 DEF ClaimBy, CountInv, TypeOK
    <3> QED BY <1>2, <3>1 DEF Mine, Held
  <2> QED BY <2>1, <2>2, QuietCounts DEF CountInv
<1>4. CASE ~Undone(u)
  <2>1. /\ DelPid(PidsOf[r][k]) /\ n' = [n EXCEPT ![u] = @ - 1]
        /\ UNCHANGED <<pc, arg>> /\ n'[u] = k - 1 /\ n[u] = k /\ k \in Nat \ {0}
    BY <1>1, <1>2, <1>4 DEF AttachUndo, Undone, CountInv, TypeOK
  <2>2. k \in 1..Len(PidsOf[r])
    BY <1>2, <2>1
  <2>3. Mine(r, k)
    BY <1>1, <1>2, <2>1 DEF Mine, ClaimBy
  <2>4. ASSUME NEW s \in Receivers, NEW i \in 1..Len(PidsOf[s])
        PROVE  /\ Mine(s, i)' <=> Mine(s, i) /\ ~(s = r /\ i = k)
               /\ Held(s, i)' => Held(s, i) /\ s # r
    <3>1. CASE s = r
      <4>1. \A a \in Actors : ClaimBy(a, s, i) <=> a = u /\ i <= k
        BY <1>1, <1>2, <2>1, <3>1 DEF ClaimBy
      <4>2. \A a \in Actors : ClaimBy(a, s, i)' <=> a = u /\ i <= k - 1
        BY <1>1, <1>2, <2>1, <3>1 DEF ClaimBy
      <4>3. i <= k - 1 <=> i <= k /\ i # k
        BY <2>1
      <4>4. Mine(s, i)' <=> Mine(s, i) /\ i # k
        BY <1>2, <3>1, <4>1, <4>2, <4>3 DEF Mine
      <4>5. ~Held(s, i)'
        BY <1>2, <2>1, <3>1 DEF Held
      <4> QED BY <3>1, <4>4, <4>5
    <3>2. CASE s # r
      <4>1. \A a \in Actors :
              /\ ClaimBy(a, s, i)' <=> ClaimBy(a, s, i)
              /\ (arg[a] = s /\ pc[a] = "attach" /\ i <= n[a])'
                   => arg[a] = s /\ pc[a] = "attach" /\ i <= n[a]
        BY <1>1, <1>2, <2>1, <3>2 DEF ClaimBy, CountInv, TypeOK
      <4> QED BY <1>2, <3>2, <4>1 DEF Mine, Held
    <3> QED BY <3>1, <3>2
  <2>5. Counted'
    BY <1>2, <2>1, <2>2, <2>3, <2>4, CountsDel DEF CountInv
  <2>6. Fed'
    BY <1>2, <2>1, <2>2, <2>4, FedDel DEF CountInv
  <2> QED BY <2>5, <2>6
<1> QED BY <1>3, <1>4

LEMMA CountsAttachSlot ==
  ASSUME CountInv, NEW u \in Users, AttachSlot(u)
  PROVE  Counted' /\ Fed'
<1>1. PICK r : r = arg[u]
  OBVIOUS
<1>2. /\ r \in Receivers \ device /\ n[u] = Len(PidsOf[r])
      /\ u \in Actors /\ \A v \in Actors \ {u} : arg[v] # r
      /\ pc[u] = "attach" /\ device' = device \cup {r} /\ arg' = arg
      /\ pc' = [pc EXCEPT ![u] = "start"] /\ n' = [n EXCEPT ![u] = 0]
      /\ used' = used
  BY <1>1 DEF AttachSlot, Goto, CountInv, IInv, SlotsActive, Actors
<1>3. ASSUME NEW s \in Receivers, NEW i \in 1..Len(PidsOf[s])
      PROVE  (Mine(s, i)' <=> Mine(s, i)) /\ (Held(s, i)' => Held(s, i))
  <2>1. CASE s = r
    BY <1>1, <1>2, <2>1 DEF Mine, Held, ClaimBy
  <2>2. CASE s # r
    <3>1. \A a \in Actors :
            /\ ClaimBy(a, s, i)' <=> ClaimBy(a, s, i)
            /\ (arg[a] = s /\ pc[a] = "attach" /\ i <= n[a])'
                 => arg[a] = s /\ pc[a] = "attach" /\ i <= n[a]
      BY <1>1, <1>2, <2>2 DEF ClaimBy, CountInv, TypeOK
    <3> QED BY <1>2, <2>2, <3>1 DEF Mine, Held
  <2> QED BY <2>1, <2>2
<1> QED BY <1>2, <1>3, QuietCounts DEF CountInv

LEMMA CountsAttachStart ==
  ASSUME CountInv, NEW u \in Users, AttachStart(u)
  PROVE  Counted' /\ Fed'
<1>1. /\ UNCHANGED <<used, device, n>> /\ pc[u] = "start"
      /\ arg' = [arg EXCEPT ![u] = None]
      /\ \/ pc' = [pc EXCEPT ![u] = "idle"]
         \/ ~active /\ pc' = [pc EXCEPT ![u] = "idle", ![Dev] = "open"]
  BY DEF AttachStart, Goto, slotVars
<1>2. ~active => pc[Dev] = "off"
  BY DEF CountInv, PlacesKnown
<1> QED BY <1>1, <1>2, QuietThreads DEF CountInv, TypeOK, ClaimPlaces, Actors

LEMMA CountsDetachDeactivate ==
  ASSUME CountInv, NEW a \in Actors, DetachDeactivate(a)
  PROVE  Counted' /\ Fed'
<1>1. PICK r : r = arg[a]
  OBVIOUS
<1>2. /\ r \in Receivers /\ n[a] = 0 /\ UNCHANGED <<used, arg, n>>
      /\ pc[a] = "deactivate" /\ pc' = [pc EXCEPT ![a] = "delPids"]
      /\ device' = device \ {r}
  BY <1>1 DEF DetachDeactivate, Goto, CountInv, IInv, SlotsActive, PlacesKnown,
     DetachPlaces, ClaimPlaces
<1>3. r \notin Scrambled => r \in device
  BY <1>1, <1>2, ConstantsAssumption DEF CountInv, PlacesKnown, Actors
<1>4. ASSUME NEW s \in Receivers, NEW i \in 1..Len(PidsOf[s])
      PROVE  /\ Clear(PidsOf[s][i]) => (Mine(s, i)' <=> Mine(s, i))
             /\ Held(s, i)' => Held(s, i)
  <2>1. \A b \in Actors :
          /\ b # a \/ s # r => (ClaimBy(b, s, i)' <=> ClaimBy(b, s, i))
          /\ (arg[b] = s /\ pc[b] = "attach" /\ i <= n[b])'
               => arg[b] = s /\ pc[b] = "attach" /\ i <= n[b]
    BY <1>1, <1>2 DEF ClaimBy, CountInv, TypeOK
  <2>2. Held(s, i)' => Held(s, i)
    BY <1>2, <2>1 DEF Held
  <2>3. CASE s = r
    <3>1. Mine(s, i)'
      BY <1>1, <1>2, <2>3 DEF Mine, ClaimBy, CountInv, TypeOK
    <3>2. Clear(PidsOf[s][i]) => s \in device
      BY <1>3, <2>3, PidIs DEF Clear
    <3> QED BY <2>2, <3>1, <3>2 DEF Mine
  <2>4. CASE s # r
    BY <1>2, <2>1, <2>2, <2>4 DEF Mine
  <2> QED BY <2>3, <2>4
<1> QED BY <1>2, <1>4, QuietCounts DEF CountInv

LEMMA CountsDetachPid ==
  ASSUME OneUser, OwnPids, CountInv, NEW a \in Actors, DetachPid(a)
  PROVE  Counted' /\ Fed'
<1>1. PICK r, k : r = arg[a] /\ k = n[a] + 1
  OBVIOUS
<1>2. /\ r \in Receivers \ device /\ n[a] \in 0..Len(PidsOf[r])
      /\ Len(PidsOf[r]) \in Nat
      /\ \A v \in Actors : arg[v] = r => pc[v] \notin {"attach", "undo"}
      /\ pc[a] = "delPids" /\ device' = device /\ arg' = arg
  <2>1. /\ pc[a] = "delPids" /\ device' = device /\ arg' = arg
        /\ r \in Receivers \ device /\ n[a] \in Nat /\ n[a] <= Len(PidsOf[r])
    BY <1>1 DEF DetachPid, CountInv, PlacesKnown, TypeOK, ClaimPlaces, slotVars
  <2>2. Len(PidsOf[r]) \in Nat
    BY <2>1, ConstantsAssumption
  <2>3. \A v \in Actors : arg[v] = r => pc[v] \notin {"attach", "undo"}
    BY <1>1, <2>1 DEF CountInv, IInv, SlotsActive
  <2> QED BY <2>1, <2>2, <2>3
<1>3. CASE n[a] < Len(PidsOf[r])
  <2>1. /\ DelPid(PidsOf[r][k]) /\ n' = [n EXCEPT ![a] = @ + 1] /\ pc' = pc
        /\ n'[a] = k /\ k \in 1..Len(PidsOf[r])
    BY <1>1, <1>2, <1>3 DEF DetachPid, CountInv, TypeOK
  <2>2. r \notin Scrambled => \A b \in Actors \ {a} : arg[b] # r
    BY <1>1, <1>2, ConstantsAssumption
    DEF OneUser, CountInv, PlacesKnown, Actors
  <2>3. Mine(r, k)
    BY <1>1, <1>2, <2>1 DEF Mine, ClaimBy
  <2>4. ASSUME NEW s \in Receivers, NEW i \in 1..Len(PidsOf[s])
        PROVE  /\ Clear(PidsOf[s][i]) =>
                    (Mine(s, i)' <=> Mine(s, i) /\ ~(s = r /\ i = k))
               /\ Held(s, i)' => Held(s, i) /\ s # r
    <3>1. CASE s = r
      <4>1. ~Held(s, i)'
        BY <1>2, <2>1, <3>1 DEF Held
      <4>2. CASE r \in Scrambled
        BY <3>1, <4>1, <4>2, PidIs DEF Clear
      <4>3. CASE r \notin Scrambled
        <5>1. \A b \in Actors : ClaimBy(b, s, i) <=> b = a /\ i > n[a]
          BY <1>1, <1>2, <2>2, <3>1, <4>3 DEF ClaimBy
        <5>2. \A b \in Actors : ClaimBy(b, s, i)' <=> b = a /\ i > k
          BY <1>1, <1>2, <2>1, <2>2, <3>1, <4>3 DEF ClaimBy
        <5>3. i > k <=> i > n[a] /\ i # k
          BY <1>1, <1>2
        <5> QED BY <1>2, <3>1, <4>1, <5>1, <5>2, <5>3 DEF Mine
      <4> QED BY <4>2, <4>3
    <3>2. CASE s # r
      <4>1. \A b \in Actors :
              /\ ClaimBy(b, s, i)' <=> ClaimBy(b, s, i)
              /\ (arg[b] = s /\ pc[b] = "attach" /\ i <= n[b])'
                   => arg[b] = s /\ pc[b] = "attach" /\ i <= n[b]
        BY <1>1, <1>2, <2>1, <3>2 DEF ClaimBy, CountInv, TypeOK
      <4> QED BY <1>2, <3>2, <4>1 DEF Mine, Held
    <3> QED BY <3>1, <3>2
  <2>5. Counted'
    BY <1>2, <2>1, <2>3, <2>4, CountsDel DEF CountInv
  <2>6. Fed'
    BY <1>2, <2>1, <2>4, FedDel DEF CountInv
  <2> QED BY <2>5, <2>6
<1>4. CASE ~(n[a] < Len(PidsOf[r]))
  <2>1. /\ used' = used /\ n' = [n EXCEPT ![a] = 0]
        /\ pc' = [pc EXCEPT ![a] = "cancel"] /\ n[a] = Len(PidsOf[r])
    BY <1>1, <1>2, <1>4 DEF DetachPid, Goto
  <2>2. ASSUME NEW s \in Receivers, NEW i \in 1..Len(PidsOf[s])
        PROVE  (Mine(s, i)' <=> Mine(s, i)) /\ (Held(s, i)' => Held(s, i))
    <3>1. \A b \in Actors :
            /\ ClaimBy(b, s, i)' <=> ClaimBy(b, s, i)
            /\ (arg[b] = s /\ pc[b] = "attach" /\ i <= n[b])'
                 => arg[b] = s /\ pc[b] = "attach" /\ i <= n[b]
      BY <1>1, <1>2, <2>1 DEF ClaimBy, CountInv, TypeOK
    <3> QED BY <1>2, <3>1 DEF Mine, Held
  <2> QED BY <2>1, <2>2, QuietCounts DEF CountInv
<1> QED BY <1>3, <1>4

(* Calls, the ends of Detach() and the device's thread leave the counts.   *)
LEMMA CountsCalls ==
  ASSUME CountInv, NEW u \in Users,
         \/ \E r \in Receivers : DetachCall(u, r)
         \/ DetachAllCall(u) \/ DetachAllNext(u)
  PROVE  Counted' /\ Fed'
<1>1. /\ UNCHANGED <<used, device, n>>
      /\ pc[u] \in {"idle", "all"}
      /\ \E place \in {"idle", "all", "clear"} : pc' = [pc EXCEPT ![u] = place]
      /\ \A v \in Actors \ {u} : arg'[v] = arg[v]
  BY DEF DetachCall, DetachAllCall, DetachAllNext, Goto, slotVars, CountInv,
     TypeOK, Actors
<1> QED BY <1>1, QuietThreads DEF CountInv, TypeOK, ClaimPlaces, Actors

LEMMA CountsDetachEnds ==
  ASSUME CountInv, NEW a \in Actors, DetachClear(a) \/ DetachCancel(a)
  PROVE  Counted' /\ Fed'
<1>1. /\ UNCHANGED <<used, device, n>>
      /\ pc[a] \in {"clear", "cancel"}
      /\ \E place \in {"deactivate", "idle", "deliver", "all"} :
           pc' = [pc EXCEPT ![a] = place]
      /\ \A v \in Actors \ {a} : arg'[v] = arg[v]
  BY DEF DetachClear, DetachCancel, Goto, slotVars, CountInv, TypeOK
<1> QED BY <1>1, QuietThreads DEF CountInv, TypeOK, ClaimPlaces

LEMMA CountsDevice ==
  ASSUME CountInv,
         \/ DevOpen \/ DevLoop \/ DevDelivered \/ DevEnded
         \/ \E r \in Receivers \cup {None} : DevReceive(r)
         \/ \E r \in Scrambled : DevScrambled(r)
  PROVE  Counted' /\ Fed'
<1>1. /\ UNCHANGED <<used, device, n>>
      /\ pc[Dev] \in DevPlaces
      /\ \E place \in DevPlaces \cup {"clear"} : pc' = [pc EXCEPT ![Dev] = place]
      /\ \A v \in Actors \ {Dev} : arg'[v] = arg[v]
  BY DEF DevOpen, DevLoop, DevDelivered, DevEnded, DevReceive, DevScrambled,
     AtSlot, Goto, slotVars, CountInv, TypeOK, DevPlaces, Actors
<1> QED BY <1>1, QuietThreads DEF CountInv, TypeOK, ClaimPlaces, DevPlaces, Actors

LEMMA InitCounts ==
  ASSUME Init
  PROVE  CountInv
<1>1. TypeOK
  <2>1. 0 \in 0..Slots + 1
    BY ConstantsAssumption
  <2>2. pc \in [Actors -> UserPlaces \cup DetachPlaces \cup DevPlaces]
    BY DEF Init, UserPlaces, DevPlaces
  <2> QED BY <2>1, <2>2 DEF Init, TypeOK
<1>2. PlacesKnown
  BY ConstantsAssumption
  DEF Init, PlacesKnown, Actors, UserPlaces, DetachPlaces, ClaimPlaces
<1>3. \A r \in Receivers : \A i \in 1..Len(PidsOf[r]) : ~Mine(r, i) /\ ~Held(r, i)
  BY ConstantsAssumption DEF Init, Mine, Held, ClaimBy
<1>4. Counted
  <2>1. \A p \in Pids : Claimants(p) = {}
    BY <1>3, ClaimsAre DEF Claimants
  <2> QED BY <2>1, FS_EmptySet DEF Counted, Init
<1>5. Fed
  BY <1>3, ConstantsAssumption DEF Fed
<1> QED BY <1>1, <1>2, <1>4, <1>5, InitOk DEF CountInv

LEMMA CountStep ==
  ASSUME OneUser, OwnPids, CountInv, [Next]_vars
  PROVE  CountInv'
<1>1. IInv'
  BY Step DEF CountInv
<1>2. IInv /\ TypeOK /\ PlacesKnown
  BY DEF CountInv
<1>3. ASSUME NEW a \in Actors, Detaching(a)
      PROVE  (TypeOK' /\ PlacesKnown') /\ (Counted' /\ Fed')
  BY <1>2, <1>3, PlacesDetachClear, PlacesDetachDeactivate, PlacesDetachPid,
     PlacesDetachCancel, CountsDetachEnds, CountsDetachDeactivate,
     CountsDetachPid DEF Detaching
<1>4. ASSUME NEW u \in Users, Call(u) \/ User(u)
      PROVE  (TypeOK' /\ PlacesKnown') /\ (Counted' /\ Fed')
  <2>1. CASE Detaching(u)
    BY <1>3, <2>1 DEF Actors
  <2>2. CASE Call(u)
    BY <1>2, <2>2, PlacesAttachCall, PlacesDetachCall, PlacesDetachAllCall,
       CountsAttachCall, CountsCalls DEF Call
  <2>3. CASE User(u) /\ ~Detaching(u)
    BY <1>2, <2>3, PlacesAttachPid, PlacesAttachUndo, PlacesAttachSlot,
       PlacesAttachStart, PlacesDetachAllNext, CountsAttachPid,
       CountsAttachUndo, CountsAttachSlot, CountsAttachStart, CountsCalls
    DEF User
  <2> QED BY <1>4, <2>1, <2>2, <2>3
<1>5. CASE Device
  <2>1. CASE Detaching(Dev)
    BY <1>1, <1>3, <2>1 DEF Actors, CountInv
  <2>2. CASE ~Detaching(Dev)
    BY <1>1, <1>2, <1>5, <2>2, PlacesDevOpen, PlacesDevLoop, PlacesDevReceive,
       PlacesDevScrambled, PlacesDevDelivered, PlacesDevEnded, CountsDevice
    DEF Device, CountInv
  <2> QED BY <2>1, <2>2
<1>6. CASE UNCHANGED vars
  <2>1. TypeOK' /\ PlacesKnown'
    BY <1>2, <1>6 DEF vars, TypeOK, PlacesKnown
  <2>2. Counted' /\ Fed'
    BY <1>6, QuietThreads DEF vars, CountInv
  <2> QED BY <1>1, <2>1, <2>2 DEF CountInv
<1> QED BY <1>1, <1>4, <1>5, <1>6 DEF Next, CountInv

(* Each PID is counted once for each receiver that has it, and an attached *)
(* receiver gets its PIDs, in every moment of attaching, of giving up for  *)
(* lack of a handle and of detaching, by the caller or for the CAM, with   *)
(* any receivers, PIDs, slots and handles.  There is one caller at a time, *)
(* and the PIDs of a receiver are distinct, as cReceiver::AddPid() has it. *)
THEOREM PidsAreCounted ==
  ASSUME OneUser, OwnPids
  PROVE  Spec => []PidsSound
<1>1. Init => CountInv
  BY InitCounts
<1>2. CountInv /\ [Next]_vars => CountInv'
  BY CountStep
<1>3. CountInv => PidsSound
  <2> SUFFICES ASSUME CountInv
               PROVE  PidsSound
    OBVIOUS
  <2>1. TypeOK
    BY DEF CountInv
  <2>2. PidsCounted
    BY DEF CountInv, Counted, Clear, Claimants, PidsCounted
  <2>3. ASSUME NEW r \in device, NEW i \in 1..Len(PidsOf[r]),
               Unshared(PidsOf[r][i])
        PROVE  used[PidsOf[r][i]] > 0
    <3>1. r \in Receivers /\ Held(r, i) /\ Mine(r, i)
      BY <2>1 DEF TypeOK, Held, Mine
    <3>2. PidsOf[r][i] \in Pids /\ Has(r, PidsOf[r][i])
      BY <3>1, PidIs
    <3>3. CASE Clear(PidsOf[r][i])
      <4>1. r \in Claimants(PidsOf[r][i])
        BY <3>1, ClaimsAre DEF Claimants
      <4> QED BY <2>1, <3>2, <3>3, <4>1, FS_EmptySet DEF CountInv, Counted, TypeOK
    <3>4. CASE ~Clear(PidsOf[r][i])
      <4>1. r \in Scrambled
        BY <2>3, <3>1, <3>2, <3>4 DEF Clear, Unshared
      <4> QED BY <2>3, <3>1, <4>1 DEF CountInv, Fed
    <3> QED BY <3>3, <3>4
  <2> QED BY <2>1, <2>2, <2>3 DEF PidsSound, PidsServed
<1> QED BY <1>1, <1>2, <1>3, PTL DEF Spec
=============================================================================
