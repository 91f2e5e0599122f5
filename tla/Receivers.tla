----------------------------- MODULE Receivers ------------------------------
(***************************************************************************)
(* The receivers of one device (vdr/device.c): cDevice with its receiver   *)
(* slots, its PID handles and its thread, which passes each packet to the  *)
(* receivers attached; the callers that attach and detach; and cThread as  *)
(* far as the device's thread is started and cancelled by them.            *)
(*                                                                         *)
(* mutexReceiver guards the slots, mutexPids the handles: AddPid() and     *)
(* DelPid() are one step each.  Detach() leaves mutexReceiver before it    *)
(* deactivates the receiver, deletes its PIDs and cancels the thread.      *)
(* Receivers use handles from ptOther on only, so a PID has at most one.   *)
(* The device is a cSatipDevice: OpenDvr() succeeds, SetPid() too.         *)
(***************************************************************************)
EXTENDS Integers, Sequences, FiniteSets

CONSTANTS
  Receivers,      \* the cReceivers
  Pids,           \* PIDs
  PidsOf,         \* PidsOf[r]: the PIDs of receiver r, in their order
  Scrambled,      \* receivers of channels the CAM may fail to decrypt
  Users,          \* threads that attach and detach receivers
  Dev,            \* the device's own thread
  None,           \* no receiver, no thread
  Slots,          \* MAXRECEIVERS
  Handles         \* PID handles from ptOther to MAXPIDHANDLES

ASSUME ConstantsAssumption ==
  /\ PidsOf \in [Receivers -> Seq(Pids)]
  /\ Scrambled \subseteq Receivers
  /\ Dev \notin Users /\ None \notin Users \cup {Dev} \cup Receivers
  /\ Slots \in Nat \ {0} /\ Handles \in Nat

Actors == Users \cup {Dev}

VARIABLES
  slot,           \* receiver[]
  device,         \* receivers whose device is this one
  activated,      \* receivers between Activate(true) and Activate(false)
  used,           \* pidHandles[]: how often each PID is in use
  mutexReceiver,  \* the thread that holds it
  running,        \* cThread of the device
  active,         \* cThread of the device
  pc,             \* where each thread is
  arg,            \* the receiver a call is about
  n,              \* the PIDs of it that are done
  left,           \* receiversLeft of a Detach()
  pos             \* the slot a loop over the receivers has reached

slotVars   == <<slot, device, activated>>
threadVars == <<running, active>>
vars       == <<slot, device, activated, used, mutexReceiver, running, active,
                pc, arg, n, left, pos>>

UserPlaces   == {"idle", "attach", "undo", "start", "all"}
DetachPlaces == {"clear", "deactivate", "delPids", "cancel"}
DevPlaces    == {"off", "open", "loop", "deliver", "ended", "exit"}

TypeOK ==
  /\ slot \in [1..Slots -> Receivers \cup {None}]
  /\ device \subseteq Receivers
  /\ activated \subseteq Receivers
  /\ used \in [Pids -> Nat]
  /\ mutexReceiver \in Actors \cup {None}
  /\ running \in BOOLEAN
  /\ active \in BOOLEAN
  /\ pc \in [Actors -> UserPlaces \cup DetachPlaces \cup DevPlaces]
  /\ arg \in [Actors -> Receivers \cup {None}]
  /\ n \in [Actors -> Nat]
  /\ left \in [Actors -> BOOLEAN]
  /\ pos \in [Actors -> 0..Slots + 1]

Init ==
  /\ slot = [i \in 1..Slots |-> None]
  /\ device = {}
  /\ activated = {}
  /\ used = [p \in Pids |-> 0]
  /\ mutexReceiver = None
  /\ running = FALSE
  /\ active = FALSE
  /\ pc = [a \in Actors |-> IF a = Dev THEN "off" ELSE "idle"]
  /\ arg = [a \in Actors |-> None]
  /\ n = [a \in Actors |-> 0]
  /\ left = [a \in Actors |-> FALSE]
  /\ pos = [a \in Actors |-> 0]

Goto(a, place) == pc' = [pc EXCEPT ![a] = place]

-----------------------------------------------------------------------------
(* cDevice::AddPid and DelPid.  SetPid() turns a PID on with its first use *)
(* and off with its last: used[p] > 0 says what the device delivers.       *)

HandleFor(p) == \/ used[p] > 0
                \/ Cardinality({q \in Pids : used[q] > 0}) < Handles

(* Mutant: a PID in use is not counted again.                              *)
AddPidOnce(p) == used' = [used EXCEPT ![p] = 1]

AddPid(p) == used' = [used EXCEPT ![p] = @ + 1]

(* Without a handle for the PID nothing happens.                           *)
DelPid(p) == used' = [used EXCEPT ![p] = IF @ > 0 THEN @ - 1 ELSE 0]

-----------------------------------------------------------------------------
(* cDevice::AttachReceiver, of a receiver that is not attached.            *)

AttachCall(u, r) ==
  /\ pc[u] = "idle"
  /\ r \notin device
  /\ \A v \in Actors : arg[v] # r
  /\ mutexReceiver = None
  /\ \E i \in 1..Slots : slot[i] = None
  /\ mutexReceiver' = u
  /\ arg' = [arg EXCEPT ![u] = r]
  /\ n' = [n EXCEPT ![u] = 0]
  /\ Goto(u, "attach")
  /\ UNCHANGED <<slotVars, used, threadVars, left, pos>>

AttachPid(u) ==
  LET r == arg[u] IN
  /\ pc[u] = "attach"
  /\ n[u] < Len(PidsOf[r])
  /\ \/ /\ HandleFor(PidsOf[r][n[u] + 1])
        /\ AddPid(PidsOf[r][n[u] + 1])
        /\ n' = [n EXCEPT ![u] = @ + 1]
        /\ UNCHANGED pc
     \/ /\ ~HandleFor(PidsOf[r][n[u] + 1])
        /\ Goto(u, "undo")
        /\ UNCHANGED <<used, n>>
  /\ UNCHANGED <<slotVars, threadVars, mutexReceiver, arg, left, pos>>

Undone(u) == n[u] = 0

(* for ( ; n-- > 0; ) DelPid(...); return false.                           *)
AttachUndo(u) ==
  /\ pc[u] = "undo"
  /\ IF Undone(u)
     THEN /\ Goto(u, "idle")
          /\ mutexReceiver' = None
          /\ arg' = [arg EXCEPT ![u] = None]
          /\ n' = [n EXCEPT ![u] = 0]
          /\ UNCHANGED used
     ELSE /\ DelPid(PidsOf[arg[u]][n[u]])
          /\ n' = [n EXCEPT ![u] = @ - 1]
          /\ UNCHANGED <<pc, mutexReceiver, arg>>
  /\ UNCHANGED <<slotVars, threadVars, left, pos>>

FreeSlot == CHOOSE i \in 1..Slots :
              slot[i] = None /\ \A j \in 1..(i - 1) : slot[j] # None

AttachSlot(u) ==
  LET r == arg[u] IN
  /\ pc[u] = "attach"
  /\ n[u] = Len(PidsOf[r])
  /\ activated' = activated \cup {r}
  /\ device' = device \cup {r}
  /\ slot' = [slot EXCEPT ![FreeSlot] = r]
  /\ n' = [n EXCEPT ![u] = 0]
  /\ Goto(u, "start")
  /\ UNCHANGED <<used, threadVars, mutexReceiver, arg, left, pos>>

(* The previous incarnation of the thread waits for mutexReceiver.         *)
Stuck == pc[Dev] = "deliver" /\ pos[Dev] <= Slots

(* cThread::Start: nothing if the thread is running; otherwise it waits    *)
(* for the previous incarnation to end, three seconds at most.             *)
AttachStart(u) ==
  /\ pc[u] = "start"
  /\ \/ /\ running
        /\ Goto(u, "idle")
        /\ UNCHANGED threadVars
     \/ /\ ~running /\ active /\ Stuck
        /\ Goto(u, "idle")
        /\ UNCHANGED threadVars
     \/ /\ ~running /\ ~active
        /\ running' = TRUE /\ active' = TRUE
        /\ pc' = [pc EXCEPT ![u] = "idle", ![Dev] = "open"]
  /\ mutexReceiver' = None
  /\ arg' = [arg EXCEPT ![u] = None]
  /\ UNCHANGED <<slotVars, used, n, left, pos>>

-----------------------------------------------------------------------------
(* cDevice::Detach, of a receiver that is attached: called for one         *)
(* receiver, in turn for all of them by DetachAllReceivers(), or by the    *)
(* device's thread; the latter two hold mutexReceiver throughout.          *)

DetachCall(u, r) ==
  /\ pc[u] = "idle"
  /\ r \in device
  /\ arg' = [arg EXCEPT ![u] = r]
  /\ Goto(u, "clear")
  /\ UNCHANGED <<slotVars, used, threadVars, mutexReceiver, n, left, pos>>

(* Mutant: the loop over the slots stops one short.                        *)
ClearedButLast(r) ==
  [i \in 1..Slots |-> IF slot[i] = r /\ i < Slots THEN None ELSE slot[i]]

Cleared(r) == [i \in 1..Slots |-> IF slot[i] = r THEN None ELSE slot[i]]

(* Mutant: the receiver to be detached counts as left.                     *)
AnyLeft(r) == \E i \in 1..Slots : slot[i] # None

OthersLeft(r) == \E i \in 1..Slots : slot[i] \notin {None, r}

DetachClear(a) ==
  /\ pc[a] = "clear"
  /\ mutexReceiver \in {None, a}
  /\ slot' = Cleared(arg[a])
  /\ left' = [left EXCEPT ![a] = OthersLeft(arg[a])]
  /\ Goto(a, "deactivate")
  /\ UNCHANGED <<device, activated, used, threadVars, mutexReceiver, arg, n,
                 pos>>

DetachDeactivate(a) ==
  /\ pc[a] = "deactivate"
  /\ device' = device \ {arg[a]}
  /\ activated' = activated \ {arg[a]}
  /\ Goto(a, "delPids")
  /\ UNCHANGED <<slot, used, threadVars, mutexReceiver, arg, n, left, pos>>

DetachPid(a) ==
  /\ pc[a] = "delPids"
  /\ IF n[a] < Len(PidsOf[arg[a]])
     THEN /\ DelPid(PidsOf[arg[a]][n[a] + 1])
          /\ n' = [n EXCEPT ![a] = @ + 1]
          /\ UNCHANGED pc
     ELSE /\ Goto(a, "cancel")
          /\ n' = [n EXCEPT ![a] = 0]
          /\ UNCHANGED used
  /\ UNCHANGED <<slotVars, threadVars, mutexReceiver, arg, left, pos>>

(* Cancel(-1) if no receiver is left, then back to the caller.             *)
DetachCancel(a) ==
  /\ pc[a] = "cancel"
  /\ running' = (running /\ left[a])
  /\ left' = [left EXCEPT ![a] = FALSE]
  /\ arg' = [arg EXCEPT ![a] = None]
  /\ IF pos[a] = 0
     THEN /\ Goto(a, "idle")
          /\ UNCHANGED <<pos, mutexReceiver>>
     ELSE /\ Goto(a, IF a = Dev THEN "deliver" ELSE "all")
          /\ pos' = [pos EXCEPT ![a] = @ + 1]
          /\ mutexReceiver' = IF a = Dev THEN None ELSE a
  /\ UNCHANGED <<slotVars, used, active, n>>

DetachAllCall(u) ==
  /\ pc[u] = "idle"
  /\ mutexReceiver = None
  /\ mutexReceiver' = u
  /\ pos' = [pos EXCEPT ![u] = 1]
  /\ Goto(u, "all")
  /\ UNCHANGED <<slotVars, used, threadVars, arg, n, left>>

DetachAllNext(u) ==
  /\ pc[u] = "all"
  /\ IF pos[u] > Slots
     THEN /\ Goto(u, "idle")
          /\ pos' = [pos EXCEPT ![u] = 0]
          /\ mutexReceiver' = None
          /\ UNCHANGED arg
     ELSE IF slot[pos[u]] = None
     THEN /\ pos' = [pos EXCEPT ![u] = @ + 1]
          /\ UNCHANGED <<pc, arg, mutexReceiver>>
     ELSE /\ arg' = [arg EXCEPT ![u] = slot[pos[u]]]
          /\ Goto(u, "clear")
          /\ UNCHANGED <<pos, mutexReceiver>>
  /\ UNCHANGED <<slotVars, used, threadVars, n, left>>

-----------------------------------------------------------------------------
(* cDevice::Action, the device's thread.                                   *)

DevOpen ==
  /\ pc[Dev] = "open"
  /\ Goto(Dev, IF running THEN "loop" ELSE "ended")
  /\ UNCHANGED <<slotVars, used, mutexReceiver, threadVars, arg, n, left, pos>>

(* GetTSPacket() has a packet, or the loop ends and CloseDvr() is called.  *)
DevLoop ==
  /\ pc[Dev] = "loop"
  /\ IF running
     THEN Goto(Dev, "deliver") /\ pos' = [pos EXCEPT ![Dev] = 1]
     ELSE Goto(Dev, "ended") /\ UNCHANGED pos
  /\ UNCHANGED <<slotVars, used, mutexReceiver, threadVars, arg, n, left>>

(* The slot reached is looked at, and its receiver called, under the lock. *)
AtSlot(r) ==
  /\ pc[Dev] = "deliver"
  /\ pos[Dev] <= Slots
  /\ mutexReceiver = None
  /\ slot[pos[Dev]] = r

DevReceive(r) ==
  /\ AtSlot(r)
  /\ pos' = [pos EXCEPT ![Dev] = @ + 1]
  /\ UNCHANGED <<slotVars, used, mutexReceiver, threadVars, pc, arg, n, left>>

(* The CAM has not decrypted the receiver's channel in time.               *)
DevScrambled(r) ==
  /\ AtSlot(r)
  /\ mutexReceiver' = Dev
  /\ arg' = [arg EXCEPT ![Dev] = r]
  /\ Goto(Dev, "clear")
  /\ UNCHANGED <<slotVars, used, threadVars, n, left, pos>>

DevDelivered ==
  /\ pc[Dev] = "deliver"
  /\ pos[Dev] > Slots
  /\ pos' = [pos EXCEPT ![Dev] = 0]
  /\ Goto(Dev, "loop")
  /\ UNCHANGED <<slotVars, used, mutexReceiver, threadVars, arg, n, left>>

(* The end of cThread::StartThread.                                        *)
DevEnded ==
  /\ \/ /\ pc[Dev] = "ended"
        /\ running' = FALSE
        /\ Goto(Dev, "exit")
        /\ UNCHANGED active
     \/ /\ pc[Dev] = "exit"
        /\ active' = FALSE
        /\ Goto(Dev, "off")
        /\ UNCHANGED running
  /\ UNCHANGED <<slotVars, used, mutexReceiver, arg, n, left, pos>>

-----------------------------------------------------------------------------
Detaching(a) == DetachClear(a) \/ DetachDeactivate(a) \/ DetachPid(a)
                \/ DetachCancel(a)

Device == \/ DevOpen \/ DevLoop \/ DevDelivered \/ DevEnded
          \/ \E r \in Receivers \cup {None} : DevReceive(r)
          \/ \E r \in Scrambled : DevScrambled(r)
          \/ Detaching(Dev)

Call(u) == \/ \E r \in Receivers : AttachCall(u, r)
           \/ \E r \in Receivers : DetachCall(u, r)
           \/ DetachAllCall(u)

User(u) == \/ AttachPid(u) \/ AttachUndo(u) \/ AttachSlot(u) \/ AttachStart(u)
           \/ DetachAllNext(u) \/ Detaching(u)

Next == Device \/ \E u \in Users : Call(u) \/ User(u)

Spec == Init /\ [][Next]_vars

(* A call once begun goes on.  The device keeps delivering packets and     *)
(* gets the lock at some time: callers come a few times in a minute.       *)
FairSpec == Spec /\ SF_vars(Device) /\ \A u \in Users : WF_vars(User(u))

-----------------------------------------------------------------------------
Has(r, p) == \E i \in 1..Len(PidsOf[r]) : PidsOf[r][i] = p

(* PIDs of a receiver are distinct (cReceiver::AddPid).                     *)
Claims(r, p) ==
  \E i \in 1..Len(PidsOf[r]) :
    /\ PidsOf[r][i] = p
    /\ \/ r \in device
       \/ \E a \in Actors : arg[a] = r /\
            \/ pc[a] \in {"attach", "undo"} /\ i <= n[a]
            \/ pc[a] = "delPids" /\ i > n[a]

(* Each PID is counted once for each receiver that has it, in every moment *)
(* of attaching, of giving up for lack of a handle and of detaching: the   *)
(* device delivers a PID as long as somebody wants it and no longer.       *)
(* Receivers the CAM may drop are left out: the owner and the device's     *)
(* thread may detach them at the same time.                                *)
PidsCounted ==
  \A p \in Pids : (\A r \in Scrambled : ~Has(r, p)) =>
    used[p] = Cardinality({r \in Receivers : Claims(r, p)})

(* A receiver the CAM may drop has the PID for itself.                     *)
Unshared(p) ==
  \A r \in Scrambled, s \in Receivers : Has(r, p) /\ Has(s, p) => r = s

(* A receiver gets its PIDs from when it is attached until Detach() takes  *)
(* it off the device, whoever else has been attached, refused or detached  *)
(* meanwhile; a PID it shares with one the CAM may drop is left out.       *)
PidsServed ==
  \A r \in device : \A i \in 1..Len(PidsOf[r]) :
    Unshared(PidsOf[r][i]) => used[PidsOf[r][i]] > 0

PidsSound == TypeOK /\ PidsCounted /\ PidsServed

(* Receive() is called between Activate(true) and Activate(false) only.    *)
ReceiveWhenActivated ==
  [][\A r \in Receivers : DevReceive(r) => r \in activated]_vars

(* Start() has started the thread when it returns true: what AttachReceiver*)
(* tells its caller.                                                       *)
StartedWhenAttached == [][\A u \in Users : AttachStart(u) => running']_vars

(* With nobody attached the device's thread ends, unless a receiver comes. *)
ThreadEnds == (device = {} /\ active) ~> (device # {} \/ ~active)
=============================================================================
