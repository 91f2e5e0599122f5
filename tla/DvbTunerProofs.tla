--------------------------- MODULE DvbTunerProofs ---------------------------
(***************************************************************************)
(* Proof about DvbTuner, for any number of tuners, transponders and bands, *)
(* bonded in any way.                                                      *)
(***************************************************************************)
EXTENDS DvbTuner, TLAPS

(* The types of what a tuner's thread looks at.                            *)
ReadTypes ==
  /\ status \in [Tuners -> Statuses]
  /\ open \in [Tuners -> BOOLEAN]
  /\ read \in [Tuners -> {"unread", "none", "this", "old"}]
  /\ task = NoTask \/ task.tuner \in Tuners

(* A closed frontend is not at work, and a lock of the channel before is   *)
(* only known of a tuner that has yet to be set.                           *)
OldUnset ==
  \A t \in Tuners : ~open[t] \/ read[t] = "old" => status[t] \in {"idle", "set"}

IInv == ReadTypes /\ OldUnset

(* The state read of tuners that are switched is not taken for theirs.     *)
LEMMA OutdatedIs ==
  ASSUME ReadTypes, NEW S
  PROVE  /\ Outdated(S) \in [Tuners -> {"unread", "none", "this", "old"}]
         /\ \A t \in Tuners : /\ Outdated(S)[t] = "old" => read[t] = "old" \/ t \in S
                              /\ Outdated(S)[t] = "unread" <=> read[t] = "unread"
BY DEF Outdated, ReadTypes

(* Switching other tuners on the way sets or idles them.                   *)
LEMMA KeepsSwitchOthers ==
  ASSUME IInv, NEW t \in Tuners, NEW c \in Transponders, Reopen(t),
         SwitchOthers(t, c), task'.tuner \in Tuners
  PROVE  IInv'
<1> DEFINE S == SetOnTheWay(t, c)
           I == Idled(t, c)
<1>1. /\ status' = [u \in Tuners |-> IF u \in S THEN "set"
                                     ELSE IF u \in I THEN "idle" ELSE status[u]]
      /\ read' = Outdated(S)
  BY DEF SwitchOthers
<1>2. open' = [open EXCEPT ![t] = TRUE]
  BY DEF Reopen
<1> HIDE DEF S, I
<1>3. ReadTypes'
  BY <1>1, <1>2, OutdatedIs DEF IInv, ReadTypes, Statuses
<1>4. OldUnset'
  BY <1>1, <1>2, OutdatedIs DEF IInv, ReadTypes, OldUnset
<1> QED BY <1>3, <1>4 DEF IInv

(* Every step of the switching thread preserves the invariant.             *)
LEMMA KeepsSwitch == IInv /\ Switch => IInv'
<1> SUFFICES ASSUME IInv, Switch
             PROVE  IInv'
  OBVIOUS
<1>1. ASSUME NEW t \in Tuners, NEW c \in Transponders,
             NEW p \in 1..MaxPriority, Receive(t, c, p)
      PROVE  IInv'
  <2>1. task'.tuner = t
    BY <1>1 DEF Receive
  <2> QED BY <1>1, <2>1, KeepsSwitchOthers DEF Receive
<1>2. ASSUME NEW t \in Tuners, NEW c \in Transponders, EitScan(t, c)
      PROVE  IInv'
  <2>1. task'.tuner = t
    BY <1>2 DEF EitScan
  <2> QED BY <1>2, <2>1, KeepsSwitchOthers DEF EitScan
<1>3. CASE SwitchOwn
  <2>0. task.tuner \in Tuners /\ task' = NoTask
    BY <1>3 DEF SwitchOwn, IInv, ReadTypes
  <2>1. PICK t, c :
          /\ t \in Tuners
          /\ status' = [status EXCEPT ![t] = IF TunedTo(t, c) THEN @ ELSE "set"]
          /\ read' = IF TunedTo(t, c) THEN read ELSE Outdated({t})
          /\ open' = open
    BY <1>3, <2>0 DEF SwitchOwn
  <2>2. CASE TunedTo(t, c)
    BY <2>0, <2>1, <2>2 DEF IInv, ReadTypes, OldUnset
  <2>3. CASE ~TunedTo(t, c)
    <3>1. status' = [status EXCEPT ![t] = "set"] /\ read' = Outdated({t})
      BY <2>1, <2>3
    <3>2. ReadTypes'
      BY <2>0, <2>1, <3>1, OutdatedIs DEF IInv, ReadTypes, Statuses
    <3>3. OldUnset'
      BY <2>1, <3>1, OutdatedIs DEF IInv, ReadTypes, OldUnset
    <3> QED BY <3>2, <3>3 DEF IInv
  <2> QED BY <2>2, <2>3
<1> QED BY <1>1, <1>2, <1>3 DEF Switch

(* Bonding, receivers that end and power saving preserve the invariant.    *)
LEMMA KeepsRest ==
  ASSUME IInv,
         \/ \E t, u \in Tuners : Bond(t, u)
         \/ \E t \in Tuners : UnBond(t) \/ StopReceiver(t) \/ PowerSave(t)
  PROVE  IInv'
<1>1. CASE UNCHANGED <<status, open, read, task>>
  BY <1>1 DEF IInv, ReadTypes, OldUnset
<1>2. ASSUME NEW t \in Tuners, PowerSave(t)
      PROVE  IInv'
  BY <1>2 DEF PowerSave, IInv, ReadTypes, OldUnset, Statuses
<1> QED BY <1>1, <1>2 DEF Bond, UnBond, StopReceiver, tunerVars

(* What a tuner's thread reads is of its channel or of the one before, and *)
(* the latter only of a tuner that is idle or yet to be set.               *)
LEMMA KeepsRead ==
  ASSUME IInv, NEW t \in Tuners, Read(t)
  PROVE  IInv'
<1>1. PICK lock \in {"none", "old", "this"} :
        /\ lock = "old" => ~open[t] \/ status[t] \in {"idle", "set"}
        /\ read' = [read EXCEPT ![t] = lock]
        /\ UNCHANGED <<status, open, task>>
  BY DEF Read, tunerVars
<1> QED BY <1>1 DEF IInv, ReadTypes, OldUnset

(* The tuner's thread acts, and forgets what it has read.                  *)
LEMMA KeepsWork ==
  ASSUME IInv, NEW t \in Tuners, Work(t)
  PROVE  IInv'
<1>1. /\ read' = [read EXCEPT ![t] = "unread"]
      /\ UNCHANGED <<open, task>>
  BY DEF Work
<1>2. PICK s \in Statuses :
        /\ status' = [status EXCEPT ![t] = s]
        /\ ~open[t] => s \in {"idle", "set"}
  BY DEF Work, SetFrontend, StatusAfterSet, Retune, Lock, NoLock, Rest,
     IInv, ReadTypes, OldUnset, Statuses
<1>3. ReadTypes'
  BY <1>1, <1>2 DEF IInv, ReadTypes
<1>4. ASSUME NEW u \in Tuners, ~open'[u] \/ read'[u] = "old"
      PROVE  status'[u] \in {"idle", "set"}
  <2>1. CASE u = t
    BY <1>1, <1>2, <1>4, <2>1 DEF IInv, ReadTypes
  <2>2. CASE u # t
    BY <1>1, <1>2, <1>4, <2>2 DEF IInv, ReadTypes, OldUnset
  <2> QED BY <2>1, <2>2
<1> QED BY <1>3, <1>4 DEF IInv, OldUnset

(* A tuner counts as locked only on the strength of a lock of the channel  *)
(* it is set to, though its thread reads the state without the mutex.      *)
THEOREM LocksAreFresh == Spec => LockIsFresh
<1> DEFINE Fresh ==
      \A t \in Tuners :
        read[t] # "unread" /\ read'[t] = "unread" /\ status'[t] = "locked"
        => read[t] = "this"
<1>1. Init => IInv
  BY DEF Init, IInv, ReadTypes, OldUnset, Statuses
<1>2. IInv /\ [Next]_vars => IInv'
  <2>1. IInv /\ UNCHANGED vars => IInv'
    BY DEF IInv, ReadTypes, OldUnset, vars
  <2> QED BY <2>1, KeepsSwitch, KeepsRest, KeepsRead, KeepsWork DEF Next
<1>3. IInv /\ [Next]_vars => [Fresh]_vars
  <2> SUFFICES ASSUME IInv, Next, NEW t \in Tuners, read[t] # "unread",
                      read'[t] = "unread", status'[t] = "locked"
               PROVE  read[t] = "this"
    OBVIOUS
  <2>1. Work(t)
    <3>1. read' # read
      OBVIOUS
    <3>2. ASSUME NEW u \in Tuners, NEW c \in Transponders, SwitchOthers(u, c)
          PROVE  FALSE
      BY <3>2, OutdatedIs DEF SwitchOthers, IInv
    <3>3. ~SwitchOwn
      BY OutdatedIs DEF SwitchOwn, IInv
    <3>4. ASSUME NEW u \in Tuners, Read(u)
          PROVE  FALSE
      BY <3>4 DEF Read, IInv, ReadTypes
    <3>5. ASSUME NEW u \in Tuners, Work(u)
          PROVE  u = t
      BY <3>5 DEF Work, IInv, ReadTypes
    <3> QED
      BY <3>1, <3>2, <3>3, <3>4, <3>5
      DEF Next, Switch, Receive, EitScan, Bond, UnBond, StopReceiver, PowerSave
  <2>2. Lock(t) \/ SetFrontend(t) \/ Retune(t) \/ NoLock(t) \/ Rest(t)
    BY <2>1 DEF Work
  <2>3. Lock(t)
    BY <2>2 DEF SetFrontend, StatusAfterSet, Retune, NoLock, Rest, IInv,
       ReadTypes, Statuses
  <2> QED BY <2>3 DEF Lock, IInv, ReadTypes, OldUnset
<1> QED BY <1>1, <1>2, <1>3, PTL DEF Spec, LockIsFresh

-----------------------------------------------------------------------------
(* The ring as a function of the links, which a step may change.           *)

Along(nx, S) == \A x \in S : nx[x] # None => nx[x] \in S

Reach(nx, t) ==
  {u \in Tuners : \A S \in SUBSET Tuners : t \in S /\ Along(nx, S) => u \in S}

Links == [Tuners -> Tuners \cup {None}]

(* Links that form rings of two tuners or more, each a closed circle.      *)
Circle(nx) ==
  \A t \in Tuners : nx[t] # None =>
    /\ nx[t] # t /\ nx[nx[t]] # None
    /\ \A u \in Tuners : nx[u] = nx[t] => u = t
    /\ \E u \in Reach(nx, t) : nx[u] = t

LEMMA RingIsReach ==
  ASSUME NEW t \in Tuners
  PROVE  Ring(t) = Reach(next, t) /\ Ring(t)' = Reach(next', t)
BY DEF Ring, Reach, Follows, Along, Bonded

(* What is reached first, what is reached from there, and that no more is. *)
LEMMA ReachSelf ==
  ASSUME NEW nx \in Links, NEW t \in Tuners
  PROVE  t \in Reach(nx, t) /\ Reach(nx, t) \subseteq Tuners
BY DEF Reach

LEMMA ReachNext ==
  ASSUME NEW nx \in Links, NEW t \in Tuners
  PROVE  Along(nx, Reach(nx, t))
<1> SUFFICES ASSUME NEW x \in Reach(nx, t), nx[x] # None
             PROVE  nx[x] \in Reach(nx, t)
  BY DEF Along
<1>1. x \in Tuners /\ nx[x] \in Tuners
  BY DEF Reach, Links
<1>2. ASSUME NEW S \in SUBSET Tuners, t \in S, Along(nx, S)
      PROVE  nx[x] \in S
  <2>1. x \in S
    BY <1>2 DEF Reach
  <2> QED BY <1>2, <2>1 DEF Along
<1> QED BY <1>1, <1>2 DEF Reach

LEMMA ReachLeast ==
  ASSUME NEW nx \in Links, NEW t \in Tuners,
         NEW S \in SUBSET Tuners, t \in S, Along(nx, S)
  PROVE  Reach(nx, t) \subseteq S
BY DEF Reach

LEMMA ReachTrans ==
  ASSUME NEW nx \in Links, NEW t \in Tuners, NEW u \in Reach(nx, t)
  PROVE  Reach(nx, u) \subseteq Reach(nx, t)
<1>1. Reach(nx, t) \in SUBSET Tuners /\ u \in Tuners
  BY DEF Reach
<1> QED BY <1>1, ReachNext, ReachLeast

(* From each tuner of a ring the others are reached.                       *)
LEMMA ReachBack ==
  ASSUME NEW nx \in Links, Circle(nx), NEW t \in Tuners,
         NEW u \in Reach(nx, t)
  PROVE  t \in Reach(nx, u)
<1>1. PICK S : S = {x \in Reach(nx, t) : t \in Reach(nx, x)}
  OBVIOUS
<1>2. S \in SUBSET Tuners /\ t \in S
  BY <1>1, ReachSelf
<1>3. ASSUME NEW x \in S, nx[x] # None
      PROVE  nx[x] \in S
  <2>1. x \in Tuners /\ x \in Reach(nx, t) /\ t \in Reach(nx, x)
    BY <1>1, <1>2
  <2>2. nx[x] \in Tuners /\ nx[x] \in Reach(nx, t)
    BY <1>3, <2>1, ReachNext DEF Links, Along
  <2>3. CASE t = x
    <3>1. PICK v \in Reach(nx, t) : nx[v] = t
      BY <1>3, <2>3 DEF Circle
    <3>2. v \in Tuners /\ nx[v] # None
      BY <3>1, ConstantsAssumption DEF Reach
    <3>3. PICK T : T = {t} \cup Reach(nx, nx[t])
      OBVIOUS
    <3>4. T \in SUBSET Tuners /\ t \in T /\ Along(nx, T)
      BY <2>2, <2>3, <3>3, ReachSelf, ReachNext DEF Along
    <3>5. v \in T
      BY <3>1, <3>4, ReachLeast
    <3>6. v \in Reach(nx, nx[t])
      BY <2>2, <2>3, <3>1, <3>3, <3>5, ReachSelf
    <3>7. t \in Reach(nx, nx[t])
      BY <2>2, <2>3, <3>1, <3>2, <3>6, ReachNext DEF Along
    <3> QED BY <1>1, <2>2, <2>3, <3>7
  <2>4. CASE t # x
    <3>1. PICK T : T = {x} \cup Reach(nx, nx[x])
      OBVIOUS
    <3>2. T \in SUBSET Tuners /\ x \in T /\ Along(nx, T)
      BY <2>1, <2>2, <3>1, ReachSelf, ReachNext DEF Along
    <3>3. t \in T
      BY <2>1, <3>2, ReachLeast
    <3> QED BY <1>1, <2>2, <2>4, <3>1, <3>3
  <2> QED BY <2>3, <2>4
<1>4. u \in S
  BY <1>2, <1>3, ReachLeast DEF Along
<1> QED BY <1>1, <1>4

LEMMA ReachSame ==
  ASSUME NEW nx \in Links, Circle(nx), NEW t \in Tuners,
         NEW u \in Reach(nx, t)
  PROVE  Reach(nx, u) = Reach(nx, t)
<1>1. u \in Tuners /\ t \in Reach(nx, u)
  BY ReachBack DEF Reach
<1> QED BY <1>1, ReachTrans

(* A tuner without a link is alone.                                        *)
LEMMA ReachAlone ==
  ASSUME NEW nx \in Links, NEW t \in Tuners, nx[t] = None
  PROVE  Reach(nx, t) = {t}
<1>1. {t} \in SUBSET Tuners /\ Along(nx, {t})
  BY DEF Along
<1> QED BY <1>1, ReachSelf, ReachLeast

(* BondDevices(): t comes between u and its successor.                     *)
LinkIn(nx, t, u) ==
  [nx EXCEPT ![t] = IF nx[u] # None THEN nx[u] ELSE u, ![u] = t]

LEMMA LinkInIs ==
  ASSUME NEW nx \in Links, Circle(nx), NEW t \in Tuners, NEW u \in Tuners,
         t # u, nx[t] = None
  PROVE  LET ny == LinkIn(nx, t, u) IN
         /\ ny \in Links
         /\ ny[u] = t /\ ny[t] = IF nx[u] # None THEN nx[u] ELSE u
         /\ ny[t] # t /\ ny[t] \in Tuners
         /\ \A x \in Tuners \ {t, u} : ny[x] = nx[x]
         /\ \A x \in Tuners : nx[x] # t
BY ConstantsAssumption DEF LinkIn, Links, Circle

(* What was reached is reached with the tuner inserted ...                 *)
LEMMA LinkInKeeps ==
  ASSUME NEW nx \in Links, Circle(nx), NEW t \in Tuners, NEW u \in Tuners,
         t # u, nx[t] = None, NEW x \in Tuners \ {t}
  PROVE  Reach(nx, x) \subseteq Reach(LinkIn(nx, t, u), x)
<1> DEFINE ny == LinkIn(nx, t, u)
<1>1. /\ ny \in Links
      /\ ny[u] = t /\ ny[t] = IF nx[u] # None THEN nx[u] ELSE u
      /\ \A y \in Tuners \ {t, u} : ny[y] = nx[y]
      /\ \A y \in Tuners : nx[y] # t
  BY LinkInIs
<1> HIDE DEF ny
<1>2. PICK S : S = Reach(ny, x) \ {t}
  OBVIOUS
<1>3. Reach(ny, x) \subseteq Tuners /\ x \in S /\ Along(ny, Reach(ny, x))
  BY <1>1, <1>2, ReachSelf, ReachNext
<1>4. ASSUME NEW y \in S, nx[y] # None
      PROVE  nx[y] \in S
  <2>1. y \in Tuners \ {t} /\ y \in Reach(ny, x) /\ nx[y] # t
    BY <1>1, <1>2, <1>3
  <2>2. CASE y = u
    <3>1. t \in Reach(ny, x)
      BY <1>1, <1>3, <2>1, <2>2, ConstantsAssumption DEF Along
    <3>2. nx[u] \in Reach(ny, x)
      BY <1>1, <1>3, <1>4, <2>2, <3>1, ConstantsAssumption DEF Along
    <3> QED BY <1>2, <2>1, <2>2, <3>2
  <2>3. CASE y # u
    BY <1>1, <1>2, <1>3, <1>4, <2>1, <2>3 DEF Along
  <2> QED BY <2>2, <2>3
<1>5. Reach(nx, x) \subseteq S
  BY <1>2, <1>3, <1>4, ReachLeast DEF Along
<1> QED BY <1>2, <1>5 DEF ny

(* ... and nothing else but that tuner.                                    *)
LEMMA LinkInAdds ==
  ASSUME NEW nx \in Links, Circle(nx), NEW t \in Tuners, NEW u \in Tuners,
         t # u, nx[t] = None, NEW x \in Tuners
  PROVE  Reach(LinkIn(nx, t, u), x)
           \subseteq {t} \cup Reach(nx, IF x = t THEN u ELSE x)
<1> DEFINE ny == LinkIn(nx, t, u)
<1>1. /\ ny \in Links
      /\ ny[u] = t /\ ny[t] = IF nx[u] # None THEN nx[u] ELSE u
      /\ \A y \in Tuners \ {t, u} : ny[y] = nx[y]
      /\ \A y \in Tuners : nx[y] # t
  BY LinkInIs
<1> HIDE DEF ny
<1>2. PICK z \in Tuners : z = IF x = t THEN u ELSE x
  OBVIOUS
<1>3. /\ z \in Reach(nx, z) /\ Reach(nx, z) \subseteq Tuners
      /\ Along(nx, Reach(nx, z))
  BY ReachSelf, ReachNext
<1>4. CASE u \in Reach(nx, z)
  <2>1. PICK S : S = {t} \cup Reach(nx, z)
    OBVIOUS
  <2>2. S \in SUBSET Tuners /\ x \in S
    BY <1>2, <1>3, <2>1
  <2>3. ASSUME NEW y \in S, ny[y] # None
        PROVE  ny[y] \in S
    BY <1>1, <1>3, <1>4, <2>1, <2>2, <2>3 DEF Along
  <2>4. Reach(ny, x) \subseteq S
    BY <1>1, <2>2, <2>3, ReachLeast DEF Along
  <2> QED BY <1>2, <2>1, <2>4 DEF ny
<1>5. CASE u \notin Reach(nx, z)
  <2>1. x # t /\ x = z
    BY <1>2, <1>3, <1>5
  <2>2. t \notin Reach(nx, x)
    <3>1. PICK S : S = Tuners \ {t}
      OBVIOUS
    <3>2. S \in SUBSET Tuners /\ x \in S /\ Along(nx, S)
      BY <1>1, <2>1, <3>1 DEF Along, Links
    <3> QED BY <3>1, <3>2, ReachLeast
  <2>3. PICK S : S = Reach(nx, x)
    OBVIOUS
  <2>4. S \in SUBSET Tuners /\ x \in S /\ Along(nx, S)
    BY <1>3, <2>1, <2>3
  <2>5. Along(ny, S)
    BY <1>1, <1>5, <2>1, <2>2, <2>3, <2>4 DEF Along
  <2>6. Reach(ny, x) \subseteq S
    BY <1>1, <2>4, <2>5, ReachLeast
  <2> QED BY <2>1, <2>3, <2>6 DEF ny
<1> QED BY <1>4, <1>5

LEMMA LinkInCircle ==
  ASSUME NEW nx \in Links, Circle(nx), NEW t \in Tuners, NEW u \in Tuners,
         t # u, nx[t] = None
  PROVE  Circle(LinkIn(nx, t, u))
<1> DEFINE ny == LinkIn(nx, t, u)
<1>1. /\ ny \in Links
      /\ ny[u] = t /\ ny[t] = IF nx[u] # None THEN nx[u] ELSE u
      /\ ny[t] # t /\ ny[t] \in Tuners
      /\ \A y \in Tuners \ {t, u} : ny[y] = nx[y]
      /\ \A y \in Tuners : nx[y] # t
  BY LinkInIs
<1>2. \A x \in Tuners \ {t} : Reach(nx, x) \subseteq Reach(ny, x)
  BY LinkInKeeps
<1> HIDE DEF ny
<1>0. None \notin Tuners
  BY ConstantsAssumption
<1>3. ASSUME NEW x \in Tuners, ny[x] # None
      PROVE  /\ ny[x] # x /\ ny[ny[x]] # None
             /\ \A y \in Tuners : ny[y] = ny[x] => y = x
  BY <1>0, <1>1, <1>3 DEF Circle, Links
<1>4. u \in Reach(ny, t)
  <2>1. ny[t] \in Reach(ny, t)
    BY <1>0, <1>1, ReachSelf, ReachNext DEF Along
  <2>2. CASE nx[u] = None
    BY <1>1, <2>1, <2>2
  <2>3. CASE nx[u] # None
    <3>1. nx[u] \in Tuners \ {t} /\ u \in Reach(nx, u) /\ nx[u] \in Reach(nx, u)
      BY <1>1, <2>3, ReachSelf, ReachNext DEF Along
    <3>2. u \in Reach(nx, nx[u])
      BY <3>1, ReachBack
    <3>3. u \in Reach(ny, nx[u])
      BY <1>2, <3>1, <3>2
    <3> QED BY <1>1, <2>1, <2>3, <3>3, ReachTrans
  <2> QED BY <2>2, <2>3
<1>5. ASSUME NEW x \in Tuners, ny[x] # None
      PROVE  \E y \in Reach(ny, x) : ny[y] = x
  <2>1. CASE x = t
    BY <1>1, <1>4, <2>1
  <2>2. CASE x # t /\ x = u /\ nx[u] = None
    <3>1. t \in Reach(ny, u) /\ ny[t] = u
      BY <1>0, <1>1, <2>2, ReachSelf, ReachNext DEF Along
    <3> QED BY <2>2, <3>1
  <2>3. CASE x # t /\ nx[x] # None
    <3>1. PICK y \in Reach(nx, x) : nx[y] = x
      BY <2>3 DEF Circle
    <3>2. y \in Reach(ny, x) /\ y \in Tuners
      BY <1>2, <2>3, <3>1 DEF Reach
    <3>3. CASE y = u
      <4>1. t \in Reach(ny, x) /\ ny[t] = x
        BY <1>0, <1>1, <3>1, <3>2, <3>3, ReachNext DEF Along
      <4> QED BY <4>1
    <3>4. CASE y # u
      <4>1. y # t
        BY <3>1, <1>0
      <4> QED BY <1>1, <3>1, <3>2, <3>4, <4>1
    <3> QED BY <3>3, <3>4
  <2> QED BY <1>1, <1>5, <2>1, <2>2, <2>3
<1> QED BY <1>3, <1>5 DEF Circle, ny

(* UnBondDevices(): the predecessor u of t gets t's successor, or none.    *)
LinkOut(nx, t, u) ==
  [nx EXCEPT ![t] = None, ![u] = IF nx[t] = u THEN None ELSE nx[t]]

LEMMA LinkOutIs ==
  ASSUME NEW nx \in Links, Circle(nx), NEW t \in Tuners, nx[t] # None,
         NEW u \in Tuners, nx[u] = t
  PROVE  LET ny == LinkOut(nx, t, u) IN
         /\ ny \in Links /\ t # u
         /\ ny[t] = None /\ ny[u] = IF nx[t] = u THEN None ELSE nx[t]
         /\ \A x \in Tuners \ {t, u} : ny[x] = nx[x] /\ nx[x] # t
         /\ nx[t] \in Tuners \ {t}
BY ConstantsAssumption DEF LinkOut, Links, Circle

LEMMA LinkOutKeeps ==
  ASSUME NEW nx \in Links, Circle(nx), NEW t \in Tuners, nx[t] # None,
         NEW u \in Tuners, nx[u] = t, NEW x \in Tuners \ {t}
  PROVE  Reach(nx, x) \ {t} \subseteq Reach(LinkOut(nx, t, u), x)
<1> DEFINE ny == LinkOut(nx, t, u)
<1>1. /\ ny \in Links /\ t # u
      /\ ny[t] = None /\ ny[u] = IF nx[t] = u THEN None ELSE nx[t]
      /\ \A y \in Tuners \ {t, u} : ny[y] = nx[y] /\ nx[y] # t
      /\ nx[t] \in Tuners \ {t}
  BY LinkOutIs
<1> HIDE DEF ny
<1>2. PICK R : R = Reach(ny, x)
  OBVIOUS
<1>3. R \in SUBSET Tuners /\ x \in R /\ Along(ny, R)
  BY <1>1, <1>2, ReachSelf, ReachNext
<1>4. PICK S : S = (R \ {t}) \cup (IF u \in R THEN {t} ELSE {})
  OBVIOUS
<1>5. ASSUME NEW y \in S, nx[y] # None
      PROVE  nx[y] \in S
  <2>0. None \notin Tuners
    BY ConstantsAssumption
  <2>1. CASE y = t
    <3>1. u \in R /\ (nx[t] = u \/ (ny[u] = nx[t] /\ nx[t] # None))
      BY <1>1, <1>4, <2>0, <2>1
    <3> QED BY <1>1, <1>3, <1>4, <2>1, <3>1 DEF Along
  <2>2. CASE y = u
    BY <1>1, <1>4, <2>2
  <2>3. CASE y \notin {t, u}
    BY <1>1, <1>3, <1>4, <1>5, <2>3 DEF Along
  <2> QED BY <2>1, <2>2, <2>3
<1>6. S \in SUBSET Tuners /\ x \in S
  BY <1>3, <1>4
<1>7. Reach(nx, x) \subseteq S
  BY <1>5, <1>6, ReachLeast DEF Along
<1> QED BY <1>2, <1>4, <1>7 DEF ny

LEMMA LinkOutAdds ==
  ASSUME NEW nx \in Links, Circle(nx), NEW t \in Tuners, nx[t] # None,
         NEW u \in Tuners, nx[u] = t, NEW x \in Tuners
  PROVE  Reach(LinkOut(nx, t, u), x) \subseteq Reach(nx, x)
<1> DEFINE ny == LinkOut(nx, t, u)
<1>1. /\ ny \in Links /\ t # u
      /\ ny[t] = None /\ ny[u] = IF nx[t] = u THEN None ELSE nx[t]
      /\ \A y \in Tuners \ {t, u} : ny[y] = nx[y] /\ nx[y] # t
      /\ nx[t] \in Tuners \ {t}
  BY LinkOutIs
<1> HIDE DEF ny
<1>2. PICK S : S = Reach(nx, x)
  OBVIOUS
<1>3. S \in SUBSET Tuners /\ x \in S /\ Along(nx, S)
  BY <1>2, ReachSelf, ReachNext
<1>4. ASSUME NEW y \in S, ny[y] # None
      PROVE  ny[y] \in S
  <2>0. None \notin Tuners
    BY ConstantsAssumption
  <2>1. CASE y = u
    BY <1>1, <1>3, <1>4, <2>0, <2>1 DEF Along
  <2>2. CASE y # u
    BY <1>1, <1>3, <1>4, <2>2 DEF Along
  <2> QED BY <2>1, <2>2
<1>5. Reach(ny, x) \subseteq S
  BY <1>1, <1>3, <1>4, ReachLeast DEF Along
<1> QED BY <1>2, <1>5 DEF ny

LEMMA LinkOutCircle ==
  ASSUME NEW nx \in Links, Circle(nx), NEW t \in Tuners, nx[t] # None,
         NEW u \in Tuners, nx[u] = t
  PROVE  Circle(LinkOut(nx, t, u))
<1> DEFINE ny == LinkOut(nx, t, u)
<1>1. /\ ny \in Links /\ t # u
      /\ ny[t] = None /\ ny[u] = IF nx[t] = u THEN None ELSE nx[t]
      /\ \A y \in Tuners \ {t, u} : ny[y] = nx[y] /\ nx[y] # t
      /\ nx[t] \in Tuners \ {t}
  BY LinkOutIs
<1>2. \A x \in Tuners \ {t} : Reach(nx, x) \ {t} \subseteq Reach(ny, x)
  BY LinkOutKeeps
<1> HIDE DEF ny
<1>0. None \notin Tuners
  BY ConstantsAssumption
<1>3. ASSUME NEW x \in Tuners, ny[x] # None
      PROVE  /\ ny[x] # x /\ ny[ny[x]] # None
             /\ \A y \in Tuners : ny[y] = ny[x] => y = x
  <2>1. x # t /\ nx[x] # None
    BY <1>0, <1>1, <1>3
  <2>2. CASE x = u
    <3>1. ny[u] = nx[t] /\ nx[t] # u
      BY <1>1, <1>3, <2>2
    <3>2. nx[nx[t]] # None /\ \A y \in Tuners : nx[y] = nx[t] => y = t
      BY DEF Circle
    <3> QED BY <1>0, <1>1, <2>2, <3>1, <3>2
  <2>3. CASE x # u
    <3>1. ny[x] = nx[x] /\ nx[x] # t /\ nx[x] \in Tuners
      BY <1>1, <2>1, <2>3 DEF Links
    <3>2. nx[x] # x /\ nx[nx[x]] # None /\ \A y \in Tuners : nx[y] = nx[x] => y = x
      BY <2>1 DEF Circle
    <3>3. nx[x] = u => nx[t] # u
      BY <2>1, <3>2
    <3> QED BY <1>0, <1>1, <2>1, <2>3, <3>1, <3>2, <3>3
  <2> QED BY <2>2, <2>3
<1>5. ASSUME NEW x \in Tuners, ny[x] # None
      PROVE  \E y \in Reach(ny, x) : ny[y] = x
  <2>1. x # t /\ nx[x] # None
    BY <1>0, <1>1, <1>5
  <2>2. PICK y \in Reach(nx, x) : nx[y] = x
    BY <2>1 DEF Circle
  <2>3. y \in Tuners
    BY <2>2 DEF Reach
  <2>4. CASE y = t
    <3>1. u # x
      BY <1>1, <1>5, <2>2, <2>4
    <3>2. PICK v \in Reach(nx, t) : nx[v] = t
      BY DEF Circle
    <3>3. v \in Tuners /\ v = u
      <4>1. v \in Tuners /\ nx[u] # None /\ nx[v] = nx[u]
        BY <1>0, <3>2 DEF Reach
      <4>2. \A z \in Tuners : nx[z] = nx[u] => z = u
        BY <4>1 DEF Circle
      <4> QED BY <4>1, <4>2
    <3>4. u \in Reach(nx, x)
      BY <2>1, <2>2, <2>4, <3>2, <3>3, ReachTrans
    <3>5. u \in Reach(ny, x)
      BY <1>1, <1>2, <2>1, <3>4
    <3> QED BY <1>1, <2>2, <2>4, <3>1, <3>5
  <2>5. CASE y # t
    <3>1. y # u
      BY <2>1, <2>2
    <3> QED BY <1>1, <1>2, <2>1, <2>2, <2>3, <2>5, <3>1
  <2> QED BY <2>4, <2>5
<1> QED BY <1>3, <1>5 DEF Circle, ny

-----------------------------------------------------------------------------
(* A ring has one master at most, and so has a tuner that is alone.        *)
OneMaster ==
  \A t \in Tuners : \A u, v \in Ring(t) : master[u] /\ master[v] => u = v

Rings ==
  /\ next \in Links /\ master \in [Tuners -> BOOLEAN]
  /\ Circle(next) /\ OneMaster

(* The ring is the same seen from each of its tuners, all of them bonded.  *)
LEMMA RingIs ==
  ASSUME next \in Links, Circle(next), NEW t \in Tuners
  PROVE  /\ t \in Ring(t) /\ Ring(t) \subseteq Tuners
         /\ ~Bonded(t) => Ring(t) = {t}
         /\ \A u \in Ring(t) : Ring(u) = Ring(t) /\ (Bonded(t) <=> Bonded(u))
<1>1. t \in Ring(t) /\ Ring(t) \subseteq Tuners
  BY RingIsReach, ReachSelf
<1>2. ~Bonded(t) => Ring(t) = {t}
  BY RingIsReach, ReachAlone DEF Bonded
<1>3. ASSUME NEW u \in Ring(t)
      PROVE  Ring(u) = Ring(t) /\ (Bonded(t) <=> Bonded(u))
  <2>1. u \in Tuners /\ Ring(u) = Ring(t)
    BY <1>1, <1>3, RingIsReach, ReachSame
  <2>2. ~Bonded(u) => Ring(u) = {u}
    BY <2>1, RingIsReach, ReachAlone DEF Bonded
  <2> QED BY <1>1, <1>2, <1>3, <2>1, <2>2
<1> QED BY <1>1, <1>2, <1>3

LEMMA RingStays ==
  ASSUME next' = next, NEW t \in Tuners
  PROVE  Ring(t)' = Ring(t) /\ (Bonded(t)' <=> Bonded(t))
BY RingIsReach DEF Bonded

(* The master found or made: it is in the ring, and alone there.           *)
LEMMA MasterOfIs ==
  ASSUME Rings, NEW t \in Tuners
  PROVE  /\ MasterOf(t) \in Ring(t)
         /\ ~Bonded(t) => MasterOf(t) = t
         /\ Bonded(t) => /\ \A u \in Ring(t) : master[u] => u = MasterOf(t)
                         /\ ~master[MasterOf(t)] => MasterOf(t) = t
         /\ WithMaster(t) \in [Tuners -> BOOLEAN]
         /\ \A u \in Tuners :
              WithMaster(t)[u] <=> master[u] \/ (Bonded(t) /\ u = MasterOf(t))
<1>1. t \in Ring(t) /\ Ring(t) \subseteq Tuners
  BY RingIs DEF Rings
<1>2. CASE ~Bonded(t) \/ master[t] \/ \A u \in Ring(t) : ~master[u]
  <2>1. MasterOf(t) = t
    BY <1>2 DEF MasterOf
  <2>2. Bonded(t) => \A u \in Ring(t) : master[u] => u = t
    BY <1>1, <1>2 DEF Rings, OneMaster
  <2> QED BY <1>1, <2>1, <2>2 DEF WithMaster, Rings
<1>3. CASE ~(~Bonded(t) \/ master[t] \/ \A u \in Ring(t) : ~master[u])
  <2>1. MasterOf(t) \in Ring(t) /\ master[MasterOf(t)]
    BY <1>3 DEF MasterOf
  <2>2. \A u \in Ring(t) : master[u] => u = MasterOf(t)
    BY <2>1 DEF Rings, OneMaster
  <2> QED BY <1>1, <1>3, <2>1, <2>2 DEF WithMaster, Rings
<1> QED BY <1>2, <1>3

(* BondDevices() and UnBondDevices() leave circles with a master at most.  *)
LEMMA BondKeepsRings ==
  ASSUME Rings, NEW t \in Tuners, NEW u \in Tuners, Bond(t, u)
  PROVE  Rings'
<1>1. t # u /\ next[t] = None /\ next' = LinkIn(next, t, u)
  BY DEF Bond, Bonded, Insert, LinkIn
<1>2. next' \in Links /\ Circle(next')
  BY <1>1, LinkInIs, LinkInCircle DEF Rings
<1>3. /\ master' \in [Tuners -> BOOLEAN]
      /\ \A x \in Tuners : master'[x] => x # t /\ master[x]
  BY DEF Bond, Rings
<1>4. ASSUME NEW x \in Tuners, NEW a \in Ring(x)', NEW b \in Ring(x)',
             master'[a], master'[b]
      PROVE  a = b
  <2>1. PICK z \in Tuners : z = IF x = t THEN u ELSE x
    OBVIOUS
  <2>2. Ring(x)' \subseteq {t} \cup Ring(z) /\ Ring(x)' \subseteq Tuners
    BY <1>1, <1>2, <2>1, RingIsReach, LinkInAdds, ReachSelf DEF Rings
  <2>3. /\ a \in Ring(z) /\ master[a]
        /\ b \in Ring(z) /\ master[b]
    BY <1>3, <1>4, <2>2
  <2> QED BY <2>1, <2>3 DEF Rings, OneMaster
<1> QED BY <1>2, <1>3, <1>4 DEF Rings, OneMaster

LEMMA UnBondKeepsRings ==
  ASSUME Rings, NEW t \in Tuners, UnBond(t)
  PROVE  Rings'
<1>1. PICK u : u = CHOOSE v \in Ring(t) : next[v] = t
  OBVIOUS
<1>2. u \in Tuners /\ next[u] = t
  <2>1. \E v \in Ring(t) : next[v] = t
    BY RingIsReach DEF UnBond, Bonded, Rings, Circle
  <2> QED BY <1>1, <2>1, RingIs DEF Rings
<1>3. next[t] # None /\ next' = LinkOut(next, t, u)
  BY <1>1 DEF UnBond, Bonded, LinkOut
<1>4. next' \in Links /\ Circle(next')
  BY <1>2, <1>3, LinkOutIs, LinkOutCircle DEF Rings
<1>5. /\ master' \in [Tuners -> BOOLEAN]
      /\ \A x \in Tuners : master'[x] => master[x]
  BY DEF UnBond, Rings
<1>6. ASSUME NEW x \in Tuners, NEW a \in Ring(x)', NEW b \in Ring(x)',
             master'[a], master'[b]
      PROVE  a = b
  <2>1. Ring(x)' \subseteq Ring(x) /\ Ring(x) \subseteq Tuners
    BY <1>2, <1>3, RingIsReach, LinkOutAdds, RingIs DEF Rings
  <2> QED BY <1>5, <1>6, <2>1 DEF Rings, OneMaster
<1> QED BY <1>4, <1>5, <1>6 DEF Rings, OneMaster

(* GetBondedMaster() makes no second one.                                  *)
LEMMA WithMasterKeepsRings ==
  ASSUME Rings, NEW t \in Tuners, next' = next, master' = WithMaster(t)
  PROVE  Rings'
<1>1. ASSUME NEW x \in Tuners, NEW a \in Ring(x), NEW b \in Ring(x),
             master'[a], master'[b]
      PROVE  a = b
  <2>1. a \in Tuners /\ b \in Tuners
    BY RingIs DEF Rings
  <2>2. CASE master[a] /\ master[b]
    BY <2>2 DEF Rings, OneMaster
  <2>3. CASE Bonded(t) /\ MasterOf(t) \in {a, b}
    <3>1. Ring(x) = Ring(t)
      BY <2>1, <2>3, MasterOfIs, RingIs DEF Rings
    <3> QED BY <1>1, <2>1, <2>3, <3>1, MasterOfIs
  <2> QED BY <1>1, <2>1, <2>2, <2>3, MasterOfIs
<1>2. next' \in Links /\ Circle(next') /\ master' \in [Tuners -> BOOLEAN]
  BY MasterOfIs DEF Rings
<1> QED BY <1>1, <1>2, RingStays DEF Rings, OneMaster

LEMMA RingsAreClosed == Rings => RingsClosed
<1> SUFFICES ASSUME Rings, NEW t \in Tuners, Bonded(t)
             PROVE  \E u \in Ring(t) : next[u] = t
  BY DEF RingsClosed, Rings, OneMaster
<1> QED BY RingIsReach DEF Rings, Circle, Bonded

-----------------------------------------------------------------------------
(* The cable, while no frontend is closed to save power.                   *)
Switched(t) == channel[t] # NoTransponder

(* A tuner at work was switched, so was every master but the one about to  *)
(* be, and a ring with a tuner that was switched has a master.             *)
SwitchOver ==
  /\ \A t \in Tuners : open[t]
  /\ \A t \in Tuners : status[t] # "idle" \/ last[t] # None => Switched(t)
  /\ \A t \in Tuners :
       master[t] => Switched(t) \/ (task # NoTask /\ task.tuner = t)
  /\ \A t \in Tuners : Bonded(t) /\ Switched(t) => \E m \in Ring(t) : master[m]
  /\ ~DiSEqC => \A t \in Tuners : last[t] = None

(* What the master sends is what it sent last, and the band of its channel *)
(* once it is past "set"; one that works is idle only before any is set.   *)
Powered ==
  \A m \in Tuners : Bonded(m) /\ master[m] =>
    /\ last[m] # None => lnb[m] = last[m]
    /\ status[m] \notin {"idle", "set"} => lnb[m] = Band[channel[m]]
    /\ m \notin Broken /\ status[m] = "idle" =>
         ~Switched(m) /\ \A u \in Ring(m) : status[u] = "idle"

(* The tuners at work have the master's band, if it is not to be switched. *)
SameBand ==
  \A m \in Tuners : Bonded(m) /\ master[m] =>
    \A t \in Ring(m) : status[t] # "idle" =>
      \/ Band[channel[m]] = Band[channel[t]]
      \/ task # NoTask /\ task.tuner = m

(* A tuner about to be switched finds the others at work in its band.      *)
TaskOk ==
  task # NoTask =>
    /\ prio[task.tuner] > 0 => channel[task.tuner] = task.channel
    /\ Bonded(task.tuner) => \E m \in Ring(task.tuner) : master[m]
    /\ \A m \in Tuners : Bonded(m) /\ master[m] /\ task.tuner \in Ring(m) =>
         /\ m = task.tuner => \A u \in Ring(m) \ {m} :
              status[u] # "idle" => Band[channel[u]] = Band[task.channel]
         /\ m # task.tuner => Band[channel[m]] = Band[task.channel]

Cable == SwitchOver /\ Powered /\ SameBand /\ TaskOk

SharedCable == TypeOK /\ Rings /\ (~pausing => Cable)

(* What switching the others on the way comes to, with a master m.         *)
LEMMA OnTheWay ==
  ASSUME TypeOK, Rings, NEW t \in Tuners, NEW c \in Transponders,
         SwitchOthers(t, c), NEW m, m = MasterOf(t)
  PROVE  /\ m \in Ring(t) /\ m \in Tuners
         /\ \A x \in Tuners : master'[x] <=> master[x] \/ (Bonded(t) /\ x = m)
         /\ Bonded(t) => /\ \A u \in Ring(t) : master[u] => u = m
                         /\ ~master[m] => m = t
         /\ \/ /\ Bonded(t) => Band[c] = Band[channel[m]]
               /\ UNCHANGED <<status, channel, lnb>>
            \/ /\ Bonded(t) /\ Band[c] # Band[channel[m]]
               /\ \A x \in Tuners :
                    /\ x # m /\ x \in Ring(t) =>
                         status'[x] = "idle" /\ channel'[x] = channel[x]
                    /\ x = m \/ x \notin Ring(t) => lnb'[x] = lnb[x]
                    /\ x = m /\ m # t => status'[x] = "set" /\ channel'[x] = c
                    /\ (x = m /\ m = t) \/ x \notin Ring(t) =>
                         status'[x] = status[x] /\ channel'[x] = channel[x]
<1>1. /\ m \in Ring(t) /\ m \in Tuners
      /\ Ring(m) = Ring(t)
      /\ \A x \in Tuners : master'[x] <=> master[x] \/ (Bonded(t) /\ x = m)
      /\ Bonded(t) => /\ \A u \in Ring(t) : master[u] => u = m
                      /\ ~master[m] => m = t
  BY MasterOfIs, RingIs DEF SwitchOthers, Rings
<1>2. CASE Bonded(t) => Band[c] = Band[channel[m]]
  <2>1. Idled(t, c) = {} /\ SetOnTheWay(t, c) = {}
    BY <1>2 DEF Idled, SetOnTheWay
  <2>2. UNCHANGED <<status, channel, lnb>>
    BY <2>1 DEF SwitchOthers, TypeOK
  <2> QED BY <1>1, <1>2, <2>2
<1>3. CASE Bonded(t) /\ Band[c] # Band[channel[m]]
  <2>1. /\ Idled(t, c) = Ring(t) \ {m}
        /\ SetOnTheWay(t, c) = IF m # t THEN {m} ELSE {}
    BY <1>1, <1>3 DEF Idled, SetOnTheWay, Others
  <2>2. /\ \A x \in Tuners :
             /\ status'[x] = IF x \in SetOnTheWay(t, c) THEN "set"
                             ELSE IF x \in Idled(t, c) THEN "idle" ELSE status[x]
             /\ channel'[x] = IF x \in SetOnTheWay(t, c) THEN c ELSE channel[x]
             /\ x \notin Idled(t, c) => lnb'[x] = lnb[x]
    BY DEF SwitchOthers
  <2> QED BY <1>1, <1>3, <2>1, <2>2
<1> QED BY <1>1, <1>2, <1>3

(* A device is cleared and its ring prepared: the others at work keep the  *)
(* band of a master, or the tuner about to be switched finds its own.      *)
LEMMA PreparedCable ==
  ASSUME TypeOK, Rings, Cable, task = NoTask,
         NEW t \in Tuners, NEW c \in Transponders,
         Reopen(t), SwitchOthers(t, c), next' = next,
         task' # NoTask, task'.tuner = t, task'.channel = c,
         prio'[t] > 0 => channel'[t] = c
  PROVE  Cable'
<1>1. open' = open /\ last' = last
  BY DEF Reopen, Cable, SwitchOver, TypeOK
<1>2. PICK m : m = MasterOf(t)
  OBVIOUS
<1>3. /\ m \in Ring(t) /\ m \in Tuners
      /\ \A x \in Tuners : master'[x] <=> master[x] \/ (Bonded(t) /\ x = m)
      /\ Bonded(t) => /\ \A u \in Ring(t) : master[u] => u = m
                      /\ ~master[m] => m = t
  BY <1>2, OnTheWay
<1>4. \/ /\ Bonded(t) => Band[c] = Band[channel[m]]
         /\ UNCHANGED <<status, channel, lnb>>
      \/ /\ Bonded(t) /\ Band[c] # Band[channel[m]]
         /\ \A x \in Tuners :
              /\ x # m /\ x \in Ring(t) =>
                   status'[x] = "idle" /\ channel'[x] = channel[x]
              /\ x = m \/ x \notin Ring(t) => lnb'[x] = lnb[x]
              /\ x = m /\ m # t => status'[x] = "set" /\ channel'[x] = c
              /\ (x = m /\ m = t) \/ x \notin Ring(t) =>
                   status'[x] = status[x] /\ channel'[x] = channel[x]
  BY <1>2, OnTheWay
<1>5. /\ c # NoTransponder
      /\ \A x \in Tuners : Ring(x)' = Ring(x) /\ (Bonded(x)' <=> Bonded(x))
      /\ \A x \in Tuners : x \in Ring(x) /\ Ring(x) \subseteq Tuners
      /\ \A x \in Tuners : \A u \in Ring(x) :
           Ring(u) = Ring(x) /\ (Bonded(x) <=> Bonded(u))
  BY RingStays, RingIs, ConstantsAssumption DEF Rings
<1>6. \A x \in Tuners : master[x] => Switched(x)
  BY DEF Cable, SwitchOver
<1>7. \A x \in Tuners : Switched(x) => Switched(x)'
  BY <1>4, <1>5 DEF Switched
(* A ring that has no master yet was never switched.                       *)
<1>8. Bonded(t) /\ ~master[m] =>
        \A x \in Ring(t) : ~Switched(x) /\ status[x] = "idle" /\ last[x] = None
  <2> SUFFICES ASSUME Bonded(t), ~master[m], NEW x \in Ring(t)
               PROVE  ~Switched(x)
    BY <1>5 DEF Cable, SwitchOver
  <2>1. \A u \in Ring(x) : ~master[u]
    BY <1>3, <1>5
  <2> QED BY <1>5, <2>1 DEF Cable, SwitchOver
(* A master of the ring is the one found or made.                          *)
<1>9. ASSUME NEW x \in Tuners, Bonded(x), master'[x], t \in Ring(x)
      PROVE  x = m
  BY <1>3, <1>5, <1>9
<1>10. SwitchOver'
  <2>1. \A x \in Tuners : status'[x] # "idle" \/ last'[x] # None => Switched(x)'
    <3> SUFFICES ASSUME NEW x \in Tuners, status'[x] # "idle" \/ last'[x] # None
                 PROVE  Switched(x)'
      OBVIOUS
    <3>1. status[x] # "idle" \/ last[x] # None => Switched(x)
      BY DEF Cable, SwitchOver
    <3>2. status[x] = "idle" /\ status'[x] # "idle" => channel'[x] = c
      BY <1>4
    <3> QED BY <1>1, <1>5, <1>7, <3>1, <3>2 DEF Switched
  <2>2. \A x \in Tuners : master'[x] => Switched(x)' \/ x = t
    BY <1>3, <1>6, <1>7
  <2>3. ASSUME NEW x \in Tuners, Bonded(x), Switched(x)'
        PROVE  \E u \in Ring(x) : master'[u]
    <3>1. CASE Switched(x)
      <4>1. PICK u \in Ring(x) : master[u]
        BY <2>3, <3>1 DEF Cable, SwitchOver
      <4> QED BY <1>3, <1>5, <4>1
    <3>2. CASE ~Switched(x)
      <4>1. x = m /\ Bonded(t)
        BY <1>4, <2>3, <3>2 DEF Switched
      <4> QED BY <1>3, <1>5, <4>1
    <3> QED BY <3>1, <3>2
  <2> QED BY <1>1, <1>5, <2>1, <2>2, <2>3 DEF Cable, SwitchOver
<1>11. Powered'
  <2> SUFFICES ASSUME NEW x \in Tuners, Bonded(x), master'[x]
               PROVE  /\ last'[x] # None => lnb'[x] = last'[x]
                      /\ status'[x] \notin {"idle", "set"}
                           => lnb'[x] = Band[channel'[x]]
                      /\ x \notin Broken /\ status'[x] = "idle" =>
                           /\ ~Switched(x)'
                           /\ \A u \in Ring(x) : status'[u] = "idle"
    BY <1>5 DEF Powered
  <2>1. lnb'[x] = lnb[x]
    BY <1>3, <1>4, <1>5, <1>9
  <2>2. CASE master[x]
    <3>1. /\ last[x] # None => lnb[x] = last[x]
          /\ status[x] \notin {"idle", "set"} => lnb[x] = Band[channel[x]]
          /\ x \notin Broken => status[x] # "idle"
      BY <1>6, <2>2 DEF Cable, Powered
    <3>2. \/ status'[x] = status[x] /\ channel'[x] = channel[x]
          \/ status'[x] = "set"
      BY <1>4, <1>5, <1>9
    <3> QED BY <1>1, <2>1, <3>1, <3>2
  <2>3. CASE ~master[x]
    <3>1. Bonded(t) /\ x = m /\ x = t
      BY <1>3, <2>3
    <3>2. \A u \in Ring(x) : status'[u] = "idle" /\ channel'[u] = channel[u]
      BY <1>4, <1>5, <1>8, <2>3, <3>1
    <3> QED BY <1>1, <1>5, <1>8, <2>3, <3>1, <3>2 DEF Switched
  <2> QED BY <2>2, <2>3
<1>12. SameBand'
  <2> SUFFICES ASSUME NEW x \in Tuners, Bonded(x), master'[x], x # t,
                      NEW u \in Ring(x), status'[u] # "idle", u # x
               PROVE  Band[channel'[x]] = Band[channel'[u]]
    BY <1>5 DEF SameBand
  <2>1. master[x] /\ u \in Tuners
    BY <1>3, <1>5
  <2>2. status[u] # "idle" => Band[channel[x]] = Band[channel[u]]
    BY <2>1 DEF Cable, SameBand
  <2>3. CASE t \in Ring(x)
    BY <1>4, <1>5, <1>9, <2>1, <2>2, <2>3
  <2>4. CASE t \notin Ring(x)
    <3>1. x \notin Ring(t) /\ u \notin Ring(t)
      BY <1>5, <2>1, <2>4
    <3> QED BY <1>4, <2>1, <2>2, <3>1
  <2> QED BY <2>3, <2>4
<1>13. TaskOk'
  <2>1. Bonded(t) => \E u \in Ring(t) : master'[u]
    BY <1>3
  <2>2. ASSUME Bonded(t), m = t, NEW u \in Ring(t) \ {t}, status'[u] # "idle"
        PROVE  Band[channel'[u]] = Band[c]
    <3>1. /\ Band[c] = Band[channel[m]]
          /\ status'[u] = status[u] /\ channel'[u] = channel[u]
      BY <1>4, <1>5, <2>2
    <3>2. master[m]
      BY <1>8, <2>2, <3>1
    <3> QED BY <2>2, <3>1, <3>2 DEF Cable, SameBand
  <2>3. Bonded(t) /\ m # t => Band[channel'[m]] = Band[c]
    BY <1>3, <1>4
  <2>4. ASSUME NEW x \in Tuners, Bonded(x), master'[x], t \in Ring(x)
        PROVE  /\ x = t => \A u \in Ring(x) \ {x} :
                    status'[u] # "idle" => Band[channel'[u]] = Band[c]
               /\ x # t => Band[channel'[x]] = Band[c]
    <3>1. x = m /\ Ring(x) = Ring(t) /\ Bonded(t)
      BY <1>5, <1>9, <2>4
    <3> QED BY <2>2, <2>3, <3>1
  <2> QED BY <1>5, <2>1, <2>4 DEF TaskOk
<1> QED BY <1>10, <1>11, <1>12, <1>13 DEF Cable

(* The tuner itself is set, in the band the others at work have.           *)
LEMMA SwitchedCable ==
  ASSUME TypeOK, Rings, Cable, SwitchOwn
  PROVE  Cable'
<1>1. PICK t, c : t = task.tuner /\ c = task.channel
  OBVIOUS
<1>2. /\ t \in Tuners /\ c \in Transponders /\ c # NoTransponder
      /\ task # NoTask /\ task' = NoTask
      /\ UNCHANGED <<next, master, open, last, lnb>>
      /\ status' = [status EXCEPT ![t] = IF TunedTo(t, c) THEN @ ELSE "set"]
      /\ channel' = [channel EXCEPT ![t] = c]
  BY <1>1, ConstantsAssumption DEF SwitchOwn, ringVars, TypeOK, Tasks
<1>3. /\ \A x \in Tuners \ {t} : status'[x] = status[x] /\ channel'[x] = channel[x]
      /\ channel'[t] = c /\ status'[t] # "idle"
      /\ \/ status'[t] = "set"
         \/ status'[t] = status[t] /\ channel[t] = c
  BY <1>2 DEF TunedTo, TypeOK
<1>4. /\ \A x \in Tuners : Ring(x)' = Ring(x) /\ (Bonded(x)' <=> Bonded(x))
      /\ \A x \in Tuners : x \in Ring(x) /\ Ring(x) \subseteq Tuners
      /\ \A x \in Tuners : \A u \in Ring(x) : Ring(u) = Ring(x)
  BY <1>2, RingStays, RingIs DEF Rings
<1>5. \A x \in Tuners \ {t} : master[x] => Switched(x)
  BY <1>1 DEF Cable, SwitchOver
<1>6. SwitchOver'
  <2>1. /\ \A x \in Tuners : Switched(x) \/ x = t <=> Switched(x)' \/ x = t
        /\ Switched(t)'
    BY <1>2, <1>3 DEF Switched
  <2>2. \A x \in Tuners : Bonded(x) /\ Switched(x)' => \E u \in Ring(x) : master'[u]
    BY <1>1, <1>2, <2>1 DEF Cable, SwitchOver, TaskOk
  <2>3. \A x \in Tuners : status'[x] # "idle" \/ last'[x] # None => Switched(x)'
    BY <1>2, <1>3, <2>1 DEF Cable, SwitchOver
  <2> QED BY <1>2, <1>4, <1>5, <2>1, <2>2, <2>3 DEF Cable, SwitchOver
<1>7. Powered'
  <2> SUFFICES ASSUME NEW x \in Tuners, Bonded(x), master[x]
               PROVE  /\ last[x] # None => lnb[x] = last[x]
                      /\ status'[x] \notin {"idle", "set"}
                           => lnb[x] = Band[channel'[x]]
                      /\ x \in Broken \/ status'[x] # "idle"
    BY <1>2, <1>4 DEF Powered
  <2>1. /\ last[x] # None => lnb[x] = last[x]
        /\ status[x] \notin {"idle", "set"} => lnb[x] = Band[channel[x]]
        /\ x \notin Broken /\ status[x] = "idle" => ~Switched(x)
    BY DEF Cable, Powered
  <2> QED BY <1>3, <1>5, <2>1
<1>8. SameBand'
  <2> SUFFICES ASSUME NEW x \in Tuners, Bonded(x), master[x],
                      NEW u \in Ring(x), status'[u] # "idle", u # x
               PROVE  Band[channel'[x]] = Band[channel'[u]]
    BY <1>2, <1>4 DEF SameBand
  <2>1. u \in Tuners
    BY <1>4
  <2>2. CASE x = t
    <3>1. status[u] # "idle" => Band[channel[u]] = Band[c]
      BY <1>1, <1>2, <1>4, <2>2 DEF Cable, TaskOk
    <3> QED BY <1>3, <2>1, <2>2, <3>1
  <2>3. CASE x # t /\ u = t
    <3>1. Band[channel[x]] = Band[c]
      BY <1>1, <1>2, <2>3 DEF Cable, TaskOk
    <3> QED BY <1>3, <2>3, <3>1
  <2>4. CASE x # t /\ u # t
    <3>1. status[u] # "idle" => Band[channel[x]] = Band[channel[u]]
      BY <1>1, <2>4 DEF Cable, SameBand
    <3> QED BY <1>3, <2>1, <2>4, <3>1
  <2> QED BY <2>2, <2>3, <2>4
<1> QED BY <1>2, <1>6, <1>7, <1>8 DEF Cable, TaskOk

(* What a tuner's thread does to its own tuner.                            *)
LEMMA WorkedCable ==
  ASSUME TypeOK, Rings, Cable, NEW t \in Tuners, Work(t)
  PROVE  Cable'
<1>1. /\ UNCHANGED <<next, master, channel, open, prio, task>>
      /\ open[t]
  BY DEF Work, ringVars, Cable, SwitchOver
<1>2. /\ \A x \in Tuners : Ring(x)' = Ring(x) /\ (Bonded(x)' <=> Bonded(x))
      /\ \A x \in Tuners : Ring(x) \subseteq Tuners
      /\ \A x \in Tuners : Switched(x)' <=> Switched(x)
  BY <1>1, RingStays, RingIs DEF Rings, Switched
<1>3. /\ \A x \in Tuners \ {t} :
           status'[x] = status[x] /\ last'[x] = last[x] /\ lnb'[x] = lnb[x]
      /\ status[t] = "idle" => UNCHANGED <<status, last, lnb>>
  BY DEF Work, SetFrontend, Retune, Lock, NoLock, Rest, TypeOK
<1>4. /\ status'[t] = "idle" => status[t] = "idle" \/ t \in Broken
      /\ status[t] # "idle" /\ last'[t] # last[t] =>
           last'[t] = None \/ (DiSEqC /\ last'[t] = Band[channel[t]])
  BY <1>1 DEF Work, SetFrontend, StatusAfterSet, Retune, Lock, NoLock, Rest,
     TypeOK
<1>5. \A x \in Tuners : status'[x] # "idle" => status[x] # "idle"
  BY <1>3
<1>6. SwitchOver'
  <2>1. \A x \in Tuners : status'[x] # "idle" \/ last'[x] # None => Switched(x)
    BY <1>3, <1>4, <1>5 DEF Cable, SwitchOver
  <2>2. ~DiSEqC => \A x \in Tuners : last'[x] = None
    BY <1>3, <1>4 DEF Cable, SwitchOver
  <2> QED BY <1>1, <1>2, <2>1, <2>2 DEF Cable, SwitchOver
<1>7. Powered'
  <2> SUFFICES ASSUME NEW x \in Tuners, Bonded(x), master[x]
               PROVE  /\ last'[x] # None => lnb'[x] = last'[x]
                      /\ status'[x] \notin {"idle", "set"}
                           => lnb'[x] = Band[channel[x]]
                      /\ x \notin Broken /\ status'[x] = "idle" =>
                           /\ ~Switched(x)
                           /\ \A u \in Ring(x) : status'[u] = "idle"
    BY <1>1, <1>2 DEF Powered
  <2>1. /\ last[x] # None => lnb[x] = last[x]
        /\ status[x] \notin {"idle", "set"} => lnb[x] = Band[channel[x]]
        /\ x \notin Broken /\ status[x] = "idle" =>
             ~Switched(x) /\ \A u \in Ring(x) : status[u] = "idle"
        /\ ~DiSEqC => last[x] = None
    BY DEF Cable, Powered, SwitchOver
  <2>2. x \notin Broken /\ status'[x] = "idle" =>
          ~Switched(x) /\ \A u \in Ring(x) : status'[u] = "idle"
    BY <1>2, <1>3, <1>4, <1>5, <2>1
  <2>3. CASE x # t
    BY <1>3, <2>1, <2>2, <2>3
  <2>4. CASE x = t /\ SetFrontend(t)
    <3>1. CASE t \in Broken
      BY <1>1, <2>1, <2>2, <2>4, <3>1 DEF SetFrontend, TypeOK
    <3>2. CASE t \notin Broken
      <4>1. /\ lnb'[t] = LnbSet(t)
            /\ last'[t] = IF DiSEqC THEN Band[channel[t]] ELSE last[t]
        BY <1>1, <2>4, <3>2 DEF SetFrontend, TypeOK
      <4>2. LnbSet(t) = Band[channel[t]]
        <5>1. Band[channel[t]] \in Bands /\ Band[channel[t]] # None
          BY ConstantsAssumption DEF TypeOK, Bands
        <5> QED BY <2>1, <2>4, <5>1 DEF LnbSet, IsBondedMaster
      <4> QED BY <2>1, <2>2, <2>4, <4>1, <4>2
    <3> QED BY <3>1, <3>2
  <2>5. CASE x = t /\ Retune(t)
    BY <2>1, <2>2, <2>5 DEF Retune, TypeOK
  <2>6. CASE x = t /\ (Lock(t) \/ NoLock(t) \/ Rest(t))
    BY <2>1, <2>2, <2>6 DEF Lock, NoLock, Rest, TypeOK
  <2> QED BY <2>3, <2>4, <2>5, <2>6 DEF Work
<1>8. SameBand'
  <2> SUFFICES ASSUME NEW x \in Tuners, Bonded(x), master[x],
                      NEW u \in Ring(x), status'[u] # "idle"
               PROVE  \/ Band[channel[x]] = Band[channel[u]]
                      \/ task # NoTask /\ task.tuner = x
    BY <1>1, <1>2 DEF SameBand
  <2> QED BY <1>2, <1>5 DEF Cable, SameBand
<1>9. TaskOk'
  <2> SUFFICES ASSUME task # NoTask
               PROVE  TaskOk'
    BY <1>1 DEF TaskOk
  <2>1. TaskOk
    BY DEF Cable
  <2>2. \A x \in Tuners : \A u \in Ring(x) : status'[u] # "idle" => status[u] # "idle"
    BY <1>2, <1>5
  <2>3. task.tuner \in Tuners
    BY DEF TypeOK, Tasks
  <2> QED BY <1>1, <1>2, <2>1, <2>2, <2>3 DEF TaskOk
<1> QED BY <1>6, <1>7, <1>8, <1>9 DEF Cable

(* While no tuner is used, there is no master to lose.                     *)
LEMMA QuietCable ==
  ASSUME TypeOK, Cable, Quiet, Rings',
         UNCHANGED <<status, channel, open, last, task>>,
         \A x \in Tuners : master'[x] => master[x]
  PROVE  Cable'
<1>1. \A x \in Tuners : ~master'[x]
  BY DEF Quiet, Cable, SwitchOver, Switched
<1>2. \A x \in Tuners : status'[x] = "idle" /\ ~Switched(x)' /\ open'[x]
                        /\ last'[x] = None
  BY DEF Quiet, Cable, SwitchOver, Switched
<1>3. task' = NoTask
  BY DEF Quiet
<1> QED BY <1>1, <1>2, <1>3 DEF Cable, SwitchOver, Powered, SameBand, TaskOk

LEMMA StaysCable ==
  ASSUME TypeOK, Rings, Cable,
         UNCHANGED <<next, master, status, channel, open, last, lnb, task>>,
         prio' = prio \/ task = NoTask
  PROVE  Cable'
<1>1. /\ \A x \in Tuners : Ring(x)' = Ring(x) /\ (Bonded(x)' <=> Bonded(x))
      /\ \A x \in Tuners : Ring(x) \subseteq Tuners
      /\ \A x \in Tuners : Switched(x)' <=> Switched(x)
  BY RingStays, RingIs DEF Rings, Switched
<1>2. SwitchOver'
  BY <1>1 DEF Cable, SwitchOver
<1>3. Powered'
  BY <1>1 DEF Cable, Powered
<1>4. SameBand'
  BY <1>1 DEF Cable, SameBand
<1>5. TaskOk'
  <2> SUFFICES ASSUME task # NoTask
               PROVE  TaskOk'
    BY DEF TaskOk
  <2>1. task.tuner \in Tuners
    BY DEF TypeOK, Tasks
  <2>2. prio' = prio /\ TaskOk
    BY DEF Cable
  <2> QED BY <1>1, <2>1, <2>2 DEF TaskOk
<1> QED BY <1>2, <1>3, <1>4, <1>5 DEF Cable

LEMMA TypesOfSwitch ==
  ASSUME TypeOK, Rings, NEW t \in Tuners, NEW c \in Transponders,
         Reopen(t), SwitchOthers(t, c),
         UNCHANGED <<pausing, next>>,
         prio' \in [Tuners -> 0..MaxPriority],
         task' \in Tasks
  PROVE  TypeOK'
<1>1. status' \in [Tuners -> Statuses] /\ channel' \in [Tuners -> Channels]
  BY DEF TypeOK, SwitchOthers, Statuses, Channels
<1>2. open' \in [Tuners -> BOOLEAN] /\ last' \in [Tuners -> Bands \cup {None}]
  BY DEF TypeOK, Reopen
<1>3. lnb' \in [Tuners -> Bands \cup {Off, V13}]
  BY DEF TypeOK, SwitchOthers, Reset
<1>4. read' \in [Tuners -> {"unread", "none", "this", "old"}]
  BY DEF TypeOK, SwitchOthers, Outdated
<1>5. master' \in [Tuners -> BOOLEAN]
  BY MasterOfIs DEF SwitchOthers
<1> QED BY <1>1, <1>2, <1>3, <1>4, <1>5 DEF TypeOK

(* Each action preserves the invariant of the shared cable.                *)
LEMMA SwitchKeepsShared ==
  ASSUME SharedCable, NEW t \in Tuners, NEW c \in Transponders,
         NEW p \in 0..MaxPriority, task = NoTask,
         Reopen(t), SwitchOthers(t, c), UNCHANGED <<pausing, next>>,
         prio' \in [Tuners -> 0..MaxPriority],
         task' = [op |-> "own", tuner |-> t, channel |-> c, prio |-> p],
         prio'[t] > 0 => channel'[t] = c
  PROVE  SharedCable'
<1>1. task' \in Tasks /\ task' # NoTask /\ task'.tuner = t /\ task'.channel = c
  BY DEF Tasks, NoTask
<1>2. TypeOK'
  BY <1>1, TypesOfSwitch DEF SharedCable
<1>3. Rings'
  BY WithMasterKeepsRings DEF SharedCable, SwitchOthers
<1>4. ~pausing => Cable'
  BY <1>1, PreparedCable DEF SharedCable
<1> QED BY <1>2, <1>3, <1>4 DEF SharedCable

LEMMA ReceiveKeepsShared ==
  ASSUME SharedCable, NEW t \in Tuners, NEW c \in Transponders,
         NEW p \in 1..MaxPriority, Receive(t, c, p)
  PROVE  SharedCable'
<1>1. prio' = [u \in Tuners |-> IF u \in Detached(t, c) THEN 0 ELSE prio[u]]
  BY DEF Receive
<1>2. prio' \in [Tuners -> 0..MaxPriority]
  BY <1>1, ConstantsAssumption DEF SharedCable, TypeOK
<1>3. prio'[t] > 0 => channel'[t] = c
  <2> SUFFICES ASSUME t \notin Detached(t, c)
               PROVE  channel'[t] = c
    BY <1>1
  <2>1. channel[t] = c
    BY RingIs DEF Detached, TunedTo, SharedCable, Rings
  <2> QED BY <2>1 DEF Receive, SwitchOthers
<1> QED BY <1>2, <1>3, SwitchKeepsShared, ConstantsAssumption DEF Receive

LEMMA EitScanKeepsShared ==
  ASSUME SharedCable, NEW t \in Tuners, NEW c \in Transponders, EitScan(t, c)
  PROVE  SharedCable'
<1>1. prio' \in [Tuners -> 0..MaxPriority] /\ prio'[t] = 0
  BY DEF EitScan, SharedCable, TypeOK
<1> QED BY <1>1, SwitchKeepsShared, ConstantsAssumption DEF EitScan

LEMMA SwitchOwnKeepsShared ==
  ASSUME SharedCable, SwitchOwn
  PROVE  SharedCable'
<1>1. PICK t, c, p : t = task.tuner /\ c = task.channel /\ p = task.prio
  OBVIOUS
<1>2. t \in Tuners /\ c \in Transponders /\ p \in 0..MaxPriority
  BY <1>1 DEF SwitchOwn, SharedCable, TypeOK, Tasks
<1>3. /\ status' = [status EXCEPT ![t] = IF TunedTo(t, c) THEN @ ELSE "set"]
      /\ read' = IF TunedTo(t, c) THEN read ELSE Outdated({t})
      /\ channel' = [channel EXCEPT ![t] = c]
      /\ prio' = [prio EXCEPT ![t] = IF p > @ THEN p ELSE @]
      /\ task' = NoTask
      /\ UNCHANGED <<pausing, next, master, open, last, lnb>>
  BY <1>1 DEF SwitchOwn, ringVars
<1>4. TypeOK'
  <2>1. Outdated({t}) \in [Tuners -> {"unread", "none", "this", "old"}]
    BY DEF Outdated, SharedCable, TypeOK
  <2> QED BY <1>2, <1>3, <2>1 DEF SharedCable, TypeOK, Statuses, Channels
<1>5. Rings'
  BY <1>3, RingStays DEF SharedCable, Rings, OneMaster
<1> QED BY <1>3, <1>4, <1>5, SwitchedCable DEF SharedCable

LEMMA BondKeepsShared ==
  ASSUME SharedCable,
         \/ \E t, u \in Tuners : Bond(t, u)
         \/ \E t \in Tuners : UnBond(t)
  PROVE  SharedCable'
<1>1. Rings'
  BY BondKeepsRings, UnBondKeepsRings DEF SharedCable
<1>2. /\ Quiet
      /\ \A x \in Tuners : master'[x] => master[x]
      /\ UNCHANGED <<pausing, status, channel, open, last, read, prio, task>>
  BY DEF Bond, UnBond, SharedCable, TypeOK, tunerVars
<1>3. lnb' \in [Tuners -> Bands \cup {Off, V13}]
  BY DEF Bond, UnBond, tunerVars, Reset, SharedCable, TypeOK
<1>4. TypeOK'
  BY <1>1, <1>2, <1>3 DEF SharedCable, TypeOK, Rings, Links
<1> QED BY <1>1, <1>2, <1>4, QuietCable DEF SharedCable

LEMMA RestKeepsShared ==
  ASSUME SharedCable, NEW t \in Tuners,
         StopReceiver(t) \/ PowerSave(t) \/ Read(t)
  PROVE  SharedCable'
<1>1. UNCHANGED <<pausing, next, master, last, task>>
  BY DEF StopReceiver, PowerSave, Read, ringVars, tunerVars
<1>2. TypeOK'
  <2>1. CASE StopReceiver(t)
    BY <2>1, ConstantsAssumption DEF StopReceiver, ringVars, tunerVars,
       SharedCable, TypeOK
  <2>2. CASE PowerSave(t)
    BY <2>2 DEF PowerSave, ringVars, SharedCable, TypeOK, Statuses, Channels
  <2>3. CASE Read(t)
    BY <2>3 DEF Read, ringVars, tunerVars, SharedCable, TypeOK
  <2> QED BY <2>1, <2>2, <2>3
<1>3. Rings'
  BY <1>1, RingStays DEF SharedCable, Rings, OneMaster
<1>4. ~pausing => Cable'
  BY StaysCable DEF StopReceiver, PowerSave, Read, ringVars, tunerVars,
     SharedCable
<1> QED BY <1>1, <1>2, <1>3, <1>4 DEF SharedCable

LEMMA WorkKeepsShared ==
  ASSUME SharedCable, NEW t \in Tuners, Work(t)
  PROVE  SharedCable'
<1>1. /\ UNCHANGED <<pausing, next, master, channel, open, prio, task>>
      /\ read' = [read EXCEPT ![t] = "unread"]
  BY DEF Work, ringVars
<1>2. channel[t] \in Channels /\ Band[channel[t]] \in Bands
  BY DEF SharedCable, TypeOK, Bands
<1>3. LnbSet(t) \in Bands \cup {Off, V13}
  BY <1>2 DEF LnbSet, SharedCable, TypeOK
<1>4. /\ status' \in [Tuners -> Statuses]
      /\ last' \in [Tuners -> Bands \cup {None}]
      /\ lnb' \in [Tuners -> Bands \cup {Off, V13}]
  BY <1>2, <1>3 DEF Work, SetFrontend, StatusAfterSet, Retune, Lock, NoLock,
     Rest, SharedCable, TypeOK, Statuses
<1>5. TypeOK'
  BY <1>1, <1>4 DEF SharedCable, TypeOK
<1>6. Rings'
  BY <1>1, RingStays DEF SharedCable, Rings, OneMaster
<1> QED BY <1>1, <1>5, <1>6, WorkedCable DEF SharedCable

LEMMA NextKeepsShared == SharedCable /\ [Next]_vars => SharedCable'
<1>1. SharedCable /\ UNCHANGED vars => SharedCable'
  <2> SUFFICES ASSUME SharedCable, UNCHANGED vars
               PROVE  SharedCable'
    OBVIOUS
  <2>1. TypeOK' /\ Rings'
    BY RingStays DEF vars, SharedCable, TypeOK, Rings, OneMaster
  <2> QED BY <2>1, StaysCable DEF vars, SharedCable
<1> QED BY <1>1, ReceiveKeepsShared, EitScanKeepsShared, SwitchOwnKeepsShared,
     BondKeepsShared, RestKeepsShared, WorkKeepsShared DEF Next, Switch

LEMMA InitShared == Init => SharedCable
<1> SUFFICES ASSUME Init
             PROVE  SharedCable
  OBVIOUS
<1>1. TypeOK
  BY ConstantsAssumption DEF Init, TypeOK, Channels, Statuses
<1>2. Rings
  <2>1. next \in Links /\ Circle(next)
    BY DEF Init, Links, Circle
  <2>2. master \in [Tuners -> BOOLEAN] /\ OneMaster
    BY <2>1, RingIs DEF Init, OneMaster
  <2> QED BY <2>1, <2>2 DEF Rings
<1>3. Cable
  BY DEF Init, Cable, SwitchOver, Powered, SameBand, TaskOk, Switched
<1> QED BY <1>1, <1>2, <1>3 DEF SharedCable

LEMMA CableIsServed == SharedCable => CableServes
<1> SUFFICES ASSUME SharedCable, ~pausing, NEW t \in Tuners,
                    Bonded(t), status[t] # "idle"
             PROVE  FindsItsBand(t)
  BY DEF CableServes
<1>1. PICK m \in Ring(t) : master[m]
  BY DEF SharedCable, Cable, SwitchOver
<1>2. m \in Tuners /\ Bonded(m) /\ Ring(m) = Ring(t) /\ t \in Ring(m)
  BY RingIs DEF SharedCable, Rings
<1>3. Band[channel[m]] = Band[channel[t]] \/ (task # NoTask /\ task.tuner = m)
  BY <1>1, <1>2 DEF SharedCable, Cable, SameBand
<1>4. m \in Broken \/ status[m] = "set" \/ lnb[m] = Band[channel[m]]
  BY <1>1, <1>2 DEF SharedCable, Cable, Powered
<1> QED BY <1>1, <1>3, <1>4 DEF FindsItsBand

(* However tuners are bonded and whoever switches them, the rings of       *)
(* BondDevices() stay closed with a master at most, and a tuner at work on *)
(* a shared cable finds its band there, while the EPG scan does not pause. *)
THEOREM CablesAreSound == Spec => []CableSound
<1>1. SharedCable => CableSound
  BY RingsAreClosed, CableIsServed DEF SharedCable, CableSound
<1> QED BY <1>1, InitShared, NextKeepsShared, PTL DEF Spec

-----------------------------------------------------------------------------
(* What a switch may do to a tuner with a receiver.                        *)
Undisturbed(t) ==
  /\ prio'[t] = prio[t] => Band[channel'[t]] = Band[channel[t]]
  /\ prio'[t] = 0 /\ task' # NoTask => prio[t] < task'.prio

(* Only a master that another tuner takes to a new band is switched on the *)
(* way, and no receiver that stays wants the old one.                      *)
LEMMA StaysTuned ==
  ASSUME SharedCable, ~pausing, task = NoTask,
         NEW t \in Tuners, NEW c \in Transponders,
         SwitchOthers(t, c), NEW x \in Tuners, prio[x] > 0,
         TunedTo(t, c) \/ BondingOk(t, c) \/ x \notin Ring(t)
  PROVE  channel'[x] = channel[x]
<1> SUFFICES ASSUME x \in SetOnTheWay(t, c)
             PROVE  FALSE
  BY DEF SwitchOthers
<1>1. Bonded(t) /\ x = MasterOf(t) /\ x # t /\ Band[c] # Band[channel[x]]
  BY DEF SetOnTheWay
<1>2. x \in Ring(t) /\ master[x]
  BY <1>1, MasterOfIs DEF SharedCable
<1>3. Bonded(x) /\ t \in Ring(x) /\ Ring(x) = Ring(t)
  BY <1>1, <1>2, RingIs DEF SharedCable, Rings
<1>4. ~TunedTo(t, c)
  BY <1>1, <1>2, <1>3 DEF TunedTo, SharedCable, Cable, SameBand
<1>5. ~BondingOk(t, c)
  <2>1. MasterOf(x) = x
    BY <1>2 DEF MasterOf
  <2> QED BY <1>1, <1>2, <2>1 DEF BondingOk
<1> QED BY <1>2, <1>4, <1>5

LEMMA ReceiveDisturbsNone ==
  ASSUME SharedCable, ~pausing, NEW t \in Tuners, NEW c \in Transponders,
         NEW p \in 1..MaxPriority, Receive(t, c, p),
         NEW x \in Tuners, prio[x] > 0
  PROVE  Undisturbed(x)
<1>1. /\ task = NoTask /\ SwitchOthers(t, c)
      /\ TunedTo(t, c) \/ ProvidesChannel(t, c, p)
      /\ prio'[x] = IF x \in Detached(t, c) THEN 0 ELSE prio[x]
      /\ task'.prio = p
  BY DEF Receive
<1>2. prio'[x] = prio[x] => channel'[x] = channel[x]
  BY <1>1, StaysTuned DEF Detached
<1>3. prio'[x] = 0 => prio[x] < p
  <2> SUFFICES ASSUME x \in Detached(t, c)
               PROVE  prio[x] < p
    BY <1>1
  <2>1. ~TunedTo(t, c) /\ ProvidesChannel(t, c, p)
    BY <1>1 DEF Detached
  <2>2. p > prio[t]
    BY <2>1 DEF ProvidesChannel, TunedTo
  <2>3. p \in Int /\ prio[t] \in Int /\ prio[x] \in Int
    BY ConstantsAssumption DEF SharedCable, TypeOK
  <2>4. CASE BondingOk(t, c)
    BY <2>1, <2>2, <2>3, <2>4 DEF Detached
  <2>5. CASE ~BondingOk(t, c)
    <3>1. \A u \in Ring(t) \ {t} : prio[u] < p
      BY <2>1, <2>5 DEF ProvidesChannel
    <3> QED BY <2>1, <2>2, <2>3, <2>5, <3>1 DEF Detached
  <2> QED BY <2>4, <2>5
<1> QED BY <1>1, <1>2, <1>3 DEF Undisturbed

LEMMA EitScanDisturbsNone ==
  ASSUME SharedCable, ~pausing, NEW t \in Tuners, NEW c \in Transponders,
         EitScan(t, c), NEW x \in Tuners, prio[x] > 0
  PROVE  Undisturbed(x)
BY StaysTuned DEF EitScan, Undisturbed

LEMMA SwitchOwnDisturbsNone ==
  ASSUME SharedCable, ~pausing, SwitchOwn, NEW x \in Tuners, prio[x] > 0
  PROVE  Undisturbed(x)
<1>1. task' = NoTask /\ task \in Tasks
  BY DEF SwitchOwn, SharedCable, TypeOK
<1>2. x = task.tuner => channel[x] = task.channel
  BY DEF SwitchOwn, SharedCable, Cable, TaskOk
<1>3. channel'[x] = channel[x]
  BY <1>2 DEF SwitchOwn, SharedCable, TypeOK
<1> QED BY <1>1, <1>3 DEF Undisturbed

LEMMA OthersDisturbNone ==
  ASSUME SharedCable, ~pausing,
         \/ \E t, u \in Tuners : Bond(t, u)
         \/ \E t \in Tuners : UnBond(t) \/ StopReceiver(t) \/ PowerSave(t)
                              \/ Read(t) \/ Work(t),
         NEW x \in Tuners, prio[x] > 0
  PROVE  Undisturbed(x)
<1>1. /\ channel' = channel
      /\ prio' = prio \/ task' = NoTask
  BY DEF Bond, UnBond, StopReceiver, PowerSave, Read, Work, tunerVars
<1> QED BY <1>1 DEF Undisturbed, SharedCable, TypeOK

(* While the EPG scan does not pause, switching leaves each receiver on    *)
(* its band, or detaches it for one of a higher priority, whoever is       *)
(* bonded with whom.                                                       *)
THEOREM ReceiversAreNotDisturbed == Spec => NotDisturbed
<1> DEFINE D == ~pausing => \A t \in Tuners : prio[t] > 0 =>
                  /\ prio'[t] = prio[t] => Band[channel'[t]] = Band[channel[t]]
                  /\ prio'[t] = 0 /\ task' # NoTask => prio[t] < task'.prio
<1>1. SharedCable /\ [Next]_vars => [D]_vars
  BY ReceiveDisturbsNone, EitScanDisturbsNone, SwitchOwnDisturbsNone,
     OthersDisturbNone DEF Next, Switch, Undisturbed
<1> QED BY <1>1, InitShared, NextKeepsShared, PTL DEF Spec, NotDisturbed

=============================================================================
