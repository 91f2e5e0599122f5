------------------------------ MODULE DvbTuner ------------------------------
(***************************************************************************)
(* Local DVB-S tuners that share one satellite cable (vdr/dvbdevice.c):    *)
(* cDvbTuner with its thread, the ring of bonded tuners and its master,    *)
(* which alone drives the LNB; and the part of cDvbDevice and cDevice that *)
(* chooses a tuner for a receiver, detaches the receivers in its way and   *)
(* switches it.                                                            *)
(*                                                                         *)
(* One thread switches channels and bonds tuners (bondMutex, mutex); each  *)
(* tuner's thread reads the state of its frontend before it takes the      *)
(* mutex, and acts on it after.  A band stands for the tone and voltage,   *)
(* or the DiSEqC commands, a transponder needs (GetBondingParams).  There  *)
(* is no positioner, no SCR and one frontend per tuner.                    *)
(***************************************************************************)
EXTENDS Integers

CONSTANTS
  Tuners,         \* cDvbTuners, each with its cDvbDevice
  Transponders,   \* what a tuner may be switched to
  NoTransponder,  \* cChannel(), the channel of a tuner never switched
  Band,           \* Band[c]: the band of a transponder, and of NoTransponder
  Off, V13,       \* no voltage; 13 V without tone
  None,
  Broken,         \* tuners whose FE_SET_PROPERTY fails
  MaxPriority,    \* priorities of receivers are 1..MaxPriority
  DiSEqC          \* Setup.DiSEqC

Channels == Transponders \cup {NoTransponder}
Bands    == {Band[c] : c \in Channels}

ASSUME ConstantsAssumption ==
  /\ None \notin Tuners /\ NoTransponder \notin Transponders
  /\ Off \notin Bands /\ V13 \notin Bands /\ None \notin Bands
  /\ Broken \subseteq Tuners
  /\ MaxPriority \in Nat /\ DiSEqC \in BOOLEAN

VARIABLES
  pausing,        \* Setup.EPGPauseAfterScan
  next,           \* bondedTuner
  master,         \* bondedMaster
  status,         \* tunerStatus
  channel,        \* channel
  open,           \* fd_frontend # -1
  last,           \* lastDiseqc
  lnb,            \* what the frontend sends up the cable
  read,           \* the lock the thread has read: of this channel, an old one
  prio,           \* priority of the receivers of the device, 0 for none
  task            \* what the switching thread is about

ringVars  == <<next, master>>
tunerVars == <<status, channel, open, last, lnb>>
vars == <<pausing, next, master, status, channel, open, last, lnb, read, prio,
          task>>

Statuses == {"idle", "set", "positioning", "tuned", "locked"}
NoTask   == [op |-> "none"]
Tasks    == [op : {"own"}, tuner : Tuners, channel : Transponders, prio : 0..MaxPriority]

TypeOK ==
  /\ pausing \in BOOLEAN
  /\ next \in [Tuners -> Tuners \cup {None}]
  /\ master \in [Tuners -> BOOLEAN]
  /\ status \in [Tuners -> Statuses]
  /\ channel \in [Tuners -> Channels]
  /\ open \in [Tuners -> BOOLEAN]
  /\ last \in [Tuners -> Bands \cup {None}]
  /\ lnb \in [Tuners -> Bands \cup {Off, V13}]
  /\ read \in [Tuners -> {"unread", "none", "this", "old"}]
  /\ prio \in [Tuners -> 0..MaxPriority]
  /\ task \in Tasks \cup {NoTask}

Init ==
  /\ pausing \in BOOLEAN
  /\ next = [t \in Tuners |-> None]
  /\ master = [t \in Tuners |-> FALSE]
  /\ status = [t \in Tuners |-> "idle"]
  /\ channel = [t \in Tuners |-> NoTransponder]
  /\ open = [t \in Tuners |-> TRUE]
  /\ last = [t \in Tuners |-> None]
  /\ lnb = [t \in Tuners |-> Off]
  /\ read = [t \in Tuners |-> "unread"]
  /\ prio = [t \in Tuners |-> 0]
  /\ task = NoTask

-----------------------------------------------------------------------------
(* The ring: the tuners that following bondedTuner from t leads to.        *)

Bonded(t) == next[t] # None

Follows(S) == \A x \in S : Bonded(x) => next[x] \in S

Ring(t) == {u \in Tuners : \A S \in SUBSET Tuners : t \in S /\ Follows(S) => u \in S}

Quiet == /\ \A t \in Tuners : status[t] = "idle" /\ channel[t] = NoTransponder
         /\ task = NoTask

(* ResetToneAndVoltage, of a tuner that is bonded or not.                  *)
Reset(t, bonded) == IF ~open[t] THEN lnb[t] ELSE IF bonded THEN Off ELSE V13

Insert(t, u) == [next EXCEPT ![t] = IF Bonded(u) THEN next[u] ELSE u,
                             ![u] = t]

(* BondDevices() at start, before any tuner is switched.                   *)
Bond(t, u) ==
  /\ Quiet
  /\ t # u /\ ~Bonded(t)
  /\ next' = Insert(t, u)
  /\ master' = [master EXCEPT ![t] = FALSE]
  /\ lnb' = [lnb EXCEPT ![t] = Reset(t, FALSE)]
  /\ UNCHANGED <<pausing, status, channel, open, last, read, prio, task>>

UnBond(t) ==
  /\ Quiet
  /\ Bonded(t)
  /\ LET u == CHOOSE v \in Ring(t) : next[v] = t IN
     next' = [next EXCEPT ![t] = None,
                          ![u] = IF next[t] = u THEN None ELSE next[t]]
  /\ master' = [master EXCEPT ![t] = FALSE]
  /\ UNCHANGED <<pausing, tunerVars, read, prio, task>>

(* GetBondedMaster: the master of the ring, which t becomes if it has none.*)
MasterOf(t) == IF ~Bonded(t) \/ master[t] \/ \A u \in Ring(t) : ~master[u]
               THEN t ELSE CHOOSE u \in Ring(t) : master[u]

WithMaster(t) == IF Bonded(t) THEN [master EXCEPT ![MasterOf(t)] = TRUE]
                 ELSE master

-----------------------------------------------------------------------------
(* cDvbDevice::ProvidesChannel, DetachAllReceivers and their callers.      *)

TunedTo(t, c) == status[t] # "idle" /\ channel[t] = c

(* Mutant: the receivers of the tuner itself alone are looked at.          *)
BondingOkAlone(t, c) ==
  prio[t] > 0 => Band[c] = Band[channel[MasterOf(t)]]

BondingOk(t, c) ==
  Bonded(t) => \A u \in Ring(t) :
                 prio[u] > 0 => Band[c] = Band[channel[MasterOf(u)]]

ProvidesChannel(t, c, p) ==
  /\ p > prio[t] \/ (prio[t] > 0 /\ TunedTo(t, c))
  /\ BondingOk(t, c) \/ \A u \in Ring(t) \ {t} : prio[u] < p

(* The receivers GetDevice() detaches before the tuner is switched.        *)
Detached(t, c) ==
  IF TunedTo(t, c) THEN {} ELSE IF BondingOk(t, c) THEN {t} ELSE Ring(t)

(* cDvbTuner::SetChannel, the tuners it switches on the way: a master that *)
(* leaves its band sets the others to idle, another tuner that leaves it   *)
(* switches the master first.                                              *)
Others(m) == Ring(m) \ {m}

(* Mutant: the others are left alone.                                      *)
NotIdled(t, c) == {}

Idled(t, c) ==
  IF Bonded(t) /\ Band[c] # Band[channel[MasterOf(t)]]
  THEN Others(MasterOf(t)) ELSE {}

SetOnTheWay(t, c) ==
  IF Bonded(t) /\ MasterOf(t) # t /\ Band[c] # Band[channel[MasterOf(t)]]
  THEN {MasterOf(t)} ELSE {}

(* What was read of a tuner's state is old once it is switched.            *)
Outdated(S) == [t \in Tuners |-> IF t \in S /\ read[t] = "this" THEN "old"
                                 ELSE read[t]]

SwitchOthers(t, c) ==
  /\ master' = WithMaster(t)
  /\ status' = [u \in Tuners |->
                  IF u \in SetOnTheWay(t, c) THEN "set"
                  ELSE IF u \in Idled(t, c) THEN "idle" ELSE status[u]]
  /\ channel' = [u \in Tuners |->
                   IF u \in SetOnTheWay(t, c) THEN c ELSE channel[u]]
  /\ lnb' = [u \in Tuners |-> IF u \in Idled(t, c) THEN Reset(u, TRUE)
                              ELSE lnb[u]]
  /\ read' = Outdated(SetOnTheWay(t, c))

(* SetPowerSaveMode(false) opens the frontend.                             *)
Reopen(t) == /\ open' = [open EXCEPT ![t] = TRUE]
             /\ last' = [last EXCEPT ![t] = IF open[t] THEN @ ELSE None]

(* A device for a receiver: chosen, cleared of receivers and switched.     *)
Receive(t, c, p) ==
  /\ task = NoTask
  /\ TunedTo(t, c) \/ ProvidesChannel(t, c, p)
  /\ prio' = [u \in Tuners |-> IF u \in Detached(t, c) THEN 0 ELSE prio[u]]
  /\ Reopen(t)
  /\ SwitchOthers(t, c)
  /\ task' = [op |-> "own", tuner |-> t, channel |-> c, prio |-> p]
  /\ UNCHANGED <<pausing, next>>

(* The EPG scan takes devices that nobody uses (MaySwitchTransponder).     *)
EitScan(t, c) ==
  /\ task = NoTask
  /\ prio[t] = 0 /\ ~TunedTo(t, c)
  /\ BondingOk(t, c)
  /\ Reopen(t)
  /\ SwitchOthers(t, c)
  /\ task' = [op |-> "own", tuner |-> t, channel |-> c, prio |-> 0]
  /\ UNCHANGED <<pausing, next, prio>>

(* The rest of SetChannel, under the mutex of the tuner, and the receiver. *)
SwitchOwn ==
  /\ task # NoTask
  /\ LET t == task.tuner  c == task.channel IN
     /\ status' = [status EXCEPT ![t] = IF TunedTo(t, c) THEN @ ELSE "set"]
     /\ read' = IF TunedTo(t, c) THEN read ELSE Outdated({t})
     /\ channel' = [channel EXCEPT ![t] = c]
     /\ prio' = [prio EXCEPT ![t] = IF task.prio > @ THEN task.prio ELSE @]
  /\ task' = NoTask
  /\ UNCHANGED <<pausing, ringVars, open, last, lnb>>

StopReceiver(t) ==
  /\ task = NoTask
  /\ prio[t] > 0
  /\ prio' = [prio EXCEPT ![t] = 0]
  /\ UNCHANGED <<pausing, ringVars, tunerVars, read, task>>

(* SetPowerSaveIfUnused, called when the EPG scan pauses.                  *)
PowerSave(t) ==
  /\ pausing /\ task = NoTask
  /\ prio[t] = 0 /\ open[t]
  /\ open' = [open EXCEPT ![t] = FALSE]
  /\ status' = [status EXCEPT ![t] = "idle"]
  /\ channel' = [channel EXCEPT ![t] = NoTransponder]
  /\ lnb' = [lnb EXCEPT ![t] = Off]
  /\ UNCHANGED <<pausing, ringVars, last, read, prio, task>>

-----------------------------------------------------------------------------
(* cDvbTuner::Action.  The state is read without the mutex; a frontend     *)
(* that is closed leaves the state as it was.                              *)

Read(t) ==
  /\ read[t] = "unread"
  /\ \E lock \in {"none", "old", "this"} :
       /\ lock = "none" => open[t]
       /\ lock = "this" => open[t] /\ status[t] \notin {"idle", "set"}
       /\ lock = "old" => ~open[t] \/ status[t] \in {"idle", "set"}
       /\ read' = [read EXCEPT ![t] = lock]
  /\ UNCHANGED <<pausing, ringVars, tunerVars, prio, task>>

(* What SetFrontend() makes of the LNB: with DiSEqC only if the commands   *)
(* are not those sent last.  A tuner that is not the master sends none.    *)
IsBondedMaster(t) == ~Bonded(t) \/ master[t]

LnbSet(t) ==
  IF DiSEqC THEN IF Band[channel[t]] = last[t] THEN lnb[t]
                 ELSE IF IsBondedMaster(t) THEN Band[channel[t]] ELSE Off
  ELSE IF IsBondedMaster(t) THEN Band[channel[t]] ELSE V13

(* Mutant: SetFrontend() is followed by the states below without a new     *)
(* look at the frontend.                                                   *)
TunedAtOnce(t) == IF read[t] # "none" THEN "locked" ELSE "tuned"

StatusAfterSet(t) == "positioning"

SetFrontend(t) ==
  /\ status[t] = "set"
  /\ IF t \in Broken \/ ~open[t]
     THEN /\ status' = [status EXCEPT ![t] = "idle"]
          /\ UNCHANGED <<last, lnb>>
     ELSE /\ status' = [status EXCEPT ![t] = StatusAfterSet(t)]
          /\ lnb' = [lnb EXCEPT ![t] = LnbSet(t)]
          /\ last' = [last EXCEPT ![t] = IF DiSEqC THEN Band[channel[t]] ELSE @]

(* Timed out, reinitialized, or not on the transponder expected.           *)
Retune(t) ==
  /\ status[t] \in {"tuned", "locked"}
  /\ status' = [status EXCEPT ![t] = "set"]
  /\ last' = [last EXCEPT ![t] = None]
  /\ UNCHANGED lnb

Lock(t) ==
  /\ status[t] \in {"positioning", "tuned", "locked"}
  /\ read[t] # "none"
  /\ status' = [status EXCEPT ![t] = "locked"]
  /\ UNCHANGED <<last, lnb>>

NoLock(t) ==
  /\ status[t] \in {"positioning", "tuned", "locked"}
  /\ read[t] = "none"
  /\ status' = [status EXCEPT ![t] = "tuned"]
  /\ UNCHANGED <<last, lnb>>

Rest(t) == status[t] = "idle" /\ UNCHANGED <<status, last, lnb>>

Work(t) ==
  /\ read[t] # "unread"
  /\ read' = [read EXCEPT ![t] = "unread"]
  /\ SetFrontend(t) \/ Retune(t) \/ Lock(t) \/ NoLock(t) \/ Rest(t)
  /\ UNCHANGED <<pausing, ringVars, channel, open, prio, task>>

-----------------------------------------------------------------------------
Switch == \/ \E t \in Tuners, c \in Transponders, p \in 1..MaxPriority :
               Receive(t, c, p)
          \/ \E t \in Tuners, c \in Transponders : EitScan(t, c)
          \/ SwitchOwn

Next == \/ \E t, u \in Tuners : Bond(t, u)
        \/ \E t \in Tuners : UnBond(t)
        \/ Switch
        \/ \E t \in Tuners : StopReceiver(t) \/ PowerSave(t)
        \/ \E t \in Tuners : Read(t)
        \/ \E t \in Tuners : Work(t)

Spec == Init /\ [][Next]_vars

-----------------------------------------------------------------------------
(* The tuners bonded with each other form one ring, that leads back to     *)
(* each of them: the loops of UnBond(), BondingOk() and GetBondedMaster()  *)
(* end, and they find one master at most.                                  *)
RingsClosed ==
  \A t \in Tuners : Bonded(t) =>
    /\ \E u \in Ring(t) : next[u] = t
    /\ \A u, v \in Ring(t) : master[u] /\ master[v] => u = v

(* A tuner at work on a shared cable finds its band there: the master is   *)
(* set to a transponder of the same band, and sends what the band needs as *)
(* soon as its own thread has seen to it.                                  *)
FindsItsBand(t) ==
  \E m \in Ring(t) :
    /\ master[m]
    /\ Band[channel[m]] = Band[channel[t]] \/ (task # NoTask /\ task.tuner = m)
    /\ m \in Broken \/ status[m] = "set" \/ lnb[m] = Band[channel[m]]

(* No sequence of switches, and no thread that has not got to its tuner    *)
(* yet, leaves a tuner on a cable of another band, while the EPG scan does *)
(* not pause.                                                              *)
CableServes ==
  ~pausing => \A t \in Tuners : Bonded(t) /\ status[t] # "idle" => FindsItsBand(t)

CableSound == TypeOK /\ RingsClosed /\ CableServes

(* Switching leaves a tuner with a receiver alone, unless the receiver has *)
(* the lower priority and is detached.                                     *)
NotDisturbed ==
  [][~pausing => \A t \in Tuners : prio[t] > 0 =>
       /\ prio'[t] = prio[t] => Band[channel'[t]] = Band[channel[t]]
       /\ prio'[t] = 0 /\ task' # NoTask => prio[t] < task'.prio]_vars

(* A lock is that of the channel set now, though the state was read before *)
(* the mutex was taken.                                                    *)
LockIsFresh ==
  [][\A t \in Tuners :
       read[t] # "unread" /\ read'[t] = "unread" /\ status'[t] = "locked"
       => read[t] = "this"]_vars
=============================================================================
