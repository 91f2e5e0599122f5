---------------------------- MODULE SatipProofs -----------------------------
(***************************************************************************)
(* Proofs about the satip plug-in: first SatipTuner, for every set of      *)
(* servers, transponders and PIDs, every assignment of quirks and queues   *)
(* of every length; then SatipDiscover, for every finite set of servers    *)
(* and all lengths of its intervals that the theorems name.  The two share *)
(* no state, and neither part uses the other.                              *)
(***************************************************************************)
EXTENDS SatipTuner, SatipDiscover, FiniteSetTheorems, WellFoundedInduction,
        SequenceTheorems, TLAPS

-----------------------------------------------------------------------------
(* SatipTuner                                                              *)

(* What a queue of requests keeps when a request is appended.              *)
LEMMA AppendKeeps ==
  ASSUME NEW q \in Seq(TunerState), NEW s \in TunerState, NEW r \in TunerState
  PROVE  /\ Append(q, s) \in Seq(TunerState)
         /\ Append(q, s) # <<>>
         /\ Append(q, s)[Len(Append(q, s))] = s
         /\ InQueue(r, Append(q, s)) <=> InQueue(r, q) \/ r = s
  BY SMT DEF InQueue

(* What it keeps when the first request is taken.                          *)
LEMMA TakeKeeps ==
  ASSUME NEW q \in Seq(TunerState), q # <<>>, NEW r \in TunerState
  PROVE  /\ Head(q) \in TunerState
         /\ Tail(q) \in Seq(TunerState)
         /\ Head(q) = r => InQueue(r, q)
         /\ InQueue(r, Tail(q)) => InQueue(r, q)
         /\ InQueue(r, q) => Head(q) = r \/ InQueue(r, Tail(q))
         /\ Tail(q) # <<>> => Tail(q)[Len(Tail(q))] = q[Len(q)]
         /\ Tail(q) = <<>> => Head(q) = q[Len(q)]
  <1>1. /\ Head(q) = q[1]
        /\ Len(Tail(q)) = Len(q) - 1
        /\ \A i \in 1 .. Len(q) - 1 : Tail(q)[i] = q[i + 1]
        /\ Len(q) \in Nat \ {0}
    BY SMT
  <1>2. InQueue(r, q) => Head(q) = r \/ InQueue(r, Tail(q))
    <2>1. SUFFICES ASSUME NEW i \in DOMAIN q, q[i] = r, i # 1
                   PROVE  InQueue(r, Tail(q))
      BY <1>1 DEF InQueue
    <2>2. i - 1 \in DOMAIN Tail(q) /\ Tail(q)[i - 1] = r
      BY <1>1, <2>1, SMT
    <2>3. QED BY <2>2 DEF InQueue
  <1>3. QED BY <1>1, <1>2, SMT DEF InQueue

(* What RequestInternal leaves in the queue of internal requests.          *)
LEMMA RequestInternalType ==
  ASSUME TypeOK, NEW s \in TunerState, RequestInternal(s)
  PROVE  internalState' \in Seq(TunerState)
  BY AppendKeeps DEF TypeOK, RequestInternal

LEMMA PlayType ==
  ASSUME TypeOK, streamId # None, NEW answer, NEW stream \in Stream,
         Play(answer, stream)
  PROVE  session' \in [Servers -> Stream]
  BY DEF TypeOK, Play

LEMMA DisconnectType ==
  ASSUME TypeOK, Disconnect
  PROVE  /\ streamId' \in Servers \cup {None}
         /\ session' \in [Servers -> Stream]
         /\ hasLock' \in BOOLEAN
         /\ attached' \subseteq TunerServer
         /\ addPids' = {} /\ delPids' = {}
         /\ UNCHANGED <<pids, lastAddr, lastParam, currentServer, nextServer>>
  <1>1. NoSession \in Stream BY DEF NoSession, Stream
  <1>2. QED BY <1>1 DEF TypeOK, Disconnect, DetachServer

LEMMA UpdatePidsType ==
  ASSUME TypeOK, NEW force \in BOOLEAN, NEW done \in Places, NEW failed \in Places,
         UpdatePids(force, done, failed)
  PROVE  /\ session' \in [Servers -> Stream]
         /\ addPids' \subseteq Pids /\ delPids' \subseteq Pids
         /\ addPids' \subseteq addPids /\ delPids' \subseteq delPids
         /\ pc' \in {done, failed}
  <1> DEFINE whole == SendsWholeList(force)
             old   == session[streamId]
             new   == IF whole THEN pids ELSE (old.pids \cup addPids) \ delPids
  <1>1. CASE addPids' = {} /\ delPids' = {} /\ pc' = done /\ UNCHANGED session
    BY <1>1 DEF TypeOK
  <1>2. CASE pc' = done /\ UNCHANGED <<addPids, delPids, session>>
    BY <1>2 DEF TypeOK
  <1>3. CASE /\ streamAddr # None /\ streamId # None
             /\ \E answer \in StreamAnswers :
                 /\ Play(answer, [old EXCEPT !.pids = new])
                 /\ \/ /\ answer # "fail"
                       /\ addPids' = {} /\ delPids' = {}
                       /\ pc' = done
                    \/ /\ answer = "fail"
                       /\ pc' = failed
                       /\ UNCHANGED <<addPids, delPids>>
    <2>1. old \in Stream BY <1>3 DEF TypeOK
    <2>2. [old EXCEPT !.pids = new] \in Stream BY <2>1 DEF Stream, TypeOK
    <2>3. PICK answer : Play(answer, [old EXCEPT !.pids = new]) BY <1>3
    <2>4. session' \in [Servers -> Stream]
      <3> HIDE DEF new, old
      <3>1. QED BY <1>3, <2>2, <2>3, PlayType
    <2>5. QED BY <1>3, <2>4 DEF TypeOK
  <1>4. QED BY <1>1, <1>2, <1>3 DEF UpdatePids

-----------------------------------------------------------------------------
(* Type correctness.                                                       *)

LEMMA InitType == Init => TypeOK
  <1> SUFFICES ASSUME Init PROVE TypeOK OBVIOUS
  <1>1. NoServer \in TunerServer BY DEF NoServer, TunerServer
  <1>2. NoSession \in Stream BY DEF NoSession, Stream
  <1>3. <<>> \in Seq(TunerState) OBVIOUS
  <1>4. session \in [Servers -> Stream] BY <1>2 DEF Init
  <1>5. QED BY <1>1, <1>3, <1>4 DEF Init, TypeOK, Places, TunerState

(* Thread steps keep the types; the frame of each action is UNCHANGED.     *)
LEMMA ThreadType == TypeOK /\ Thread => TypeOK'
  <1> SUFFICES ASSUME TypeOK, Thread PROVE TypeOK' OBVIOUS
  <1> USE DEF queues, target, timers, link, pidSets, servers
  <1>1. CASE UpdateCurrentState
    <2>1. CASE internalState # <<>>
      BY <1>1, <2>1, TakeKeeps DEF UpdateCurrentState, TypeOK, Places
    <2>2. CASE internalState = <<>> /\ externalState # <<>>
      BY <1>1, <2>2, TakeKeeps DEF UpdateCurrentState, TypeOK, Places
    <2>3. CASE internalState = <<>> /\ externalState = <<>>
      BY <1>1, <2>3 DEF UpdateCurrentState, TypeOK, Places
    <2>4. QED BY <2>1, <2>2, <2>3
  <1>2. CASE Idle
    BY <1>2 DEF Idle, TypeOK, Places
  <1>3. CASE ReleaseDisconnect
    BY <1>3, DisconnectType DEF ReleaseDisconnect, TypeOK, Places
  <1>4. CASE ReleaseDone
    BY <1>4, RequestInternalType DEF ReleaseDone, TypeOK, Places, TunerState
  <1>5. CASE SetTearDown
    <2>1. CASE Disconnect
      BY <1>5, <2>1, DisconnectType DEF SetTearDown, TypeOK, Places
    <2>2. CASE ~Disconnect
      BY <1>5, <2>2 DEF SetTearDown, TypeOK, Places
    <2>3. QED BY <2>1, <2>2
  <1>6. CASE Connect
    <2>1. CASE ConnectRetune
      <3>1. PICK answer : Play(answer, [tp |-> streamParam,
                                        pids |-> session[streamId].pids])
        BY <2>1 DEF ConnectRetune
      <3>2. streamId # None /\ session[streamId] \in Stream
        BY <2>1 DEF ConnectRetune, TypeOK
      <3>3. [tp |-> streamParam, pids |-> session[streamId].pids] \in Stream
        BY <3>2 DEF Stream, TypeOK
      <3>4. session' \in [Servers -> Stream]
        BY <3>1, <3>2, <3>3, PlayType
      <3>5. QED BY <1>6, <2>1, <3>4 DEF Connect, ConnectRetune, TypeOK, Places
    <2>2. CASE ConnectSetup
      <3>1. NoServer \in TunerServer BY DEF NoServer, TunerServer
      <3>2. CASE "fail" \in Answers \/ streamAddr = None
        <4>1. CASE pc' = "connectFailed" /\ UNCHANGED <<link, servers>>
          BY <1>6, <4>1 DEF Connect, TypeOK, Places
        <4>2. CASE RecordServer
          BY <1>6, <2>2, <3>1, <4>2
          DEF Connect, ConnectSetup, RecordServer, TypeOK, Places, Stream
        <4>3. QED BY <2>2, <4>1, <4>2 DEF ConnectSetup
      <3>3. CASE ~("fail" \in Answers \/ streamAddr = None)
        BY <1>6, <2>2, <3>1, <3>3
        DEF Connect, ConnectSetup, RecordServer, TypeOK, Places, Stream
      <3>4. QED BY <3>2, <3>3
    <2>3. QED BY <1>6, <2>1, <2>2 DEF Connect
  <1>7. CASE Connected
    BY <1>7, RequestInternalType DEF Connected, TypeOK, Places, TunerState
  <1>8. CASE ForcePids
    BY <1>8, UpdatePidsType DEF ForcePids, TypeOK, Places
  <1>9. CASE ConnectFailed
    BY <1>9, DisconnectType DEF ConnectFailed, TypeOK, Places
  <1>10. CASE TunedStatus
    BY <1>10 DEF TunedStatus, TypeOK, Places
  <1>11. CASE TunedLock
    <2>1. internalState' \in Seq(TunerState)
      BY <1>11, RequestInternalType DEF TunedLock, TypeOK, TunerState
    <2>2. QED BY <1>11, <2>1 DEF TunedLock, TypeOK, Places
  <1>12. CASE TunedTimeout
    <2>1. internalState' \in Seq(TunerState)
      BY <1>12, RequestInternalType DEF TunedTimeout, TypeOK, TunerState
    <2>2. QED BY <1>12, <2>1 DEF TunedTimeout, TypeOK, Places
  <1>13. CASE LockedPids
    BY <1>13, UpdatePidsType DEF LockedPids, TypeOK, Places
  <1>14. CASE LockedKeepAlive
    BY <1>14 DEF LockedKeepAlive, TypeOK, Places
  <1>15. CASE LockedWatch
    <2>1. internalState' \in Seq(TunerState)
      BY <1>15, RequestInternalType DEF LockedWatch, TypeOK, TunerState
    <2>2. QED BY <1>15, <2>1 DEF LockedWatch, TypeOK, Places
  <1>16. CASE LockedRetune
    BY <1>16, RequestInternalType DEF LockedRetune, TypeOK, Places, TunerState
  <1>17. QED
    BY <1>1, <1>2, <1>3, <1>4, <1>5, <1>6, <1>7, <1>8, <1>9, <1>10, <1>11,
       <1>12, <1>13, <1>14, <1>15, <1>16 DEF Thread

LEMMA EnvironmentType == TypeOK /\ Environment => TypeOK'
  <1> SUFFICES ASSUME TypeOK, Environment PROVE TypeOK' OBVIOUS
  <1> USE DEF queues, target, timers, link, pidSets, servers
  <1>1. ASSUME NEW s \in Servers, NEW tp \in Transponders, SetSource(s, tp)
        PROVE  TypeOK'
    <2>1. internalState' \in Seq(TunerState)
      BY <1>1, RequestInternalType DEF SetSource, TypeOK, TunerState
    <2>2. externalState' \in Seq(TunerState)
      BY <1>1, AppendKeeps DEF SetSource, RequestExternal, TypeOK, TunerState
    <2>3. nextServer' \in TunerServer
      BY <1>1 DEF SetSource, TunerServer
    <2>4. QED BY <1>1, <2>1, <2>2, <2>3 DEF SetSource, TypeOK
  <1>2. CASE ZapReturn BY <1>2 DEF ZapReturn, TypeOK
  <1>3. CASE Close \/ SetPowerSaveMode
    <2>1. externalState' \in Seq(TunerState)
      BY <1>3, AppendKeeps
      DEF Close, SetPowerSaveMode, RequestExternal, TypeOK, TunerState
    <2>2. QED BY <1>3, <2>1 DEF Close, SetPowerSaveMode, TypeOK
  <1>4. ASSUME NEW pid \in Pids, NEW on \in BOOLEAN, SetPid(pid, on)
        PROVE  TypeOK'
    BY <1>4 DEF SetPid, AddPid, RemovePid, TypeOK
  <1>5. CASE ProcessApplicationData BY <1>5 DEF ProcessApplicationData, TypeOK
  <1>6. CASE Destroy BY <1>6 DEF Destroy, TypeOK, Places, TunerState
  <1>7. ASSUME NEW s \in Servers, SessionExpires(s) PROVE TypeOK'
    BY <1>7 DEF SessionExpires, TypeOK, NoSession, Stream
  <1>8. QED BY <1>1, <1>2, <1>3, <1>4, <1>5, <1>6, <1>7 DEF Environment

LEMMA StutterType == TypeOK /\ UNCHANGED vars => TypeOK'
  BY DEF TypeOK, vars

(* Every reachable state has the types TypeOK names: in particular no      *)
(* request ever leaves a queue as anything but a tuner state.              *)
THEOREM TypeCorrect == Spec => []TypeOK
  <1>1. TypeOK /\ [Next]_vars => TypeOK'
    BY ThreadType, EnvironmentType, StutterType DEF Next
  <1>2. QED BY InitType, <1>1, PTL DEF Spec

-----------------------------------------------------------------------------
(* The PID sets.                                                           *)

(* In every reachable state nothing is scheduled for addition that is no   *)
(* longer wanted and nothing for deletion that is, however SetPid,         *)
(* Disconnect and UpdatePids interleave.                                   *)
THEOREM PidSetsStayConsistent == Spec => []PidSetsConsistent
  <1>1. Init => PidSetsConsistent
    BY DEF Init, PidSetsConsistent
  <1>2. TypeOK /\ PidSetsConsistent /\ [Next]_vars => PidSetsConsistent'
    <2> SUFFICES ASSUME TypeOK, PidSetsConsistent, [Next]_vars
                 PROVE  PidSetsConsistent'
      OBVIOUS
    <2> USE DEF pidSets
    <2>1. CASE UNCHANGED pidSets
      BY <2>1 DEF PidSetsConsistent
    <2>2. CASE Disconnect
      BY <2>2, DisconnectType DEF PidSetsConsistent
    <2>3. CASE ForcePids \/ LockedPids
      BY <2>3, UpdatePidsType
      DEF ForcePids, LockedPids, PidSetsConsistent, Places
    <2>4. ASSUME NEW pid \in Pids, NEW on \in BOOLEAN, SetPid(pid, on)
          PROVE  PidSetsConsistent'
      BY <2>4 DEF SetPid, AddPid, RemovePid, PidSetsConsistent
    <2>5. CASE Thread
      BY <2>1, <2>2, <2>3, <2>5
      DEF Thread, UpdateCurrentState, Idle, ReleaseDisconnect, ReleaseDone,
          SetTearDown, Connect, Connected, ConnectFailed, TunedStatus,
          TunedLock, TunedTimeout, LockedKeepAlive, LockedWatch, LockedRetune
    <2>6. CASE Environment
      BY <2>1, <2>4, <2>6
      DEF Environment, SetSource, ZapReturn, Close, SetPowerSaveMode,
          ProcessApplicationData, Destroy, SessionExpires
    <2>7. QED BY <2>1, <2>5, <2>6 DEF Next, vars
  <1>3. QED BY <1>1, <1>2, TypeCorrect, PTL DEF Spec

-----------------------------------------------------------------------------
(* The stream id.                                                          *)

(* TEARDOWN always goes to the server that issued the stream id: no        *)
(* interleaving of SetSource with Connect and Disconnect separates         *)
(* lastAddrM from the origin of streamIdM.                                 *)
THEOREM TeardownReachesIssuer == Spec => []TeardownAtIssuer
  <1>1. Init => TeardownAtIssuer
    BY DEF Init, TeardownAtIssuer
  <1>2. TeardownAtIssuer /\ [Next]_vars => TeardownAtIssuer'
    <2> SUFFICES ASSUME TeardownAtIssuer, [Next]_vars
                 PROVE  TeardownAtIssuer'
      OBVIOUS
    <2> USE DEF link
    <2>1. CASE UNCHANGED <<lastAddr, streamId>>
      BY <2>1 DEF TeardownAtIssuer
    <2>2. CASE Disconnect
      BY <2>2 DEF Disconnect, TeardownAtIssuer
    <2>3. CASE Connect
      BY <2>3 DEF Connect, ConnectRetune, ConnectSetup, RecordServer,
                  TeardownAtIssuer
    <2>4. CASE Thread
      BY <2>1, <2>2, <2>3, <2>4
      DEF Thread, UpdateCurrentState, Idle, ReleaseDisconnect, ReleaseDone,
          SetTearDown, Connected, ForcePids, ConnectFailed, TunedStatus,
          TunedLock, TunedTimeout, LockedPids, LockedKeepAlive, LockedWatch,
          LockedRetune
    <2>5. CASE Environment
      BY <2>1, <2>5
      DEF Environment, SetSource, ZapReturn, Close, SetPowerSaveMode, SetPid,
          ProcessApplicationData, Destroy, SessionExpires
    <2>6. QED BY <2>1, <2>4, <2>5 DEF Next, vars
  <1>3. QED BY <1>1, <1>2, PTL DEF Spec

-----------------------------------------------------------------------------
(* Zaps.                                                                   *)

(* Where the thread stands tells which case of the switch it is in, and    *)
(* the device requests nothing but sources and releases.                   *)
Requests ==
  /\ pc \in {"connect", "connected", "forcePids", "connectFailed"}
       => currentState = tsSet
  /\ pc \in {"statusOk", "noStatus"} => currentState = tsTuned
  /\ pc \in {"keepAlive", "watch", "retune"} => currentState = tsLocked
  /\ pc = "released" => currentState = tsRelease
  /\ ~InQueue(tsIdle, externalState)
  /\ ~InQueue(tsTuned, externalState)
  /\ ~InQueue(tsLocked, externalState)

(* The strengthening of NoLostZap: while the newest source is neither      *)
(* connected nor queued, no state that counts as tuned is on its way.      *)
NoTunedAhead ==
  /\ currentState \notin {tsTuned, tsLocked}
  /\ ~InQueue(tsTuned, internalState)
  /\ ~InQueue(tsLocked, internalState)
  /\ pc # "connected"

ZapKept == Newest \/ InQueue(tsSet, externalState) \/ NoTunedAhead

LEMMA RequestsInit == Init => Requests /\ ZapKept
  BY SMT DEF Init, Requests, ZapKept, NoTunedAhead, InQueue, tsIdle, tsTuned,
     tsLocked

LEMMA RequestsStep ==
  ASSUME TypeOK, Requests, [Next]_vars
  PROVE  Requests'
  <1> USE DEF queues, target, timers, link, pidSets, servers
  <1>1. CASE ForcePids \/ LockedPids
    BY <1>1, UpdatePidsType
    DEF ForcePids, LockedPids, Places, Requests, InQueue
  <1>2. CASE UpdateCurrentState
    <2>1. externalState # <<>> =>
            \A r \in TunerState :
              InQueue(r, Tail(externalState)) => InQueue(r, externalState)
      BY TakeKeeps DEF TypeOK
    <2>2. /\ ~InQueue(tsIdle, externalState')
          /\ ~InQueue(tsTuned, externalState')
          /\ ~InQueue(tsLocked, externalState')
      BY <1>2, <2>1 DEF UpdateCurrentState, Requests, TunerState
    <2>3. QED BY <1>2, <2>2 DEF UpdateCurrentState, Requests
  <1>3. CASE Thread
    BY <1>1, <1>2, <1>3
    DEF Thread, Idle, ReleaseDisconnect, ReleaseDone,
        SetTearDown, Connect, ConnectRetune, ConnectSetup, Connected,
        ConnectFailed, TunedStatus, TunedLock, TunedTimeout,
        LockedKeepAlive, LockedWatch, LockedRetune, Requests, InQueue
  <1>4. ASSUME NEW s \in {tsSet, tsRelease}, RequestExternal(s),
               UNCHANGED <<pc, currentState>>
        PROVE  Requests'
    <2>1. \A r \in TunerState :
            InQueue(r, externalState') <=> InQueue(r, externalState) \/ r = s
      BY <1>4, AppendKeeps DEF RequestExternal, TypeOK, TunerState
    <2>2. /\ ~InQueue(tsIdle, externalState')
          /\ ~InQueue(tsTuned, externalState')
          /\ ~InQueue(tsLocked, externalState')
      BY <2>1 DEF Requests, TunerState, tsIdle, tsRelease, tsSet, tsTuned,
                  tsLocked
    <2>3. QED BY <1>4, <2>2 DEF Requests
  <1>5. CASE Destroy
    BY <1>5 DEF Destroy, Requests, InQueue
  <1>6. CASE Environment
    BY <1>4, <1>5, <1>6
    DEF Environment, SetSource, ZapReturn, Close, SetPowerSaveMode, SetPid,
        ProcessApplicationData, SessionExpires, Requests, InQueue
  <1>7. QED BY <1>3, <1>6 DEF Next, vars, Requests, InQueue

(* A request of the state machine itself keeps ZapKept, unless it is for a *)
(* tuned state out of a state that is not.                                 *)
LEMMA ZapKeptOnRequest ==
  ASSUME TypeOK, ZapKept, NEW s \in TunerState, RequestInternal(s),
         s \in {tsTuned, tsLocked} =>
            pc = "connected" \/ currentState \in {tsTuned, tsLocked},
         pc' # "connected",
         UNCHANGED <<currentState, externalState, target, lastAddr, lastParam>>
  PROVE  ZapKept'
  <1>1. CASE Newest \/ InQueue(tsSet, externalState)
    BY <1>1 DEF ZapKept, Newest, InQueue, target
  <1>2. CASE ~(Newest \/ InQueue(tsSet, externalState))
    <2>1. NoTunedAhead BY <1>2 DEF ZapKept
    <2>2. s \notin {tsTuned, tsLocked} BY <2>1 DEF NoTunedAhead
    <2>3. /\ ~InQueue(tsTuned, internalState')
          /\ ~InQueue(tsLocked, internalState')
      BY <2>1, <2>2, AppendKeeps
      DEF RequestInternal, TypeOK, TunerState, NoTunedAhead
    <2>4. currentState' \notin {tsTuned, tsLocked} BY <2>1 DEF NoTunedAhead
    <2>5. QED BY <2>3, <2>4 DEF ZapKept, NoTunedAhead
  <1>3. QED BY <1>1, <1>2

LEMMA ZapKeptOnTake ==
  ASSUME TypeOK, Requests, ZapKept, UpdateCurrentState
  PROVE  ZapKept'
  <1> USE DEF target, link
  <1>1. CASE internalState # <<>>
    <2>1. \A r \in TunerState :
            /\ Head(internalState) = r => InQueue(r, internalState)
            /\ InQueue(r, Tail(internalState)) => InQueue(r, internalState)
      BY <1>1, TakeKeeps DEF TypeOK
    <2>2. NoTunedAhead => NoTunedAhead'
      BY <1>1, <2>1 DEF UpdateCurrentState, NoTunedAhead, TunerState
    <2>3. UNCHANGED <<externalState, streamAddr, streamParam, lastAddr, lastParam>>
      BY <1>1 DEF UpdateCurrentState
    <2>4. QED BY <2>2, <2>3 DEF ZapKept, Newest, InQueue
  <1>2. CASE internalState = <<>> /\ externalState # <<>>
    <2>1. /\ \A r \in TunerState : Head(externalState) = r => InQueue(r, externalState)
          /\ InQueue(tsSet, externalState) =>
               Head(externalState) = tsSet \/ InQueue(tsSet, Tail(externalState))
      BY <1>2, TakeKeeps DEF TypeOK, TunerState
    <2>2. Head(externalState) \notin {tsTuned, tsLocked}
      BY <2>1 DEF Requests, TunerState
    <2>3. ~InQueue(tsTuned, internalState') /\ ~InQueue(tsLocked, internalState')
      BY <1>2 DEF UpdateCurrentState, InQueue
    <2>4. NoTunedAhead'
      BY <1>2, <2>2, <2>3 DEF UpdateCurrentState, NoTunedAhead
    <2>5. QED BY <2>4 DEF ZapKept
  <1>3. CASE internalState = <<>> /\ externalState = <<>>
    BY <1>3 DEF UpdateCurrentState, ZapKept, NoTunedAhead, Newest, InQueue
  <1>4. QED BY <1>1, <1>2, <1>3

LEMMA ZapKeptOnConnect ==
  ASSUME TypeOK, Requests, TeardownAtIssuer, ZapKept, Connect
  PROVE  ZapKept'
  <1> USE DEF queues, target, link, servers
  <1>1. CASE pc' = "connected"
    <2>1. CASE ConnectRetune
      BY <1>1, <2>1 DEF Connect, ConnectRetune, StreamAnswers, TeardownAtIssuer,
                        Newest, ZapKept
    <2>2. CASE ConnectSetup
      BY <1>1, <2>2 DEF Connect, ConnectSetup, RecordServer, Newest, ZapKept
    <2>3. QED BY <2>1, <2>2 DEF Connect
  <1>2. CASE pc' = "connectFailed"
    BY <1>2 DEF Connect, ConnectRetune, ConnectSetup, ZapKept, NoTunedAhead,
                Newest, InQueue
  <1>3. QED BY <1>1, <1>2 DEF Connect, ConnectRetune, ConnectSetup

LEMMA ZapStep ==
  ASSUME TypeOK, Requests, TeardownAtIssuer, ZapKept, [Next]_vars
  PROVE  ZapKept'
  <1> USE DEF queues, target, timers, link, pidSets, servers
  <1>1. ASSUME pc' # "connected" \/ pc' = pc,
               UNCHANGED <<currentState, queues, target, lastAddr, lastParam>>
        PROVE  ZapKept'
    BY <1>1 DEF ZapKept, NoTunedAhead, Newest, InQueue
  <1>2. CASE ReleaseDone \/ Connected \/ LockedRetune \/ TunedLock
             \/ TunedTimeout \/ LockedWatch
    BY <1>1, <1>2, ZapKeptOnRequest
    DEF ReleaseDone, Connected, LockedRetune, TunedLock, TunedTimeout,
        LockedWatch, Requests, TunerState, tsIdle, tsRelease, tsSet, tsTuned,
        tsLocked
  <1>3. CASE ForcePids \/ LockedPids
    BY <1>1, <1>3, UpdatePidsType DEF ForcePids, LockedPids, Places
  <1>4. CASE Disconnect /\ pc' # "connected" /\ UNCHANGED <<currentState, queues, target>>
    BY <1>1, <1>4 DEF Disconnect
  <1>5. CASE Thread
    BY <1>1, <1>2, <1>3, <1>4, <1>5, ZapKeptOnTake, ZapKeptOnConnect
    DEF Thread, Idle, ReleaseDisconnect, SetTearDown, ConnectFailed,
        TunedStatus, LockedKeepAlive
  <1>6. ASSUME NEW s \in Servers, NEW tp \in Transponders, SetSource(s, tp)
        PROVE  ZapKept'
    <2>1. InQueue(tsSet, externalState')
      BY <1>6, AppendKeeps DEF SetSource, RequestExternal, TypeOK, TunerState
    <2>2. QED BY <2>1 DEF ZapKept
  <1>7. CASE Close \/ SetPowerSaveMode
    <2>1. InQueue(tsSet, externalState) => InQueue(tsSet, externalState')
      BY <1>7, AppendKeeps
      DEF Close, SetPowerSaveMode, RequestExternal, TypeOK, TunerState
    <2>2. QED BY <1>7, <2>1 DEF Close, SetPowerSaveMode, ZapKept, NoTunedAhead,
                                Newest, InQueue
  <1>8. CASE Destroy
    BY <1>8 DEF Destroy, ZapKept, NoTunedAhead, InQueue, tsIdle, tsTuned, tsLocked
  <1>9. CASE Environment
    BY <1>1, <1>6, <1>7, <1>8, <1>9
    DEF Environment, ZapReturn, SetPid, ProcessApplicationData, SessionExpires
  <1>10. QED BY <1>1, <1>5, <1>9 DEF Next, vars

(* No zap is lost: a tuner that counts as tuned is connected to the newest *)
(* source of the device, or the request that will take it up is queued.    *)
THEOREM ZapsAreKept == Spec => []NoLostZap
  <1>1. TypeOK /\ Requests /\ TeardownAtIssuer /\ ZapKept => NoLostZap
    BY DEF TypeOK, TunerState, ZapKept, NoTunedAhead, NoLostZap, tsIdle,
           tsRelease, tsSet, tsTuned, tsLocked
  <1>2. QED
    BY <1>1, RequestsInit, RequestsStep, ZapStep, TypeCorrect,
       TeardownReachesIssuer, PTL DEF Spec

-----------------------------------------------------------------------------
(* Frontends.                                                              *)

(* The strengthening of AttachedIsCurrent: without a stream id nothing is  *)
(* attached, except between a failed PLAY and the Disconnect after it.     *)
FrontendInv ==
  /\ AttachedIsCurrent
  /\ streamId = None /\ pc \notin {"connectFailed", "stopped"} => attached = {}

LEMMA FrontendStep ==
  ASSUME "forbidden" \notin Answers, TypeOK, FrontendInv, TeardownAtIssuer,
         [Next]_vars
  PROVE  FrontendInv'
  <1> USE DEF queues, target, timers, link, pidSets, servers
  <1>1. ASSUME UNCHANGED <<streamId, attached, currentServer>>,
               pc' \in {"connectFailed", "stopped"} \/
                  pc \notin {"connectFailed", "stopped"}
        PROVE  FrontendInv'
    BY <1>1 DEF FrontendInv, AttachedIsCurrent
  <1>2. CASE Disconnect
    BY <1>2 DEF Disconnect, DetachServer, FrontendInv, AttachedIsCurrent
  <1>3. CASE Connect
    <2>1. CASE ConnectRetune
      BY <1>3, <2>1 DEF Connect, ConnectRetune, FrontendInv, AttachedIsCurrent
    <2>2. CASE ConnectSetup
      <3>1. attached = {}
        BY <1>3, <2>2 DEF Connect, ConnectSetup, FrontendInv
      <3>2. CASE pc' = "connectFailed" /\ UNCHANGED <<link, servers>>
        BY <1>1, <3>2
      <3>3. CASE RecordServer /\ streamId' = streamAddr /\ streamAddr # None
        BY <3>1, <3>3 DEF RecordServer, FrontendInv, AttachedIsCurrent
      <3>4. QED BY <2>2, <3>2, <3>3 DEF ConnectSetup, TypeOK
    <2>3. QED BY <1>3, <2>1, <2>2 DEF Connect
  <1>4. CASE ForcePids \/ LockedPids
    BY <1>1, <1>4 DEF ForcePids, LockedPids
  <1>5. CASE Thread
    BY <1>1, <1>2, <1>3, <1>4, <1>5
    DEF Thread, UpdateCurrentState, Idle, ReleaseDisconnect, ReleaseDone,
        SetTearDown, Connected, ConnectFailed, TunedStatus, TunedLock,
        TunedTimeout, LockedKeepAlive, LockedWatch, LockedRetune
  <1>6. CASE Environment
    BY <1>1, <1>6
    DEF Environment, SetSource, ZapReturn, Close, SetPowerSaveMode, SetPid,
        ProcessApplicationData, Destroy, SessionExpires, FrontendInv,
        AttachedIsCurrent
  <1>7. QED BY <1>1, <1>5, <1>6 DEF Next, vars, FrontendInv, AttachedIsCurrent

(* With servers that never answer 403, at most one frontend is attached    *)
(* for the tuner, and it is the one its next Disconnect gives back.        *)
THEOREM FrontendsAreGivenBack ==
  ASSUME "forbidden" \notin Answers
  PROVE  Spec => []AttachedIsCurrent
  <1>1. Init => FrontendInv
    BY DEF Init, FrontendInv, AttachedIsCurrent
  <1>2. TypeOK /\ FrontendInv /\ TeardownAtIssuer /\ [Next]_vars => FrontendInv'
    BY FrontendStep
  <1>3. FrontendInv => AttachedIsCurrent
    BY DEF FrontendInv
  <1>4. QED
    BY <1>1, <1>2, <1>3, TypeCorrect, TeardownReachesIssuer, PTL DEF Spec

-----------------------------------------------------------------------------
(* Rest.                                                                   *)

Holding == streamId # None \/ attached # {}

(* The strengthening of IdleMeansReleased: while the tuner holds anything, *)
(* its own requests do not end in tsIdle; after Connect() they may, but    *)
(* tsTuned is about to follow.                                             *)
RestInv ==
  /\ Holding /\ pc \notin {"connected", "stopped"} => LatestRequest(internalState) # tsIdle
  /\ pc = "released" => ~Holding

LEMMA LastOnRequest ==
  ASSUME TypeOK, NEW s \in TunerState, RequestInternal(s),
         UNCHANGED currentState
  PROVE  LatestRequest(internalState)' = IF s = tsRelease /\ LatestRequest(internalState) = tsIdle
                                THEN tsIdle ELSE s
  BY AppendKeeps DEF RequestInternal, LatestRequest, TypeOK

LEMMA LastOnTake ==
  ASSUME TypeOK, Requests, UpdateCurrentState, LatestRequest(internalState) # tsIdle
  PROVE  LatestRequest(internalState)' # tsIdle
  <1>1. CASE internalState # <<>>
    BY <1>1, TakeKeeps DEF UpdateCurrentState, LatestRequest, TypeOK
  <1>2. CASE internalState = <<>> /\ externalState # <<>>
    <2>1. Head(externalState) # tsIdle
      BY <1>2, TakeKeeps DEF Requests, TypeOK, TunerState
    <2>2. QED BY <1>2, <2>1 DEF UpdateCurrentState, LatestRequest
  <1>3. CASE internalState = <<>> /\ externalState = <<>>
    BY <1>3 DEF UpdateCurrentState, LatestRequest
  <1>4. QED BY <1>1, <1>2, <1>3

LEMMA RestStep ==
  ASSUME TypeOK, Requests, TeardownAtIssuer, AttachedIsCurrent, RestInv,
         [Next]_vars
  PROVE  RestInv'
  <1> USE DEF queues, target, timers, link, pidSets, servers
  <1>1. ASSUME UNCHANGED <<currentState, internalState>>, Holding' => Holding,
               pc # "connected" \/ pc' = pc, pc # "stopped" \/ pc' = pc,
               pc' # "released" \/ pc' = pc
        PROVE  RestInv'
    BY <1>1 DEF RestInv, LatestRequest
  <1>2. CASE UpdateCurrentState
    BY <1>2, LastOnTake DEF UpdateCurrentState, RestInv, Holding
  <1>3. CASE ReleaseDisconnect
    BY <1>3 DEF ReleaseDisconnect, Disconnect, DetachServer, TeardownAtIssuer,
                AttachedIsCurrent, RestInv, Holding
  <1>4. CASE ReleaseDone
    BY <1>4 DEF ReleaseDone, RestInv, Holding
  <1>5. CASE Connect
    <2>1. CASE pc' = "connected"
      BY <2>1 DEF RestInv
    <2>2. CASE pc' = "connectFailed"
      <3>1. Holding' => Holding
        BY <1>5, <2>2
        DEF Connect, ConnectRetune, ConnectSetup, Holding
      <3>2. QED BY <1>1, <1>5, <2>2, <3>1 DEF Connect
    <2>3. QED BY <1>5, <2>1, <2>2 DEF Connect, ConnectRetune, ConnectSetup
  <1>6. CASE Connected \/ LockedRetune \/ TunedLock \/ TunedTimeout \/ LockedWatch
    <2>1. ASSUME NEW s \in {tsRelease, tsSet, tsTuned, tsLocked},
                 RequestInternal(s), pc # "stopped", pc' # "released",
                 s = tsRelease => pc # "connected",
                 UNCHANGED <<currentState, streamId, attached>>
          PROVE  RestInv'
      BY <2>1, LastOnRequest
      DEF RestInv, Holding, TunerState, tsIdle, tsRelease, tsSet, tsTuned, tsLocked
    <2>2. CASE Connected BY <2>1, <2>2 DEF Connected, tsRelease, tsTuned
    <2>3. CASE LockedRetune BY <2>1, <2>3 DEF LockedRetune
    <2>4. CASE TunedLock BY <1>1, <2>1, <2>4 DEF TunedLock, Holding
    <2>5. CASE TunedTimeout BY <1>1, <2>1, <2>5 DEF TunedTimeout, Holding
    <2>6. CASE LockedWatch BY <1>1, <2>1, <2>6 DEF LockedWatch, Holding
    <2>7. QED BY <1>6, <2>2, <2>3, <2>4, <2>5, <2>6
  <1>7. CASE ForcePids \/ LockedPids
    BY <1>1, <1>7, UpdatePidsType DEF ForcePids, LockedPids, Places, Holding
  <1>8. CASE SetTearDown \/ ConnectFailed
    BY <1>1, <1>8 DEF SetTearDown, ConnectFailed, Disconnect, DetachServer, Holding
  <1>9. CASE Thread
    BY <1>1, <1>2, <1>3, <1>4, <1>5, <1>6, <1>7, <1>8, <1>9
    DEF Thread, Idle, TunedStatus, LockedKeepAlive, Holding
  <1>10. ASSUME NEW s \in Servers, NEW tp \in Transponders, SetSource(s, tp)
         PROVE  RestInv'
    <2>1. CASE UNCHANGED internalState
      BY <1>1, <1>10, <2>1 DEF SetSource, Holding
    <2>2. CASE RequestInternal(tsRelease)
      BY <1>10, <2>2, LastOnRequest
      DEF SetSource, RestInv, Holding, TunerState, tsIdle, tsRelease
    <2>3. QED BY <1>10, <2>1, <2>2 DEF SetSource
  <1>11. CASE Destroy
    BY <1>11 DEF Destroy, RestInv
  <1>12. CASE Environment
    BY <1>1, <1>10, <1>11, <1>12
    DEF Environment, ZapReturn, Close, SetPowerSaveMode, SetPid,
        ProcessApplicationData, SessionExpires, Holding
  <1>13. QED BY <1>1, <1>9, <1>12 DEF Next, vars, Holding

(* With servers that never answer 403, a tuner at rest in tsIdle has torn  *)
(* down its stream and given back its frontend, in whatever order          *)
(* releases, zaps and failures were requested.                             *)
THEOREM IdleTunerHoldsNothing ==
  ASSUME "forbidden" \notin Answers
  PROVE  Spec => []IdleMeansReleased
  <1>1. Init => RestInv
    BY DEF Init, RestInv, Holding
  <1>2. RestInv => IdleMeansReleased
    BY DEF RestInv, Holding, LatestRequest, IdleMeansReleased
  <1>3. TypeOK /\ Requests /\ TeardownAtIssuer /\ AttachedIsCurrent /\ RestInv
        /\ [Next]_vars => RestInv'
    BY RestStep
  <1>4. TypeOK /\ Requests /\ [Next]_vars => Requests'
    BY RequestsStep
  <1>5. Init => Requests
    BY RequestsInit
  <1>6. QED
    BY <1>1, <1>2, <1>3, <1>4, <1>5, TypeCorrect, TeardownReachesIssuer,
       FrontendsAreGivenBack, PTL DEF Spec

-----------------------------------------------------------------------------
(* PIDs asked for.                                                         *)

(* With one server that does not fail the strengthening of AddsNotLost: a  *)
(* stream the tuner has an id for is alive, so each PLAY succeeds.         *)
OneGoodServer == Answers = {"ok"} /\ \A s, t \in Servers : s = t

StreamAlive ==
  /\ streamAddr # None => streamParam # None
  /\ streamId # None => streamAddr # None /\ session[streamId].tp # None

AddsInv == StreamAlive /\ AddsNotLost

(* Every PLAY of a live stream is answered with "ok".                      *)
LEMMA PlayAnswered ==
  ASSUME OneGoodServer, TypeOK, StreamAlive, streamId # None
  PROVE  StreamAnswers = {"ok"}
  <1>1. streamAddr = streamId
    BY DEF OneGoodServer, TypeOK, StreamAlive
  <1>2. session[streamId] # NoSession
    BY DEF StreamAlive, NoSession
  <1>3. QED BY <1>1, <1>2 DEF StreamAnswers, OneGoodServer

(* UpdatePids() forwards all PIDs with force, and otherwise all that it    *)
(* takes out of the set of those to be added.                              *)
LEMMA PidsForwarded ==
  ASSUME OneGoodServer, TypeOK, PidSetsConsistent, StreamAlive,
         NEW force \in BOOLEAN, NEW done, NEW failed,
         UpdatePids(force, done, failed), streamId # None,
         force \/ pids \ session[streamId].pids \subseteq addPids
  PROVE  /\ session'[streamId].tp # None
         /\ pids \ session'[streamId].pids \subseteq addPids'
  <1> DEFINE whole == SendsWholeList(force)
             old   == session[streamId]
             new   == IF whole THEN pids ELSE (old.pids \cup addPids) \ delPids
  <1>1. old \in Stream /\ old.tp # None
    BY DEF TypeOK, StreamAlive
  <1>2. CASE addPids' = {} /\ session' = session /\ whole /\ pids = {}
    BY <1>1, <1>2
  <1>3. CASE session' = session /\ addPids' = addPids /\ ~(force /\ pids # {})
    BY <1>1, <1>3
  <1>4. CASE Play("ok", [old EXCEPT !.pids = new]) /\ addPids' = {}
    <2>1. session'[streamId] = [old EXCEPT !.pids = new]
      BY <1>4, Zenon DEF Play, TypeOK
    <2>2. session'[streamId].pids = new /\ session'[streamId].tp = old.tp
      BY <1>1, <2>1 DEF Stream
    <2>3. pids \subseteq new
      BY DEF PidSetsConsistent, SendsWholeList
    <2>4. QED BY <1>1, <1>4, <2>2, <2>3
  <1>5. QED
    <2>1. streamAddr # None /\ StreamAnswers = {"ok"}
      BY PlayAnswered DEF StreamAlive
    <2>2. QED BY <1>2, <1>3, <1>4, <2>1 DEF UpdatePids

(* Every step preserves AddsInv.                                           *)
LEMMA AddsStep ==
  ASSUME OneGoodServer, TypeOK, PidSetsConsistent, TeardownAtIssuer, AddsInv,
         [Next]_vars
  PROVE  AddsInv'
  <1> USE DEF queues, target, timers, link, pidSets, servers
  <1>1. ASSUME UNCHANGED <<streamAddr, streamParam, streamId, session, pids,
                           addPids>>,
               pc' \in {"connected", "forcePids", "stopped"} \/
                  pc \notin {"connected", "forcePids", "stopped"}
        PROVE  AddsInv'
    BY <1>1 DEF AddsInv, StreamAlive, AddsNotLost
  <1>2. CASE Disconnect /\ UNCHANGED target
    <2>1. streamId' = None
      BY <1>2 DEF Disconnect, TeardownAtIssuer
    <2>2. QED BY <1>2, <2>1 DEF AddsInv, StreamAlive, AddsNotLost
  <1>3. CASE Connect
    <2>1. CASE ConnectRetune
      <3>1. streamId # None /\ streamAddr # None /\ StreamAnswers = {"ok"}
        BY <2>1, PlayAnswered DEF ConnectRetune, AddsInv
      <3>2. pc' = "connected" /\ streamId' = streamId
        BY <2>1, <3>1 DEF ConnectRetune
      <3>3. session'[streamId] = [tp |-> streamParam,
                                  pids |-> session[streamId].pids]
        BY <2>1, <3>1 DEF ConnectRetune, Play, TypeOK
      <3>4. session'[streamId].tp # None
        BY <3>1, <3>3 DEF AddsInv, StreamAlive
      <3>5. QED
        BY <1>3, <3>1, <3>2, <3>4 DEF Connect, AddsInv, StreamAlive, AddsNotLost
    <2>2. CASE ConnectSetup
      <3>1. CASE pc' = "connectFailed" /\ UNCHANGED <<link, servers>>
        BY <1>1, <1>3, <3>1 DEF Connect
      <3>2. CASE /\ streamAddr # None /\ streamId' = streamAddr
                 /\ session' = [session EXCEPT ![streamAddr] =
                                  [tp |-> streamParam, pids |-> {}]]
                 /\ pc' = "connected"
        <4>1. session'[streamId'].tp # None
          BY <3>2 DEF TypeOK, AddsInv, StreamAlive
        <4>2. QED
          BY <1>3, <3>2, <4>1 DEF Connect, AddsInv, StreamAlive, AddsNotLost
      <3>3. QED BY <2>2, <3>1, <3>2 DEF ConnectSetup, OneGoodServer
    <2>3. QED BY <1>3, <2>1, <2>2 DEF Connect
  <1>4. CASE ForcePids \/ LockedPids
    <2>1. PICK force \in BOOLEAN, done \in Places, failed \in Places :
            /\ UpdatePids(force, done, failed)
            /\ force \/ pc = "dispatch"
      BY <1>4 DEF ForcePids, LockedPids, Places
    <2>2. UNCHANGED <<target, streamId, pids>>
      BY <1>4 DEF ForcePids, LockedPids
    <2>3. CASE streamId = None
      BY <2>2, <2>3 DEF AddsInv, StreamAlive, AddsNotLost
    <2>4. CASE streamId # None
      <3>1. force \/ pids \ session[streamId].pids \subseteq addPids
        BY <2>1, <2>4 DEF AddsInv, AddsNotLost
      <3>2. /\ session'[streamId].tp # None
            /\ pids \ session'[streamId].pids \subseteq addPids'
        BY <2>1, <2>4, <3>1, PidsForwarded DEF AddsInv
      <3>3. QED BY <2>2, <2>4, <3>2 DEF AddsInv, StreamAlive, AddsNotLost
    <2>5. QED BY <2>3, <2>4
  <1>5. CASE Thread
    BY <1>1, <1>2, <1>3, <1>4, <1>5
    DEF Thread, UpdateCurrentState, Idle, ReleaseDisconnect, ReleaseDone,
        SetTearDown, Connected, ConnectFailed, TunedStatus, TunedLock,
        TunedTimeout, LockedKeepAlive, LockedWatch, LockedRetune
  <1>6. ASSUME NEW s \in Servers, NEW tp \in Transponders, SetSource(s, tp)
        PROVE  AddsInv'
    <2>1. s # None /\ tp # None
      BY ConstantsAssumption
    <2>2. QED
      BY <1>6, <2>1 DEF SetSource, AddsInv, StreamAlive, AddsNotLost
  <1>7. ASSUME NEW pid \in Pids, NEW on \in BOOLEAN, SetPid(pid, on)
        PROVE  AddsInv'
    BY <1>7 DEF SetPid, AddPid, RemovePid, AddsInv, StreamAlive, AddsNotLost
  <1>8. CASE Environment
    BY <1>1, <1>6, <1>7, <1>8
    DEF Environment, ZapReturn, Close, SetPowerSaveMode,
        ProcessApplicationData, Destroy, SessionExpires, OneGoodServer
  <1>9. QED BY <1>1, <1>5, <1>8 DEF Next, vars

(* With one server that does not fail, and any quirks, no PID the device   *)
(* asked for is forgotten: the server forwards it or it is scheduled.      *)
THEOREM PidsAreNotLost ==
  ASSUME Answers = {"ok"}, \A s, t \in Servers : s = t
  PROVE  Spec => []AddsNotLost
  <1>1. OneGoodServer
    BY DEF OneGoodServer
  <1>2. Init => AddsInv
    BY DEF Init, AddsInv, StreamAlive, AddsNotLost
  <1>3. TypeOK /\ PidSetsConsistent /\ TeardownAtIssuer /\ AddsInv
        /\ [Next]_vars => AddsInv'
    BY <1>1, AddsStep
  <1>4. AddsInv => AddsNotLost
    BY DEF AddsInv
  <1>5. QED
    BY <1>2, <1>3, <1>4, TypeCorrect, PidSetsStayConsistent,
       TeardownReachesIssuer, PTL DEF Spec

-----------------------------------------------------------------------------
(* SatipDiscover                                                           *)

(* How many servers fit the list.                                          *)
LEMMA ListBounded ==
  ASSUME IsFiniteSet(Urls)
  PROVE  /\ Cardinality(Entries) \in Nat
         /\ \A s \in Seq(Entries) :
              IsInjective(s) => Len(s) \in Nat /\ Len(s) <= Cardinality(Entries)
<1>1. IsFiniteSet(Entries)
  <2> DEFINE f == [e \in Entries |-> <<e.url, e.whole>>]
  <2>1. IsFiniteSet(BOOLEAN)
    <3>1. BOOLEAN = ({} \cup {TRUE}) \cup {FALSE}
      OBVIOUS
    <3>2. IsFiniteSet({} \cup {TRUE})
      BY FS_EmptySet, FS_AddElement
    <3> QED BY <3>1, <3>2, FS_AddElement
  <2>2. IsFiniteSet(Urls \X BOOLEAN)
    BY <2>1, FS_Product
  <2>3. f \in Injection(Entries, Urls \X BOOLEAN)
    <3>1. f \in [Entries -> Urls \X BOOLEAN]
      BY DEF Entries
    <3>2. ASSUME NEW a \in Entries, NEW b \in Entries, f[a] = f[b]
          PROVE  a = b
      BY <3>2 DEF Entries
    <3> QED BY <3>1, <3>2 DEF Injection, IsInjective
  <2> QED BY <2>2, <2>3, FS_Injection
<1>2. ASSUME NEW s \in Seq(Entries), IsInjective(s)
      PROVE  Len(s) \in Nat /\ Len(s) <= Cardinality(Entries)
  <2>1. s \in Injection(1..Len(s), Entries) /\ Len(s) \in Nat
    BY <1>2, LenProperties DEF Injection
  <2>2. Cardinality(1..Len(s)) = Len(s)
    <3>1. 1 \in Int /\ Len(s) \in Int
      BY <2>1
    <3>2. Cardinality(1..Len(s)) = IF 1 > Len(s) THEN 0 ELSE Len(s) - 1 + 1
      BY <3>1, FS_Interval
    <3> QED BY <2>1, <3>2
  <2> QED BY <1>1, <2>1, <2>2, FS_Injection
<1> QED BY <1>1, <1>2, FS_CardinalityType

(* What is left when an entry is taken out.                                *)
LEMMA Removed ==
  ASSUME NEW S, NEW s \in Seq(S), NEW j \in 1..Len(s)
  PROVE  /\ RemoveAt(s, j) \in Seq(S)
         /\ Len(RemoveAt(s, j)) = Len(s) - 1
         /\ \A i \in 1..Len(s) - 1 :
              RemoveAt(s, j)[i] = IF i < j THEN s[i] ELSE s[i + 1]
<1>1. /\ Len(s) \in Nat /\ j \in Int /\ 1 <= j /\ j <= Len(s)
      /\ \A i \in 1..Len(s) : s[i] \in S
  OBVIOUS
<1>2. PICK a, b : a = SubSeq(s, 1, j - 1) /\ b = SubSeq(s, j + 1, Len(s))
  OBVIOUS
<1>3. /\ a \in Seq(S) /\ Len(a) = j - 1
      /\ \A i \in 1..j - 1 : a[i] = s[i]
  BY <1>1, <1>2, SMT
<1>4. /\ b \in Seq(S) /\ Len(b) = Len(s) - j
      /\ \A i \in 1..Len(s) - j : b[i] = s[j + i]
  BY <1>1, <1>2, SMT
<1>5. RemoveAt(s, j) = a \o b
  BY <1>2 DEF RemoveAt
<1>6. /\ a \o b \in Seq(S) /\ Len(a \o b) = Len(a) + Len(b)
      /\ \A i \in 1..Len(a) + Len(b) :
           (a \o b)[i] = IF i <= Len(a) THEN a[i] ELSE b[i - Len(a)]
  BY <1>3, <1>4, ConcatProperties
<1>7. Len(a \o b) = Len(s) - 1
  BY <1>1, <1>3, <1>4, <1>6
<1>8. ASSUME NEW i \in 1..Len(s) - 1
      PROVE  (a \o b)[i] = IF i < j THEN s[i] ELSE s[i + 1]
  <2>1. (a \o b)[i] = IF i <= j - 1 THEN a[i] ELSE b[i - (j - 1)]
    BY <1>1, <1>3, <1>4, <1>6
  <2>2. CASE i < j
    BY <1>1, <1>3, <2>1, <2>2
  <2>3. CASE ~(i < j)
    <3>1. i - (j - 1) \in 1..Len(s) - j /\ j + (i - (j - 1)) = i + 1
      BY <1>1, <2>3
    <3>2. b[i - (j - 1)] = s[i + 1]
      BY <1>4, <3>1
    <3> QED BY <1>1, <2>1, <2>3, <3>2
  <2> QED BY <2>2, <2>3
<1> QED BY <1>5, <1>6, <1>7, <1>8

-----------------------------------------------------------------------------
(* The list is sound.                                                      *)

(* A probe is answered once until its second query is sent.                *)
DueFits == place \in {"first", "probe"} => \A u \in Urls : due[u] <= 1

(* While a description is fetched, its URL is there.                       *)
HasUrl == place = "fetch" => tmp # <<>>

AtLeast(e, t) == seen[e] > CleanupTimeout \/ seen[e] >= t

(* What the probes since an entry was fetched say of the time since then.  *)
Aged ==
  \A e \in Entries : Listed(e) =>
    /\ age[e] >= 1 => AtLeast(e, timer)
    /\ age[e] >= 2 => AtLeast(e, ProbeInterval + timer)
    /\ age[e] >= 3 => AtLeast(e, 2 * ProbeInterval + timer)
    /\ age[e] >= 4 => AtLeast(e, 3 * ProbeInterval + timer)

(* The oldest an entry may be at its place: one more until Cleanup().      *)
Oldest == IF place \in {"probe", "cleanup", "ended"} THEN 4 ELSE 3

Placed ==
  \A i \in 1..Len(known) : age[known[i]] + i <= Oldest + Cardinality(Entries)

ListInv == DiscoverTypeOK /\ DueFits /\ HasUrl /\ Aged /\ Placed

LEMMA Constants ==
  /\ ProbeInterval \in Nat /\ ProbeInterval > 0
  /\ CleanupTimeout \in Nat /\ CleanupTimeout > 0
  /\ ProbeTime \in Nat /\ ProbeTime > 0
  /\ SleepTime \in Nat /\ SleepTime > 0
  /\ FetchTime \in Nat /\ FetchTime > 0
  /\ AnswerTime \in Nat /\ AnswerTime > 0
  /\ CancelTime \in Nat /\ CancelTime > 0
  /\ ProbeTime <= AnswerTime /\ AnswerTime < ProbeInterval
  /\ MaxTimer \in Nat /\ MaxTimer = 2 * ProbeInterval
BY TimesAssumption DEF MaxTimer

LEMMA InitList ==
  ASSUME IsFiniteSet(Urls), DiscoverInit
  PROVE  ListInv
<1>1. DiscoverTypeOK
  <2>1. known \in Seq(Entries) /\ IsInjective(known)
    BY DEF DiscoverInit, IsInjective
  <2>2. seen \in [Entries -> 0..CleanupTimeout + 1] /\ timer \in 0..MaxTimer
    BY Constants DEF DiscoverInit
  <2>3. probeUrls \in Seq(Urls) /\ tmp \in Seq(Urls)
    BY DEF DiscoverInit
  <2>4. due \in [Urls -> 0..2] /\ age \in [Entries -> Nat]
    BY DEF DiscoverInit
  <2>5. busy \in Nat /\ wait \in 0..CancelTime
    BY Constants DEF DiscoverInit
  <2>6. /\ place \in DiscoverPlaces /\ spoiled \in BOOLEAN
        /\ {running, cancelled, signaled} \subseteq BOOLEAN
        /\ stopping \in {"no", "signalled", "waiting", "done"}
    BY DEF DiscoverInit, DiscoverPlaces
  <2> QED BY <2>1, <2>2, <2>3, <2>4, <2>5, <2>6 DEF DiscoverTypeOK
<1>2. DueFits /\ HasUrl
  BY DEF DiscoverInit, DueFits, HasUrl
<1>3. Aged /\ Placed
  BY DEF DiscoverInit, Aged, Placed, Listed
<1> QED BY <1>1, <1>2, <1>3 DEF ListInv

LEMMA ListIs ==
  ASSUME DiscoverTypeOK
  PROVE  /\ known \in Seq(Entries) /\ Len(known) \in Nat
         /\ DOMAIN known = 1..Len(known)
         /\ \A i \in 1..Len(known) : known[i] \in Entries /\ Listed(known[i])
         /\ \A i, k \in 1..Len(known) : known[i] = known[k] => i = k
<1>1. known \in Seq(Entries) /\ IsInjective(known)
  BY DEF DiscoverTypeOK
<1>2. Len(known) \in Nat /\ DOMAIN known = 1..Len(known)
  BY <1>1, LenProperties
<1>3. \A i \in 1..Len(known) : known[i] \in Entries /\ Listed(known[i])
  BY <1>1 DEF Listed
<1>4. \A i, k \in 1..Len(known) : known[i] = known[k] => i = k
  BY <1>1, <1>2 DEF IsInjective
<1> QED BY <1>1, <1>2, <1>3, <1>4

(* What the clean-up leaves: all entries but the first that is stale.      *)
LEMMA CleanedUp ==
  ASSUME DiscoverTypeOK, Cleanup
  PROVE  \/ /\ known' = known
            /\ \A i \in 1..Len(known) : ~Stale(known[i])
         \/ \E j \in 1..Len(known) :
              /\ Stale(known[j])
              /\ \A i \in 1..Len(known) : i < j => ~Stale(known[i])
              /\ known' \in Seq(Entries)
              /\ Len(known') = Len(known) - 1
              /\ \A i \in 1..Len(known) - 1 :
                   known'[i] = IF i < j THEN known[i] ELSE known[i + 1]
<1> DEFINE S == {i \in 1..Len(known) : Stale(known[i])}
<1>1. CASE S = {}
  BY <1>1 DEF Cleanup
<1>2. CASE S # {}
  <2>1. known \in Seq(Entries) /\ Len(known) \in Nat /\ S \subseteq Nat
    BY DEF DiscoverTypeOK
  <2>2. \E i \in S : \A k \in S : i <= k
    <3>1. PICK R : R = OpToRel(<, Nat)
      OBVIOUS
    <3>2. IsWellFoundedOn(R, Nat)
      BY <3>1, NatLessThanWellFounded
    <3>3. PICK i \in S : \A k \in S : <<k, i>> \notin R
      BY <1>2, <2>1, <3>2, WFMin
    <3>4. \A k \in S : <<k, i>> \in R <=> k < i
      BY <2>1, <3>1 DEF OpToRel
    <3>5. ASSUME NEW k \in S
          PROVE  i <= k
      <4>1. ~(k < i)
        BY <3>3, <3>4
      <4>2. k \in Nat /\ i \in Nat
        BY <2>1
      <4> QED BY <4>1, <4>2
    <3> QED BY <3>5
  <2>3. PICK j : j = CHOOSE i \in S : \A k \in S : i <= k
    OBVIOUS
  <2>4. j \in S /\ \A k \in S : j <= k
    BY <2>2, <2>3
  <2>5. known' = RemoveAt(known, j)
    BY <1>2, <2>3 DEF Cleanup
  <2>6. j \in 1..Len(known) /\ Stale(known[j])
    BY <2>4
  <2>7. \A i \in 1..Len(known) : i < j => ~Stale(known[i])
    BY <2>1, <2>4
  <2> QED BY <2>1, <2>5, <2>6, <2>7, Removed
<1> QED BY <1>1, <1>2

(* A good answer adds its entry at the end, if the list does not have it.  *)
LEMMA Added ==
  ASSUME DiscoverTypeOK, NEW e \in Entries, AddServer(e)
  PROVE  /\ known' \in Seq(Entries) /\ IsInjective(known')
         /\ \A f \in Entries : Listed(f)' <=> Listed(f) \/ f = e
         /\ \A i \in 1..Len(known') :
              known'[i] = e \/ (i \in 1..Len(known) /\ known'[i] = known[i])
         /\ seen' \in [Entries -> 0..CleanupTimeout + 1] /\ seen'[e] = 0
         /\ \A f \in Entries \ {e} : seen'[f] = seen[f]
<1>1. /\ known \in Seq(Entries) /\ Len(known) \in Nat
      /\ DOMAIN known = 1..Len(known)
      /\ \A i, k \in 1..Len(known) : known[i] = known[k] => i = k
  BY ListIs
<1>2. /\ seen' \in [Entries -> 0..CleanupTimeout + 1] /\ seen'[e] = 0
      /\ \A f \in Entries \ {e} : seen'[f] = seen[f]
  <2>1. 0 \in 0..CleanupTimeout + 1
    BY Constants
  <2> QED BY <2>1 DEF AddServer, DiscoverTypeOK
<1>3. CASE Listed(e)
  <2>1. known' = known
    BY <1>3 DEF AddServer
  <2> QED BY <1>1, <1>2, <1>3, <2>1 DEF Listed, DiscoverTypeOK
<1>4. CASE ~Listed(e)
  <2>1. known' = Append(known, e)
    BY <1>4 DEF AddServer
  <2>2. /\ known' \in Seq(Entries) /\ Len(known') = Len(known) + 1
        /\ DOMAIN known' = 1..Len(known')
        /\ \A i \in 1..Len(known) : known'[i] = known[i]
        /\ known'[Len(known) + 1] = e
    BY <1>1, <2>1, AppendProperties, LenProperties
  <2>3. \A i \in 1..Len(known') : i \in 1..Len(known) \/ i = Len(known) + 1
    BY <1>1, <2>2
  <2>4. \A i \in 1..Len(known) : known[i] # e
    BY <1>4 DEF Listed
  <2>5. IsInjective(known')
    BY <1>1, <2>2, <2>3, <2>4 DEF IsInjective
  <2>6. ASSUME NEW f \in Entries
        PROVE  Listed(f)' <=> Listed(f) \/ f = e
    <3>1. 1..Len(known) \subseteq 1..Len(known') /\ Len(known) + 1 \in 1..Len(known')
      BY <1>1, <2>2
    <3> QED BY <2>2, <2>3, <3>1 DEF Listed
  <2> QED BY <1>2, <2>2, <2>3, <2>5, <2>6
<1> QED BY <1>3, <1>4

(* What a clean-up leaves is a list without repetition, of what was listed.*)
LEMMA CleanedList ==
  ASSUME DiscoverTypeOK, Cleanup
  PROVE  /\ known' \in Seq(Entries) /\ IsInjective(known')
         /\ \A e \in Entries : Listed(e)' => Listed(e)
         /\ \A e \in Entries : Listed(e) /\ ~Listed(e)' => Stale(e)
<1>1. /\ known \in Seq(Entries) /\ Len(known) \in Nat
      /\ DOMAIN known = 1..Len(known)
      /\ \A i, k \in 1..Len(known) : known[i] = known[k] => i = k
  BY ListIs
<1>2. CASE known' = known
  BY <1>1, <1>2 DEF Listed, DiscoverTypeOK
<1>3. ASSUME NEW j \in 1..Len(known), Stale(known[j]),
             known' \in Seq(Entries), Len(known') = Len(known) - 1,
             \A i \in 1..Len(known) - 1 :
               known'[i] = IF i < j THEN known[i] ELSE known[i + 1]
      PROVE  /\ IsInjective(known')
             /\ \A e \in Entries : Listed(e)' => Listed(e)
             /\ \A e \in Entries : Listed(e) /\ ~Listed(e)' => Stale(e)
  <2>1. j \in Nat /\ 1 <= j /\ j <= Len(known) /\ DOMAIN known' = 1..Len(known) - 1
    BY <1>1, <1>3
  <2> DEFINE From(i) == IF i < j THEN i ELSE i + 1
  <2>2. \A i \in 1..Len(known) - 1 :
          From(i) \in 1..Len(known) /\ known'[i] = known[From(i)]
    BY <1>1, <1>3, <2>1
  <2>3. \A i, k \in 1..Len(known) - 1 : From(i) = From(k) => i = k
    BY <1>1, <2>1
  <2>4. \A i \in 1..Len(known) : i = j \/ \E k \in 1..Len(known) - 1 : From(k) = i
    <3>1. SUFFICES ASSUME NEW i \in 1..Len(known), i # j
                   PROVE  \E k \in 1..Len(known) - 1 : From(k) = i
      OBVIOUS
    <3>2. CASE i < j
      <4>1. i \in 1..Len(known) - 1 /\ From(i) = i
        BY <1>1, <2>1, <3>2
      <4> QED BY <4>1
    <3>3. CASE i > j
      <4>1. i - 1 \in 1..Len(known) - 1 /\ From(i - 1) = i
        BY <1>1, <2>1, <3>3
      <4> QED BY <4>1
    <3> QED BY <1>1, <2>1, <3>1, <3>2, <3>3
  <2> HIDE DEF From
  <2>5. IsInjective(known')
    BY <1>1, <2>1, <2>2, <2>3 DEF IsInjective
  <2>6. \A e \in Entries : Listed(e)' => Listed(e)
    BY <1>3, <2>2 DEF Listed
  <2>7. \A e \in Entries : Listed(e) /\ ~Listed(e)' => Stale(e)
    <3>1. SUFFICES ASSUME NEW e \in Entries, NEW i \in 1..Len(known),
                          known[i] = e, i # j
                   PROVE  Listed(e)'
      BY <1>3 DEF Listed
    <3>2. PICK k \in 1..Len(known) - 1 : From(k) = i
      BY <2>4, <3>1
    <3>3. k \in 1..Len(known') /\ known'[k] = e
      BY <1>3, <2>2, <3>1, <3>2
    <3> QED BY <3>3 DEF Listed
  <2> QED BY <2>5, <2>6, <2>7
<1> QED BY <1>2, <1>3, CleanedUp

LEMMA FetchOrSleeps ==
  ASSUME NEW urls, FetchOrSleep(urls)
  PROVE  /\ place' \in {"fetch", "sleep"} /\ place' \in DiscoverPlaces /\ busy' \in Nat
         /\ place' = "fetch" => urls # <<>>
BY Constants DEF FetchOrSleep, DiscoverPlaces

(* A fetch adds or refreshes an entry, or leaves the list alone.           *)
LEMMA Fetched ==
  ASSUME DiscoverTypeOK, HasUrl, Fetch
  PROVE  /\ spoiled' \in BOOLEAN
         /\ \/ UNCHANGED listVars
            \/ \E e \in Entries :
                 /\ ~Held /\ AddServer(e)
                 /\ age' = [age EXCEPT ![e] = 0]
<1>1. Head(tmp) \in Urls
  BY DEF Fetch, HasUrl, DiscoverTypeOK
<1>2. [url |-> Head(tmp), whole |-> ~spoiled] \in Entries
  BY <1>1 DEF Entries, DiscoverTypeOK
<1> QED BY <1>2 DEF Fetch, DiscoverTypeOK

LEMMA ThreadTypes ==
  ASSUME DiscoverTypeOK, DueFits, HasUrl, DiscoverThread
  PROVE  DiscoverTypeOK' /\ DueFits' /\ HasUrl'
<1>1. CASE ProbeEnd
  <2>1. due' \in [Urls -> 0..2]
    <3>1. \A u \in Urls : due[u] \in 0..2 /\ due[u] <= 1
      BY <1>1 DEF ProbeEnd, DiscoverTypeOK, DueFits
    <3>2. \A u \in Urls : due[u] + 1 \in 0..2
      BY <3>1
    <3> QED BY <1>1, <3>2 DEF ProbeEnd
  <2> QED BY <1>1, <2>1 DEF ProbeEnd, DiscoverTypeOK, DueFits, HasUrl,
              listVars, stopVars, DiscoverPlaces
<1>2. CASE Cleanup
  <2>1. known' \in Seq(Entries) /\ IsInjective(known')
    BY <1>2, CleanedList
  <2> QED BY <1>2, <2>1 DEF Cleanup, DiscoverTypeOK, DueFits, HasUrl,
              stopVars, DiscoverPlaces
<1>3. CASE Loop
  <2>1. /\ due' \in [Urls -> 0..2] /\ (place' = "probe" => \A u \in Urls : due'[u] <= 1)
        /\ age' \in [Entries -> Nat]
        /\ timer' \in 0..MaxTimer /\ busy' \in Nat /\ place' \in DiscoverPlaces \ {"first"}
    <3>1. /\ \A e \in Entries : age[e] \in Nat /\ age[e] + 1 \in Nat
          /\ 0 \in 0..MaxTimer /\ 1 \in 0..2 /\ ProbeTime \in Nat
      BY Constants DEF DiscoverTypeOK
    <3>2. CASE place' = "probe"
      BY <1>3, <3>1, <3>2 DEF Loop, DiscoverPlaces
    <3>3. CASE place' # "probe"
      BY <1>3, <3>3 DEF Loop, DiscoverTypeOK, DiscoverPlaces
    <3> QED BY <3>2, <3>3
  <2> QED BY <1>3, <2>1 DEF Loop, DiscoverTypeOK, DueFits, HasUrl, stopVars
<1>4. CASE Take
  <2>1. tmp' \in Seq(Urls) /\ probeUrls' \in Seq(Urls)
    <3>1. Reverse(probeUrls) \in Seq(Urls)
      BY DEF DiscoverTypeOK, Reverse
    <3> QED BY <1>4, <3>1 DEF Take
  <2>2. place' \in DiscoverPlaces \ {"first", "probe"} /\ busy' \in Nat /\ HasUrl'
    BY <1>4, FetchOrSleeps DEF Take, HasUrl
  <2> QED BY <1>4, <2>1, <2>2 DEF Take, DiscoverTypeOK, DueFits, listVars,
              stopVars
<1>5. CASE Fetch
  <2>1. place' \in DiscoverPlaces \ {"first", "probe"} /\ busy' \in Nat /\ HasUrl'
    BY <1>5, FetchOrSleeps DEF Fetch, HasUrl
  <2>2. /\ known' \in Seq(Entries) /\ IsInjective(known')
        /\ seen' \in [Entries -> 0..CleanupTimeout + 1]
        /\ age' \in [Entries -> Nat] /\ spoiled' \in BOOLEAN
    <3>1. CASE UNCHANGED listVars
      BY <1>5, <3>1, Fetched DEF DiscoverTypeOK, listVars
    <3>2. ASSUME NEW e \in Entries, AddServer(e), age' = [age EXCEPT ![e] = 0]
          PROVE  /\ known' \in Seq(Entries) /\ IsInjective(known')
                 /\ seen' \in [Entries -> 0..CleanupTimeout + 1]
                 /\ age' \in [Entries -> Nat]
      BY <3>2, Added DEF DiscoverTypeOK
    <3> QED BY <1>5, <3>1, <3>2, Fetched
  <2>3. tmp' \in Seq(Urls)
    BY <1>5 DEF Fetch, HasUrl, DiscoverTypeOK
  <2> QED BY <1>5, <2>1, <2>2, <2>3 DEF Fetch, DiscoverTypeOK, DueFits,
              stopVars
<1>6. CASE Wake
  BY <1>6 DEF Wake, DiscoverTypeOK, DueFits, HasUrl, listVars, stopVars,
      DiscoverPlaces
<1>7. CASE Die
  BY <1>7 DEF Die, DiscoverTypeOK, DueFits, HasUrl, listVars, stopVars,
      DiscoverPlaces
<1> QED BY <1>1, <1>2, <1>3, <1>4, <1>5, <1>6, <1>7 DEF DiscoverThread

(* What time does: none of it lowers how long an entry was not seen.       *)
LEMMA Ticked ==
  ASSUME DiscoverTypeOK, Tick
  PROVE  /\ \E d \in 1..ProbeInterval :
              /\ Step(d)
              /\ timer' = IF timer + d < MaxTimer THEN timer + d ELSE MaxTimer
              /\ \A e \in Entries : Listed(e) =>
                   seen'[e] = IF seen[e] + d > CleanupTimeout
                              THEN CleanupTimeout + 1 ELSE seen[e] + d
              /\ busy' = Less(busy, d) /\ wait' = Less(wait, d)
         /\ timer' \in 0..MaxTimer
         /\ seen' \in [Entries -> 0..CleanupTimeout + 1]
         /\ busy' \in Nat /\ wait' \in 0..CancelTime
         /\ due' \in [Urls -> 0..2]
         /\ \A u \in Urls : due'[u] <= due[u]
<1>1. PICK d \in 1..ProbeInterval :
        /\ Step(d)
        /\ timer' = IF timer + d < MaxTimer THEN timer + d ELSE MaxTimer
        /\ seen' = [e \in Entries |->
                      IF ~Listed(e) THEN 0
                      ELSE IF seen[e] + d > CleanupTimeout
                      THEN CleanupTimeout + 1 ELSE seen[e] + d]
        /\ busy' = Less(busy, d)
        /\ wait' = Less(wait, d)
  BY DEF Tick
<1>2. d \in Nat /\ timer \in 0..MaxTimer /\ busy \in Nat /\ wait \in 0..CancelTime
  BY Constants DEF DiscoverTypeOK
<1>3. timer' \in 0..MaxTimer
  BY <1>1, <1>2, Constants
<1>4. \A e \in Entries :
        /\ seen[e] \in 0..CleanupTimeout + 1
        /\ (IF ~Listed(e) THEN 0
            ELSE IF seen[e] + d > CleanupTimeout
            THEN CleanupTimeout + 1 ELSE seen[e] + d) \in 0..CleanupTimeout + 1
  <2>1. ASSUME NEW x \in 0..CleanupTimeout + 1
        PROVE  /\ 0 \in 0..CleanupTimeout + 1
               /\ (IF x + d > CleanupTimeout THEN CleanupTimeout + 1 ELSE x + d)
                    \in 0..CleanupTimeout + 1
    BY <1>2, Constants
  <2>2. \A e \in Entries : seen[e] \in 0..CleanupTimeout + 1
    BY DEF DiscoverTypeOK
  <2> QED BY <2>1, <2>2
<1>5. seen' \in [Entries -> 0..CleanupTimeout + 1]
  BY <1>1, <1>4
<1>6. busy' \in Nat /\ wait' \in 0..CancelTime
  BY <1>1, <1>2, Constants DEF Less
<1>7. due' \in [Urls -> 0..2] /\ \A u \in Urls : due'[u] <= due[u]
  <2>1. \A u \in Urls : due[u] \in 0..2 /\ 0 <= due[u] /\ due[u] <= due[u] /\ 0 \in 0..2
    BY DEF DiscoverTypeOK
  <2> QED BY <2>1 DEF Tick, DiscoverTypeOK
<1> QED BY <1>1, <1>3, <1>5, <1>6, <1>7

LEMMA OtherTypes ==
  ASSUME DiscoverTypeOK, DueFits, HasUrl,
         (\E u \in Urls : SetUrl(u)) \/ Stop \/ Tick \/ UNCHANGED discoverVars
  PROVE  DiscoverTypeOK' /\ DueFits' /\ HasUrl'
<1>1. ASSUME NEW u \in Urls, SetUrl(u)
      PROVE  DiscoverTypeOK' /\ DueFits' /\ HasUrl'
  <2>1. due[u] \in 0..2 /\ due[u] - 1 \in 0..2 /\ \A v \in Urls : due[v] \in 0..2
    BY <1>1 DEF SetUrl, DiscoverTypeOK
  <2>2. due' \in [Urls -> 0..2] /\ \A v \in Urls : due'[v] <= due[v]
    <3>1. due' = [due EXCEPT ![u] = due[u] - 1] /\ due \in [Urls -> 0..2]
      BY <1>1 DEF SetUrl, DiscoverTypeOK
    <3>2. due' \in [Urls -> 0..2]
      BY <2>1, <3>1
    <3>3. ASSUME NEW v \in Urls
          PROVE  due'[v] <= due[v]
      <4>1. due'[v] = due[v] \/ due'[v] = due[v] - 1
        BY <3>1
      <4> QED BY <2>1, <4>1
    <3> QED BY <3>2, <3>3
  <2>3. probeUrls' \in Seq(Urls)
    <3>1. <<u>> \in Seq(Urls) /\ probeUrls \in Seq(Urls)
      BY DEF DiscoverTypeOK
    <3> QED BY <1>1, <3>1, ConcatProperties DEF SetUrl
  <2>4. \A v \in Urls : due[v] <= 1 => due'[v] <= 1
    BY <2>1, <2>2
  <2> QED BY <1>1, <2>2, <2>3, <2>4
          DEF SetUrl, DiscoverTypeOK, DueFits, HasUrl, listVars, stopVars
<1>2. CASE Deactivate
  BY <1>2 DEF Deactivate, DiscoverTypeOK, DueFits, HasUrl, listVars
<1>3. CASE Cancel
  <2>1. stopping' \in {"waiting", "done"} /\ wait' \in 0..CancelTime
    BY <1>3, Constants DEF Cancel, DiscoverTypeOK
  <2> QED BY <1>3, <2>1 DEF Cancel, DiscoverTypeOK, DueFits, HasUrl, listVars
<1>4. CASE Cancelled
  <2>1. wait' \in 0..CancelTime /\ cancelled' \in BOOLEAN
    BY <1>4, Constants DEF Cancelled, DiscoverTypeOK
  <2> QED BY <1>4, <2>1 DEF Cancelled, DiscoverTypeOK, DueFits, HasUrl,
              listVars
<1>5. CASE Tick
  <2>1. /\ timer' \in 0..MaxTimer
        /\ seen' \in [Entries -> 0..CleanupTimeout + 1]
        /\ busy' \in Nat /\ wait' \in 0..CancelTime
        /\ due' \in [Urls -> 0..2]
        /\ \A u \in Urls : due'[u] <= due[u]
    BY <1>5, Ticked
  <2>2. \A u \in Urls : due[u] \in 0..2 /\ due'[u] \in 0..2
    BY <2>1 DEF DiscoverTypeOK
  <2>3. \A u \in Urls : due[u] <= 1 => due'[u] <= 1
    BY <2>1, <2>2
  <2> QED BY <1>5, <2>1, <2>3 DEF Tick, DiscoverTypeOK, DueFits, HasUrl
<1>6. CASE UNCHANGED discoverVars
  BY <1>6 DEF discoverVars, DiscoverTypeOK, DueFits, HasUrl
<1> QED BY <1>1, <1>2, <1>3, <1>4, <1>5, <1>6 DEF Stop

(* The probes count no faster than the time passes.                        *)
LEMMA AgedStep ==
  ASSUME DiscoverTypeOK, HasUrl, Aged, [DiscoverNext]_discoverVars
  PROVE  Aged'
<1> SUFFICES ASSUME NEW e \in Entries, Listed(e)'
             PROVE  /\ age'[e] >= 1 => AtLeast(e, timer)'
                    /\ age'[e] >= 2 => AtLeast(e, ProbeInterval + timer)'
                    /\ age'[e] >= 3 => AtLeast(e, 2 * ProbeInterval + timer)'
                    /\ age'[e] >= 4 => AtLeast(e, 3 * ProbeInterval + timer)'
  BY DEF Aged
<1> DEFINE Old == /\ age[e] >= 1 => AtLeast(e, timer)
                  /\ age[e] >= 2 => AtLeast(e, ProbeInterval + timer)
                  /\ age[e] >= 3 => AtLeast(e, 2 * ProbeInterval + timer)
                  /\ age[e] >= 4 => AtLeast(e, 3 * ProbeInterval + timer)
<1>1. Listed(e) => Old
  BY DEF Aged
<1>2. /\ seen[e] \in 0..CleanupTimeout + 1 /\ timer \in 0..MaxTimer /\ age[e] \in Nat
      /\ ProbeInterval \in Nat /\ CleanupTimeout \in Nat /\ MaxTimer \in Nat
  BY Constants DEF DiscoverTypeOK
<1>3. CASE /\ Listed(e)' => Listed(e)
           /\ UNCHANGED <<seen, age, timer>>
  BY <1>1, <1>3 DEF AtLeast
<1>4. CASE Loop
  <2>1. Listed(e) /\ seen' = seen
    BY <1>4 DEF Loop, Listed
  <2>2. CASE timer' = timer /\ age' = age
    BY <1>1, <2>1, <2>2 DEF AtLeast
  <2>3. CASE timer >= ProbeInterval /\ timer' = 0 /\ age'[e] = age[e] + 1
    BY <1>1, <1>2, <2>1, <2>3 DEF AtLeast
  <2> QED BY <1>4, <2>1, <2>2, <2>3 DEF Loop, ProbeDue, DiscoverTypeOK
<1>5. CASE Fetch
  <2>1. CASE UNCHANGED listVars
    BY <1>3, <1>5, <2>1 DEF Fetch, listVars, Listed
  <2>2. ASSUME NEW f \in Entries, AddServer(f), age' = [age EXCEPT ![f] = 0]
        PROVE  /\ age'[e] >= 1 => AtLeast(e, timer)'
               /\ age'[e] >= 2 => AtLeast(e, ProbeInterval + timer)'
               /\ age'[e] >= 3 => AtLeast(e, 2 * ProbeInterval + timer)'
               /\ age'[e] >= 4 => AtLeast(e, 3 * ProbeInterval + timer)'
    <3>1. CASE e = f
      <4>1. age'[e] = 0
        BY <2>2, <3>1 DEF DiscoverTypeOK
      <4> QED BY <4>1
    <3>2. CASE e # f
      <4>1. age'[e] = age[e] /\ seen'[e] = seen[e] /\ Listed(e) /\ timer' = timer
        BY <1>5, <2>2, <3>2, Added DEF DiscoverTypeOK, Fetch
      <4> QED BY <1>1, <4>1 DEF AtLeast
    <3> QED BY <3>1, <3>2
  <2> QED BY <1>5, <2>1, <2>2, Fetched
<1>6. CASE Tick
  <2>1. Listed(e) /\ age' = age
    BY <1>6 DEF Tick, Listed
  <2>2. PICK d \in 1..ProbeInterval :
          /\ timer' = IF timer + d < MaxTimer THEN timer + d ELSE MaxTimer
          /\ seen'[e] = IF seen[e] + d > CleanupTimeout
                        THEN CleanupTimeout + 1 ELSE seen[e] + d
    BY <1>6, <2>1, Ticked
  <2>3. /\ timer' \in Nat /\ timer' <= timer + d
        /\ seen'[e] > CleanupTimeout \/ seen'[e] = seen[e] + d
        /\ seen[e] > CleanupTimeout => seen'[e] > CleanupTimeout
    BY <1>2, <2>2
  <2>4. ASSUME NEW t \in Nat, AtLeast(e, t + timer)
        PROVE  AtLeast(e, t + timer)'
    BY <1>2, <2>3, <2>4 DEF AtLeast
  <2>5. AtLeast(e, timer) => AtLeast(e, timer)'
    BY <1>2, <2>3 DEF AtLeast
  <2>6. ProbeInterval \in Nat /\ 2 * ProbeInterval \in Nat /\ 3 * ProbeInterval \in Nat
    BY <1>2
  <2> QED BY <1>1, <2>1, <2>4, <2>5, <2>6
<1>7. CASE Cleanup
  BY <1>3, <1>7, CleanedList DEF Cleanup
<1>8. CASE ProbeEnd \/ Take \/ Wake \/ Die \/ (\E u \in Urls : SetUrl(u)) \/ Stop
           \/ UNCHANGED discoverVars
  <2>1. UNCHANGED <<known, seen, age, timer>>
    BY <1>8 DEF ProbeEnd, Take, Wake, Die, SetUrl, Stop, Deactivate, Cancel,
                Cancelled, discoverVars, listVars
  <2> QED BY <1>3, <2>1 DEF Listed
<1> QED BY <1>4, <1>5, <1>6, <1>7, <1>8 DEF DiscoverNext, DiscoverThread

(* Cleanup() removes the first stale entry: what is before it is younger,  *)
(* and what is behind it moves up by one.                                  *)
LEMMA PlacedStep ==
  ASSUME ListInv, IsFiniteSet(Urls), CleanupTimeout < 3 * ProbeInterval,
         DiscoverTypeOK', [DiscoverNext]_discoverVars
  PROVE  Placed'
<1> DEFINE C == Cardinality(Entries)
<1>1. DiscoverTypeOK /\ HasUrl /\ Aged /\ Placed
  BY DEF ListInv
<1>2. /\ C \in Nat /\ Len(known) \in Nat /\ Len(known) <= C
      /\ Len(known') \in Nat /\ Len(known') <= C
  <2>1. /\ known \in Seq(Entries) /\ IsInjective(known)
        /\ known' \in Seq(Entries) /\ IsInjective(known')
    BY <1>1 DEF DiscoverTypeOK
  <2> QED BY <2>1, ListBounded
<1>3. \A e \in Entries : age[e] \in Nat /\ age'[e] \in Nat
  BY <1>1 DEF DiscoverTypeOK
<1>4. \A i \in 1..Len(known) : known[i] \in Entries /\ age[known[i]] \in Nat
  BY <1>1, <1>3, ListIs
<1> HIDE DEF C
<1>5. Placed <=> \A i \in 1..Len(known) : age[known[i]] + i <= Oldest + C
  BY DEF Placed, C
<1>6. Placed' <=> \A i \in 1..Len(known') : age'[known'[i]] + i <= Oldest' + C
  BY DEF Placed, C
<1>7. Oldest \in {3, 4} /\ Oldest' \in {3, 4}
  BY DEF Oldest
<1>8. CASE Cleanup
  <2>1. Oldest = 4 /\ Oldest' = 3 /\ age' = age
    BY <1>8 DEF Cleanup, Oldest
  <2>2. ASSUME NEW e \in Entries, Listed(e), ~Stale(e)
        PROVE  age[e] <= 3
    <3>1. seen[e] \in Nat /\ timer \in Nat /\ age[e] \in Nat /\ seen[e] <= CleanupTimeout
      <4>1. seen[e] \in 0..CleanupTimeout + 1 /\ timer \in 0..MaxTimer
        BY <1>1 DEF DiscoverTypeOK
      <4> QED BY <1>3, <2>2, <4>1, Constants DEF Stale
    <3>2. age[e] >= 4 => AtLeast(e, 3 * ProbeInterval + timer)
      BY <1>1, <2>2 DEF Aged
    <3> QED BY <3>1, <3>2, Constants DEF AtLeast
  <2>3. CASE known' = known /\ \A i \in 1..Len(known) : ~Stale(known[i])
    <3>1. SUFFICES ASSUME NEW i \in 1..Len(known)
                   PROVE  age[known[i]] + i <= 3 + C
      BY <1>6, <2>1, <2>3
    <3>2. age[known[i]] <= 3 /\ age[known[i]] \in Nat
      BY <1>1, <1>4, <2>2, <2>3, ListIs
    <3> QED BY <1>2, <3>2
  <2>4. ASSUME NEW j \in 1..Len(known),
               \A i \in 1..Len(known) : i < j => ~Stale(known[i]),
               Len(known') = Len(known) - 1,
               \A i \in 1..Len(known) - 1 :
                 known'[i] = IF i < j THEN known[i] ELSE known[i + 1]
        PROVE  Placed'
    <3>1. SUFFICES ASSUME NEW i \in 1..Len(known) - 1
                   PROVE  age[known'[i]] + i <= 3 + C
      BY <1>6, <2>1, <2>4
    <3>2. i \in 1..Len(known) /\ i + 1 \in 1..Len(known)
      BY <1>2
    <3>3. CASE i < j
      <4>1. known'[i] = known[i] /\ age[known[i]] <= 3 /\ age[known[i]] \in Nat
        BY <1>1, <1>4, <2>2, <2>4, <3>2, <3>3, ListIs
      <4> QED BY <1>2, <3>2, <4>1
    <3>4. CASE ~(i < j)
      <4>1. known'[i] = known[i + 1] /\ age[known[i + 1]] \in Nat
        BY <1>4, <2>4, <3>2, <3>4
      <4>2. age[known[i + 1]] + (i + 1) <= 4 + C
        BY <1>1, <1>5, <2>1, <3>2
      <4> QED BY <1>2, <3>2, <4>1, <4>2
    <3> QED BY <3>3, <3>4
  <2> QED BY <1>1, <1>8, <2>3, <2>4, CleanedUp
<1>9. CASE Loop
  <2>1. known' = known /\ Oldest = 3
    BY <1>9 DEF Loop, Oldest
  <2>2. \A i \in 1..Len(known) : age[known[i]] + i <= 3 + C
    BY <1>1, <1>5, <2>1
  <2>3. CASE age' = age
    BY <1>2, <1>4, <1>6, <1>7, <2>1, <2>2, <2>3
  <2>4. CASE Oldest' = 4 /\ \A i \in 1..Len(known) : age'[known[i]] = age[known[i]] + 1
    BY <1>2, <1>4, <1>6, <2>1, <2>2, <2>4
  <2>5. \A i \in 1..Len(known) : Listed(known[i])
    BY <1>1, ListIs
  <2> QED BY <1>4, <1>9, <2>3, <2>4, <2>5 DEF Loop, Oldest
<1>10. CASE Fetch
  <2>1. Oldest = 3 /\ Oldest' = 3
    <3>1. place' \in {"fetch", "sleep"} /\ place = "fetch"
      BY <1>10, FetchOrSleeps DEF Fetch
    <3> QED BY <3>1 DEF Oldest
  <2>2. CASE UNCHANGED listVars
    BY <1>1, <1>5, <1>6, <2>1, <2>2 DEF listVars
  <2>3. ASSUME NEW e \in Entries, AddServer(e), age' = [age EXCEPT ![e] = 0]
        PROVE  Placed'
    <3>1. SUFFICES ASSUME NEW i \in 1..Len(known')
                   PROVE  age'[known'[i]] + i <= 3 + C
      BY <1>6, <2>1
    <3>2. CASE known'[i] = e
      <4>1. age'[known'[i]] = 0
        BY <1>1, <2>3, <3>2 DEF DiscoverTypeOK
      <4> QED BY <1>2, <4>1
    <3>3. CASE known'[i] # e
      <4>1. i \in 1..Len(known) /\ known'[i] = known[i]
        BY <1>1, <2>3, <3>3, Added
      <4>2. age'[known'[i]] = age[known[i]]
        BY <1>1, <1>4, <2>3, <3>3, <4>1 DEF DiscoverTypeOK
      <4> QED BY <1>1, <1>5, <2>1, <4>1, <4>2
    <3> QED BY <3>2, <3>3
  <2> QED BY <1>1, <1>10, <2>2, <2>3, Fetched
<1>11. CASE UNCHANGED <<known, age>> /\ (Oldest' = 4 \/ Oldest' = Oldest)
  BY <1>1, <1>2, <1>4, <1>5, <1>6, <1>7, <1>11
<1>12. CASE ProbeEnd
  BY <1>11, <1>12 DEF ProbeEnd, listVars, Oldest
<1>13. CASE Take
  BY <1>11, <1>13, FetchOrSleeps DEF Take, listVars, Oldest
<1>14. CASE Wake \/ Die \/ (\E u \in Urls : SetUrl(u)) \/ Stop \/ Tick \/ UNCHANGED discoverVars
  <2>1. UNCHANGED <<known, age>> /\ (place' \in {place, "ended"} \/ (place = "sleep" /\ place' = "loop"))
    BY <1>14 DEF Wake, Die, SetUrl, Stop, Deactivate, Cancel, Cancelled,
        Tick, discoverVars, listVars
  <2> QED BY <1>11, <2>1 DEF Oldest
<1> QED BY <1>8, <1>9, <1>10, <1>12, <1>13, <1>14 DEF DiscoverNext,
            DiscoverThread

LEMMA ListStep ==
  ASSUME IsFiniteSet(Urls), CleanupTimeout < 3 * ProbeInterval,
         ListInv, [DiscoverNext]_discoverVars
  PROVE  ListInv'
<1>1. DiscoverTypeOK /\ DueFits /\ HasUrl /\ Aged
  BY DEF ListInv
<1>2. DiscoverTypeOK' /\ DueFits' /\ HasUrl'
  BY <1>1, ThreadTypes, OtherTypes DEF DiscoverNext
<1> QED BY <1>1, <1>2, AgedStep, PlacedStep DEF ListInv

(* A server that is gone is removed: what was not fetched for three probes *)
(* is stale at the next, and an entry at place i of n has n - i rounds     *)
(* more at most.  The network has finitely many servers, and the time-out  *)
(* is less than three intervals (discover.h: 124 s and 60 s).              *)
THEOREM GoneServersAreRemoved ==
  ASSUME IsFiniteSet(Urls), CleanupTimeout < 3 * ProbeInterval
  PROVE  DiscoverSpec => []ListSound
<1>1. DiscoverInit => ListInv
  BY InitList
<1>2. ListInv /\ [DiscoverNext]_discoverVars => ListInv'
  BY ListStep
<1>3. ListInv => ListSound
  BY DEF ListInv, Placed, Oldest, ListSound, GoneIsRemoved
<1> QED BY <1>1, <1>2, <1>3, PTL DEF DiscoverSpec

-----------------------------------------------------------------------------
(* One silent round costs no server its place.                             *)

(* The answers of a round are fetched before the next probe is due, the    *)
(* waits are no longer than a round, and the time-out is as long as two.   *)
RoundsFit ==
  /\ IsFiniteSet(Urls)
  /\ AnswerTime + FetchTime * (2 * Cardinality(Urls)) < ProbeInterval
  /\ SleepTime <= ProbeInterval /\ CancelTime <= ProbeInterval
  /\ 2 * (ProbeInterval + SleepTime - 1) + ProbeTime <= CleanupTimeout

(* The longest time between two probes, and that of k fetches.             *)
Round == ProbeInterval + SleepTime - 1
Cost(k) == FetchTime * k

(* How many answers may still come, and how many were promised in all.     *)
Once == {u \in Urls : due[u] >= 1}
Twice == {u \in Urls : due[u] = 2}
Promised == 2 * Cardinality(Urls)

Expected == Cardinality(Once) + Cardinality(Twice)
            + IF place \in {"first", "probe"} THEN Cardinality(Urls) ELSE 0

Waiting == Len(tmp) + Len(probeUrls)

(* How long the fetches that wait still take.                              *)
Work == IF place = "fetch" THEN busy + Cost(Waiting - 1) ELSE Cost(Waiting)

(* While no stop has come, what was announced is fetched in the same round.*)
Backlog ==
  /\ place # "fetch" => tmp = <<>>
  /\ place = "fetch" => busy <= FetchTime
  /\ place \in {"fetch", "sleep"} /\ probeUrls # <<>> => signaled
  /\ timer <= AnswerTime => Waiting + Expected <= Promised
  /\ timer > AnswerTime /\ Waiting > 0 => timer + Work <= AnswerTime + Cost(Promised)

(* And the next probe comes at most Round after the last.                  *)
OnTime ==
  /\ place \in {"first", "probe"} => timer + busy <= ProbeTime
  /\ place \in {"cleanup", "take"} => timer < ProbeInterval
  /\ place = "sleep" => timer + busy <= Round
  /\ place = "loop" => timer <= Round
  /\ place # "ended"

(* How long a stop may delay Cleanup().                                    *)
AtCleanup ==
  /\ place = "probe" => timer + busy <= ProbeTime
  /\ place = "cleanup" /\ running => timer <= ProbeTime
  /\ place = "cleanup" /\ ~running => timer + wait <= ProbeTime + CancelTime

Stopping ==
  /\ running <=> stopping \in {"no", "signalled"}
  /\ cancelled => stopping = "done"
  /\ stopping = "done" => wait = 0

(* What the probes since an entry was fetched allow of the time since then.*)
Young ==
  \A e \in Entries : Listed(e) /\ timer < MaxTimer =>
    /\ age[e] = 0 => seen[e] <= timer
    /\ age[e] = 1 => seen[e] <= Round + timer
    /\ age[e] = 2 => seen[e] <= 2 * Round + timer

RoundInv == /\ DiscoverTypeOK /\ DueFits /\ HasUrl
            /\ Stopping /\ AtCleanup /\ Young
            /\ running => Backlog /\ OnTime

LEMMA Costs ==
  /\ \A k \in Nat : Cost(k) \in Nat /\ Cost(k + 1) = Cost(k) + FetchTime
  /\ \A j, k \in Nat : j <= k => Cost(j) <= Cost(k)
<1>1. FetchTime \in Nat
  BY Constants
<1>2. ASSUME NEW k \in Nat
      PROVE  Cost(k) \in Nat /\ Cost(k + 1) = Cost(k) + FetchTime
  <2>1. FetchTime * k \in Nat
    BY <1>1
  <2>2. FetchTime * (k + 1) = FetchTime * k + FetchTime
    BY <1>1
  <2> QED BY <2>1, <2>2 DEF Cost
<1>3. ASSUME NEW j \in Nat, NEW k \in Nat, j <= k
      PROVE  Cost(j) <= Cost(k)
  <2>1. PICK d \in Nat : k = j + d
    <3>1. k - j \in Nat /\ k = j + (k - j)
      BY <1>3
    <3> QED BY <3>1
  <2>2. FetchTime * (j + d) = FetchTime * j + FetchTime * d
    BY <1>1
  <2>3. FetchTime * d \in Nat /\ FetchTime * j \in Nat
    BY <1>1
  <2> QED BY <2>1, <2>2, <2>3 DEF Cost
<1> QED BY <1>2, <1>3

LEMMA Fits ==
  ASSUME RoundsFit
  PROVE  /\ Cardinality(Urls) \in Nat /\ Promised \in Nat
         /\ Promised = 2 * Cardinality(Urls)
         /\ AnswerTime + Cost(Promised) < ProbeInterval
         /\ Round \in Nat /\ Round = ProbeInterval + SleepTime - 1
         /\ Round >= ProbeInterval /\ Round < MaxTimer
         /\ 2 * Round + ProbeTime <= CleanupTimeout
         /\ CancelTime <= Round /\ CancelTime <= ProbeInterval
<1>1. Cardinality(Urls) \in Nat
  BY FS_CardinalityType DEF RoundsFit
<1>2. Promised \in Nat /\ AnswerTime + Cost(Promised) < ProbeInterval
  BY <1>1 DEF RoundsFit, Promised, Cost
<1> QED BY <1>1, <1>2, Constants DEF RoundsFit, Promised, Round

(* How the answers expected change.                                        *)
LEMMA OnceTwice ==
  ASSUME RoundsFit
  PROVE  /\ IsFiniteSet(Once) /\ IsFiniteSet(Twice)
         /\ Cardinality(Once) \in Nat /\ Cardinality(Twice) \in Nat
<1>1. IsFiniteSet(Urls) /\ Once \subseteq Urls /\ Twice \subseteq Urls
  BY DEF RoundsFit, Once, Twice
<1>2. IsFiniteSet(Once) /\ IsFiniteSet(Twice)
  BY <1>1, FS_Subset
<1> QED BY <1>2, FS_CardinalityType

LEMMA ProbeExpects ==
  ASSUME DiscoverTypeOK, RoundsFit, due' = [u \in Urls |-> 1]
  PROVE  Cardinality(Once') + Cardinality(Twice') = Cardinality(Urls)
<1>1. Once' = Urls /\ Twice' = {}
  BY DEF Once, Twice
<1> QED BY <1>1, Fits, FS_EmptySet

LEMMA NothingExpected ==
  ASSUME due' = [u \in Urls |-> 0]
  PROVE  Cardinality(Once') + Cardinality(Twice') = 0
<1>1. Once' = {} /\ Twice' = {}
  BY DEF Once, Twice
<1> QED BY <1>1, FS_EmptySet

LEMMA AnswerExpected ==
  ASSUME DiscoverTypeOK, RoundsFit, NEW u \in Urls, due[u] > 0,
         due' = [due EXCEPT ![u] = @ - 1]
  PROVE  Cardinality(Once') + Cardinality(Twice')
           = Cardinality(Once) + Cardinality(Twice) - 1
<1>1. /\ \A v \in Urls : due[v] \in 0..2
      /\ due'[u] = due[u] - 1 /\ \A v \in Urls \ {u} : due'[v] = due[v]
  BY DEF DiscoverTypeOK
<1>2. CASE due[u] = 1
  <2>1. Once' = Once \ {u} /\ Twice' = Twice /\ u \in Once
    BY <1>1, <1>2 DEF Once, Twice
  <2>2. Cardinality(Once \ {u}) = Cardinality(Once) - 1
    BY <2>1, OnceTwice, FS_RemoveElement
  <2> QED BY <2>1, <2>2, OnceTwice
<1>3. CASE due[u] = 2
  <2>1. Once' = Once /\ Twice' = Twice \ {u} /\ u \in Twice
    BY <1>1, <1>3 DEF Once, Twice
  <2>2. Cardinality(Twice \ {u}) = Cardinality(Twice) - 1
    BY <2>1, OnceTwice, FS_RemoveElement
  <2> QED BY <2>1, <2>2, OnceTwice
<1>4. due[u] = 1 \/ due[u] = 2
  BY <1>1
<1> QED BY <1>2, <1>3, <1>4

LEMMA QueryExpects ==
  ASSUME DiscoverTypeOK, RoundsFit, \A u \in Urls : due[u] <= 1,
         due' = [u \in Urls |-> due[u] + 1]
  PROVE  Cardinality(Once') + Cardinality(Twice')
           = Cardinality(Once) + Cardinality(Twice) + Cardinality(Urls)
<1>1. \A u \in Urls : due[u] \in {0, 1} /\ due'[u] = due[u] + 1
  BY DEF DiscoverTypeOK
<1>2. Once' = Urls /\ Twice' = Once /\ Twice = {}
  BY <1>1 DEF Once, Twice
<1>3. Cardinality(Urls) \in Nat
  BY FS_CardinalityType DEF RoundsFit
<1> QED BY <1>2, <1>3, OnceTwice, FS_EmptySet

LEMMA StoppingStep ==
  ASSUME DiscoverTypeOK, Stopping, [DiscoverNext]_discoverVars
  PROVE  Stopping'
<1>1. CASE DiscoverThread \/ (\E u \in Urls : SetUrl(u)) \/ UNCHANGED discoverVars
  <2>1. UNCHANGED <<running, stopping, cancelled, wait>>
    BY <1>1 DEF DiscoverThread, ProbeEnd, Cleanup, Loop, Take, Fetch, Wake, Die,
        SetUrl, discoverVars, stopVars
  <2> QED BY <2>1 DEF Stopping
<1>2. CASE Stop
  BY <1>2 DEF Stop, Deactivate, Cancel, Cancelled, Stopping, listVars
<1>3. CASE Tick
  <2>1. UNCHANGED <<running, stopping, cancelled>>
    BY <1>3 DEF Tick
  <2>2. wait = 0 => wait' = 0
    BY <1>3, Ticked DEF Less
  <2> QED BY <2>1, <2>2 DEF Stopping
<1> QED BY <1>1, <1>2, <1>3 DEF DiscoverNext

(* While no stop has come, time passes one tick at a time but in an idle   *)
(* sleep, and the thread does not wait for the mutex.                      *)
LEMMA RunningTick ==
  ASSUME DiscoverTypeOK, Stopping, Tick, running
  PROVE  /\ ~Held /\ ~cancelled
         /\ place = "sleep" \/ timer' = timer + 1 \/ timer' = MaxTimer
         /\ \/ place \in {"first", "probe", "fetch"} /\ busy > 0 /\ busy' = busy - 1
            \/ place = "sleep" /\ busy > 0 /\ ~signaled
            \/ place = "ended"
<1>1. ~Held /\ ~cancelled /\ Blocked
  BY DEF Tick, Stopping, Held
<1>2. PICK d \in 1..ProbeInterval :
        /\ Step(d) /\ busy' = Less(busy, d)
        /\ timer' = IF timer + d < MaxTimer THEN timer + d ELSE MaxTimer
  BY Ticked
<1>3. place # "sleep" => d = 1
  BY <1>2 DEF Step, NothingDue
<1>4. busy \in Nat
  BY DEF DiscoverTypeOK
<1>5. place # "sleep" /\ busy > 0 => busy' = busy - 1
  BY <1>2, <1>3, <1>4 DEF Less
<1> QED BY <1>1, <1>2, <1>3, <1>5 DEF Blocked

LEMMA AtCleanupStep ==
  ASSUME DiscoverTypeOK, DiscoverTypeOK', RoundsFit, Stopping, AtCleanup,
         [DiscoverNext]_discoverVars
  PROVE  AtCleanup'
<1>1. /\ timer \in Nat /\ busy \in Nat /\ wait \in Nat /\ wait <= CancelTime
      /\ timer' \in Nat /\ busy' \in Nat /\ wait' \in Nat /\ wait' <= CancelTime
      /\ ProbeTime \in Nat /\ CancelTime \in Nat
  BY Constants DEF DiscoverTypeOK
<1>2. CASE ProbeEnd
  BY <1>1, <1>2 DEF ProbeEnd, AtCleanup, stopVars
<1>3. CASE Loop
  <2>1. place' # "cleanup" /\ (place' = "probe" => timer' = 0 /\ busy' = ProbeTime)
    BY <1>3 DEF Loop
  <2>2. place' = "probe" => timer' + busy' <= ProbeTime
    <3>1. 0 + ProbeTime <= ProbeTime
      BY <1>1
    <3> QED BY <2>1, <3>1
  <2> QED BY <2>1, <2>2 DEF AtCleanup
<1>4. CASE Cleanup \/ Take \/ Fetch \/ Wake \/ Die
  <2>1. place' \notin {"probe", "cleanup"}
    BY <1>4, FetchOrSleeps DEF Cleanup, Take, Fetch, Wake, Die
  <2> QED BY <2>1 DEF AtCleanup
<1>5. CASE Deactivate \/ (\E u \in Urls : SetUrl(u)) \/ UNCHANGED discoverVars
  <2>1. UNCHANGED <<place, timer, busy, running, wait>>
    BY <1>5 DEF Deactivate, SetUrl, discoverVars, stopVars
  <2> QED BY <2>1 DEF AtCleanup
<1>6. CASE Cancel
  <2>1. UNCHANGED <<place, timer, busy>> /\ ~running'
    BY <1>6 DEF Cancel
  <2>2. running
    BY <1>6 DEF Cancel, Stopping
  <2>3. place = "cleanup" => timer <= ProbeTime
    BY <1>1, <2>2 DEF AtCleanup
  <2>4. place' = "cleanup" => timer' + wait' <= ProbeTime + CancelTime
    <3>1. PICK w : w = wait'
      OBVIOUS
    <3>2. place = "cleanup" => timer + w <= ProbeTime + CancelTime
      <4>1. w \in Nat /\ w <= CancelTime
        BY <1>1, <3>1
      <4>2. timer \in Nat /\ ProbeTime \in Nat /\ CancelTime \in Nat
        BY <1>1
      <4> QED BY <2>3, <4>1, <4>2
    <3> QED BY <2>1, <3>1, <3>2
  <2> QED BY <2>1, <2>4 DEF AtCleanup
<1>7. CASE Cancelled
  <2>1. UNCHANGED <<place, timer, busy, running>> /\ ~running /\ wait' = 0
    BY <1>7 DEF Cancelled, Stopping
  <2> QED BY <1>1, <2>1 DEF AtCleanup
<1>8. CASE Tick
  <2>1. UNCHANGED <<place, running>>
    BY <1>8 DEF Tick
  <2>2. PICK d \in 1..ProbeInterval :
          /\ Step(d) /\ busy' = Less(busy, d) /\ wait' = Less(wait, d)
          /\ timer' = IF timer + d < MaxTimer THEN timer + d ELSE MaxTimer
    BY <1>8, Ticked
  <2>3. place # "sleep" => d = 1
    BY <2>2 DEF Step, NothingDue
  <2>4. CASE place = "probe"
    <3>1. busy > 0
      BY <1>8, <2>4 DEF Tick, Blocked
    <3> QED BY <1>1, <2>1, <2>2, <2>3, <2>4, <3>1, Constants DEF AtCleanup,
                Less
  <2>5. CASE place = "cleanup"
    <3>1. stopping = "waiting" /\ wait # 0 /\ ~running
      BY <1>8, <2>5 DEF Tick, Blocked, Held, WaitOver, Stopping
    <3> QED BY <1>1, <2>1, <2>2, <2>3, <2>5, <3>1, Constants DEF AtCleanup,
                Less
  <2> QED BY <2>1, <2>4, <2>5 DEF AtCleanup
<1> QED BY <1>2, <1>3, <1>4, <1>5, <1>6, <1>7, <1>8 DEF DiscoverNext,
            DiscoverThread, Stop

LEMMA YoungStep ==
  ASSUME DiscoverTypeOK, DiscoverTypeOK', HasUrl, RoundsFit, Young,
         [DiscoverNext]_discoverVars,
         running => OnTime
  PROVE  Young'
<1> SUFFICES ASSUME NEW e \in Entries, Listed(e)', timer' < MaxTimer
             PROVE  /\ age'[e] = 0 => seen'[e] <= timer'
                    /\ age'[e] = 1 => seen'[e] <= Round + timer'
                    /\ age'[e] = 2 => seen'[e] <= 2 * Round + timer'
  BY DEF Young
<1>1. Listed(e) /\ timer < MaxTimer =>
        /\ age[e] = 0 => seen[e] <= timer
        /\ age[e] = 1 => seen[e] <= Round + timer
        /\ age[e] = 2 => seen[e] <= 2 * Round + timer
  BY DEF Young
<1>2. /\ seen[e] \in Nat /\ timer \in Nat /\ age[e] \in Nat /\ timer' \in Nat
      /\ Round \in Nat /\ ProbeInterval \in Nat /\ CleanupTimeout \in Nat
      /\ MaxTimer \in Nat /\ Round < MaxTimer
  <2>1. seen[e] \in 0..CleanupTimeout + 1 /\ timer \in 0..MaxTimer /\ timer' \in 0..MaxTimer
    BY DEF DiscoverTypeOK
  <2> QED BY <2>1, Constants, Fits DEF DiscoverTypeOK
<1>3. CASE Listed(e) /\ seen'[e] = seen[e] /\ age'[e] = age[e] /\ timer' = timer
  BY <1>1, <1>3
<1>4. CASE Loop
  <2>1. Listed(e) /\ seen' = seen
    BY <1>4 DEF Loop, Listed
  <2>2. CASE timer' = timer /\ age' = age
    BY <1>3, <2>1, <2>2
  <2>3. CASE running /\ timer' = 0 /\ age'[e] = age[e] + 1
    <3>1. timer <= Round
      BY <1>4, <2>3 DEF OnTime, Loop
    <3> QED BY <1>1, <1>2, <2>1, <2>3, <3>1
  <2> QED BY <1>4, <2>1, <2>2, <2>3 DEF Loop
<1>5. CASE Fetch
  <2>1. timer' = timer
    BY <1>5 DEF Fetch
  <2>2. CASE UNCHANGED listVars
    BY <1>3, <2>1, <2>2 DEF listVars, Listed
  <2>3. ASSUME NEW f \in Entries, AddServer(f), age' = [age EXCEPT ![f] = 0]
        PROVE  /\ age'[e] = 0 => seen'[e] <= timer'
               /\ age'[e] = 1 => seen'[e] <= Round + timer'
               /\ age'[e] = 2 => seen'[e] <= 2 * Round + timer'
    <3>1. CASE e = f
      <4>1. age'[e] = 0 /\ seen'[e] = 0
        BY <2>3, <3>1, Added DEF DiscoverTypeOK
      <4> QED BY <1>2, <4>1
    <3>2. CASE e # f
      <4>1. Listed(e) /\ seen'[e] = seen[e] /\ age'[e] = age[e]
        BY <2>3, <3>2, Added DEF DiscoverTypeOK
      <4> QED BY <1>1, <2>1, <4>1
    <3> QED BY <3>1, <3>2
  <2> QED BY <1>5, <2>2, <2>3, Fetched
<1>6. CASE Cleanup
  BY <1>3, <1>6, CleanedList DEF Cleanup
<1>7. CASE Tick
  <2>1. Listed(e) /\ age' = age
    BY <1>7 DEF Tick, Listed
  <2>2. PICK d \in 1..ProbeInterval :
          /\ timer' = IF timer + d < MaxTimer THEN timer + d ELSE MaxTimer
          /\ seen'[e] = IF seen[e] + d > CleanupTimeout
                        THEN CleanupTimeout + 1 ELSE seen[e] + d
    BY <1>7, <2>1, Ticked
  <2>3. timer' = timer + d /\ timer < MaxTimer /\ seen'[e] <= seen[e] + d /\ seen'[e] \in Nat
    BY <1>2, <2>2
  <2> QED BY <1>1, <1>2, <2>1, <2>3
<1>8. CASE ProbeEnd \/ Take \/ Wake \/ Die \/ (\E u \in Urls : SetUrl(u)) \/ Stop
           \/ UNCHANGED discoverVars
  <2>1. UNCHANGED <<known, seen, age, timer>>
    BY <1>8 DEF ProbeEnd, Take, Wake, Die, SetUrl, Stop, Deactivate, Cancel,
                Cancelled, discoverVars, listVars
  <2> QED BY <1>3, <2>1 DEF Listed
<1> QED BY <1>4, <1>5, <1>6, <1>7, <1>8 DEF DiscoverNext, DiscoverThread

(* What a step of the thread does to the work that waits.                  *)
LEMMA WaitingIs ==
  ASSUME DiscoverTypeOK
  PROVE  /\ Len(tmp) \in Nat /\ Len(probeUrls) \in Nat /\ Waiting \in Nat
         /\ tmp = <<>> <=> Len(tmp) = 0
         /\ probeUrls = <<>> <=> Len(probeUrls) = 0
         /\ busy \in Nat /\ timer \in Nat
<1>1. tmp \in Seq(Urls) /\ probeUrls \in Seq(Urls)
  BY DEF DiscoverTypeOK
<1>2. /\ Len(tmp) \in Nat /\ Len(probeUrls) \in Nat
      /\ tmp = <<>> <=> Len(tmp) = 0
      /\ probeUrls = <<>> <=> Len(probeUrls) = 0
  BY <1>1, EmptySeq
<1>3. busy \in Nat /\ timer \in 0..MaxTimer
  BY DEF DiscoverTypeOK
<1> QED BY <1>2, <1>3, Constants DEF Waiting

LEMMA OnTimeStep ==
  ASSUME DiscoverTypeOK, DiscoverTypeOK', HasUrl, RoundsFit, Stopping,
         running, Backlog, OnTime, [DiscoverNext]_discoverVars, running'
  PROVE  OnTime'
<1>1. /\ timer \in Nat /\ busy \in Nat /\ timer' \in Nat /\ busy' \in Nat
      /\ ProbeTime \in Nat /\ SleepTime \in Nat /\ SleepTime > 0
      /\ ProbeInterval \in Nat /\ ProbeTime < ProbeInterval
      /\ Round = ProbeInterval + SleepTime - 1 /\ Round \in Nat
      /\ Round < MaxTimer /\ MaxTimer \in Nat
  <2>1. timer \in 0..MaxTimer /\ timer' \in 0..MaxTimer
    BY DEF DiscoverTypeOK
  <2>2. busy \in Nat /\ busy' \in Nat
    BY DEF DiscoverTypeOK
  <2>3. timer \in Nat /\ timer' \in Nat
    BY <2>1
  <2> QED BY <2>2, <2>3, Constants, Fits
<1>2. CASE ProbeEnd
  BY <1>1, <1>2 DEF ProbeEnd, OnTime
<1>3. CASE Cleanup
  BY <1>1, <1>3 DEF Cleanup, OnTime
<1>4. CASE Loop
  <2>1. \/ place' = "probe" /\ timer' = 0 /\ busy' = ProbeTime
        \/ place' = "take" /\ timer' = timer /\ ~(timer >= ProbeInterval)
    BY <1>4 DEF Loop, ProbeDue
  <2>2. 0 + ProbeTime <= ProbeTime /\ (~(timer >= ProbeInterval) => timer < ProbeInterval)
    BY <1>1
  <2> QED BY <2>1, <2>2 DEF OnTime
<1>5. CASE Take
  <2>1. place' = "fetch" \/ (place' = "sleep" /\ busy' = SleepTime)
    BY <1>5 DEF Take, FetchOrSleep
  <2>2. timer < ProbeInterval => timer + SleepTime <= Round
    BY <1>1
  <2> QED BY <1>5, <2>1, <2>2 DEF Take, OnTime
<1>6. CASE Fetch
  <2>1. place' = "fetch" \/ (place' = "sleep" /\ busy' = SleepTime)
    BY <1>6 DEF Fetch, FetchOrSleep
  <2>2. timer < ProbeInterval
    <3>1. CASE timer <= AnswerTime
      BY <1>1, <3>1, Constants
    <3>2. CASE timer > AnswerTime
      <4>1. Waiting > 0 /\ Waiting - 1 \in Nat /\ place = "fetch"
        BY <1>6, WaitingIs DEF Fetch, HasUrl, Waiting
      <4>2. timer + busy + Cost(Waiting - 1) <= AnswerTime + Cost(Promised)
        <5>1. timer + (busy + Cost(Waiting - 1)) <= AnswerTime + Cost(Promised)
          BY <3>2, <4>1 DEF Backlog, Work
        <5> QED BY <1>1, <4>1, <5>1, Costs
      <4>3. Cost(Waiting - 1) \in Nat /\ Cost(Promised) \in Nat
        BY <4>1, Costs, Fits
      <4> QED BY <1>1, <4>2, <4>3, Fits, Constants
    <3> QED BY <1>1, <3>1, <3>2, Constants
  <2>3. timer + SleepTime <= Round
    BY <1>1, <2>2
  <2> QED BY <1>6, <2>1, <2>3 DEF Fetch, OnTime
<1>7. CASE Wake
  BY <1>1, <1>7 DEF Wake, OnTime
<1>8. CASE Die
  BY <1>8 DEF Die, Stopping
<1>9. CASE Stop \/ (\E u \in Urls : SetUrl(u)) \/ UNCHANGED discoverVars
  <2>1. UNCHANGED <<place, timer, busy>>
    BY <1>9 DEF Stop, Deactivate, Cancel, Cancelled, SetUrl, discoverVars
  <2> QED BY <2>1 DEF OnTime
<1>10. CASE Tick
  <2>1. place' = place
    BY <1>10 DEF Tick
  <2>2. PICK d \in 1..ProbeInterval :
          /\ Step(d) /\ busy' = Less(busy, d)
          /\ timer' = IF timer + d < MaxTimer THEN timer + d ELSE MaxTimer
    BY <1>10, Ticked
  <2>3. timer' <= timer + d /\ d \in Nat
    BY <1>1, <2>2
  <2>4. CASE place \in {"first", "probe"}
    <3>1. busy > 0 /\ d = 1
      BY <1>10, <2>2, <2>4, RunningTick DEF Step, NothingDue
    <3> QED BY <1>1, <2>1, <2>2, <2>3, <2>4, <3>1 DEF OnTime, Less
  <2>5. CASE place = "sleep"
    <3>1. busy > 0
      BY <1>10, <2>5, RunningTick
    <3>2. d = 1 \/ timer + d <= Round
      BY <1>1, <2>2 DEF Step
    <3>3. timer + busy <= Round
      BY <2>5 DEF OnTime
    <3>4. timer' + busy' <= Round
      BY <1>1, <2>2, <2>3, <3>1, <3>2, <3>3 DEF Less
    <3> QED BY <2>1, <2>5, <3>4 DEF OnTime
  <2>6. CASE place \in {"fetch", "ended"}
    BY <2>1, <2>6 DEF OnTime
  <2> QED BY <1>10, <2>4, <2>5, <2>6, RunningTick
<1> QED BY <1>2, <1>3, <1>4, <1>5, <1>6, <1>7, <1>8, <1>9, <1>10
        DEF DiscoverNext, DiscoverThread

(* What waits and what is expected stay what was promised.                 *)
LEMMA ExpectedIs ==
  ASSUME DiscoverTypeOK, RoundsFit
  PROVE  Expected \in Nat
BY Fits, OnceTwice DEF Expected

LEMMA SameExpected ==
  ASSUME due' = due, place' \in {"first", "probe"} <=> place \in {"first",
         "probe"}
  PROVE  Expected' = Expected
<1>1. Once' = Once /\ Twice' = Twice
  BY DEF Once, Twice
<1> QED BY <1>1 DEF Expected

(* A round's answers are taken, or one is fetched: less work waits.        *)
LEMMA FetchedBacklog ==
  ASSUME DiscoverTypeOK, HasUrl, RoundsFit, Backlog, Take \/ Fetch
  PROVE  Backlog'
<1>1. /\ UNCHANGED <<due, timer, signaled>>
      /\ \/ place' = "fetch" /\ busy' \in 0..FetchTime /\ tmp' # <<>>
         \/ place' = "sleep" /\ tmp' = <<>>
      /\ place \in {"take", "fetch"}
  BY DEF Take, Fetch, FetchOrSleep
<1>2. Expected' = Expected /\ Expected \in Nat
  BY <1>1, SameExpected, ExpectedIs
<1>3. tmp \in Seq(Urls) /\ probeUrls \in Seq(Urls)
  BY DEF DiscoverTypeOK
<1>4. PICK w \in Nat : /\ Waiting' = w /\ (w = 0 => tmp' = <<>>)
                       /\ \/ place = "take" /\ w = Waiting
                          \/ place = "fetch" /\ w = Waiting - 1 /\ busy = 0
  <2>1. CASE Take
    <3>1. Len(Reverse(probeUrls)) = Len(probeUrls) /\ Reverse(probeUrls) \in Seq(Urls)
      BY <1>3 DEF Reverse
    <3>2. Len(tmp') = Len(probeUrls) /\ Len(probeUrls') = 0 /\ tmp = <<>>
      BY <2>1, <3>1 DEF Take, Backlog
    <3>3. Len(probeUrls) \in Nat /\ Waiting = Len(probeUrls)
      BY <3>2, WaitingIs DEF Waiting
    <3>4. Waiting' = Len(probeUrls)
      BY <3>2, <3>3 DEF Waiting
    <3>5. Len(probeUrls) = 0 => tmp' = <<>>
      BY <1>3, <2>1, <3>1, <3>2, EmptySeq DEF Take
    <3> QED BY <2>1, <3>3, <3>4, <3>5 DEF Take
  <2>2. CASE Fetch
    <3>1. tmp # <<>> /\ tmp' = Tail(tmp) /\ probeUrls' = probeUrls
      BY <2>2 DEF Fetch, HasUrl
    <3>2. Tail(tmp) \in Seq(Urls) /\ Len(Tail(tmp)) = Len(tmp) - 1
      BY <1>3, <3>1, HeadTailProperties
    <3>3. /\ Len(tmp) \in Nat /\ Len(tmp) > 0 /\ Len(probeUrls) \in Nat
          /\ Waiting = Len(tmp) + Len(probeUrls)
      BY <3>1, WaitingIs DEF Waiting
    <3>4. Waiting' = Len(tmp) - 1 + Len(probeUrls)
      BY <3>1, <3>2 DEF Waiting
    <3>5. Waiting - 1 \in Nat /\ Waiting' = Waiting - 1
      BY <3>3, <3>4
    <3>6. Waiting - 1 = 0 => tmp' = <<>>
      BY <3>1, <3>2, <3>3, EmptySeq
    <3> QED BY <2>2, <3>5, <3>6 DEF Fetch
  <2> QED BY <2>1, <2>2
<1>5. Waiting \in Nat /\ timer \in Nat /\ Promised \in Nat /\ AnswerTime \in Nat
  BY WaitingIs, Fits, Constants
<1>6. w <= Waiting
  BY <1>4, <1>5
<1>7. timer <= AnswerTime => w + Expected <= Promised
  BY <1>2, <1>5, <1>6 DEF Backlog
<1>8. Work = Cost(w)
  <2>1. 0 + Cost(w) = Cost(w)
    BY Costs
  <2> QED BY <1>4, <2>1 DEF Work
<1>9. w > 0 => Work' <= Cost(w) /\ Work' \in Nat
  <2>1. CASE place' = "sleep"
    BY <1>4, <2>1, Costs DEF Work
  <2>2. CASE place' = "fetch" /\ w > 0
    <3>1. PICK b \in 0..FetchTime : b = busy'
      BY <1>1, <2>2
    <3>2. Work' = b + Cost(w - 1)
      BY <1>4, <2>2, <3>1 DEF Work
    <3>3. w - 1 \in Nat /\ (w - 1) + 1 = w
      BY <2>2
    <3>4. Cost(w - 1) \in Nat /\ Cost(w) = Cost(w - 1) + FetchTime
      BY <3>3, Costs
    <3> QED BY <3>2, <3>4, Constants
  <2> QED BY <1>1, <2>1, <2>2
<1>10. timer > AnswerTime /\ w > 0 => timer + Work' <= AnswerTime + Cost(Promised)
  <2>1. Cost(w) \in Nat /\ Cost(Promised) \in Nat
    BY <1>5, Costs
  <2>2. timer > AnswerTime /\ w > 0 => timer + Cost(w) <= AnswerTime + Cost(Promised)
    BY <1>5, <1>6, <1>8 DEF Backlog
  <2>3. PICK x : x = Work'
    OBVIOUS
  <2>4. w > 0 => x <= Cost(w) /\ x \in Nat
    BY <1>9, <2>3
  <2>5. timer > AnswerTime /\ w > 0 => timer + x <= AnswerTime + Cost(Promised)
    BY <1>5, <2>1, <2>2, <2>4
  <2> QED BY <2>3, <2>5
<1>11. probeUrls' # <<>> => signaled'
  BY <1>1 DEF Take, Fetch, Backlog
<1>12. place' = "fetch" => busy' <= FetchTime
  <2>1. \A b \in 0..FetchTime : b <= FetchTime
    BY Constants
  <2> QED BY <1>1, <2>1
<1>13. /\ timer' <= AnswerTime => Waiting' + Expected' <= Promised
       /\ timer' > AnswerTime /\ Waiting' > 0 => timer' + Work' <= AnswerTime + Cost(Promised)
  BY <1>1, <1>2, <1>4, <1>7, <1>10
<1> QED BY <1>1, <1>11, <1>12, <1>13 DEF Backlog

(* A step that leaves the work alone.                                      *)
LEMMA SameBacklog ==
  ASSUME Backlog, UNCHANGED <<tmp, probeUrls, timer, busy>>,
         place' = place \/ (place # "fetch" /\ place' \notin {"fetch", "sleep"}),
         Expected' = Expected, signaled => signaled' \/ place' # place
  PROVE  Backlog'
<1>1. Waiting' = Waiting /\ Promised' = Promised
  BY DEF Waiting, Promised
<1>2. Work' = Work
  BY <1>1 DEF Work, Cost
<1> QED BY <1>1, <1>2 DEF Backlog, Cost

LEMMA TickedBacklog ==
  ASSUME DiscoverTypeOK, DiscoverTypeOK', HasUrl, RoundsFit, Stopping,
         running, Backlog,
         OnTime, OnTime', Tick
  PROVE  Backlog'
<1>1. UNCHANGED <<place, tmp, probeUrls, signaled>>
  BY DEF Tick
<1>2. Waiting' = Waiting /\ Waiting \in Nat /\ Promised' = Promised /\ Promised \in Nat
  BY <1>1, WaitingIs, Fits DEF Waiting, Promised
<1>3. PICK d \in 1..ProbeInterval :
        /\ Step(d) /\ busy' = Less(busy, d)
        /\ timer' = IF timer + d < MaxTimer THEN timer + d ELSE MaxTimer
  BY Ticked
<1>4. /\ timer \in Nat /\ busy \in Nat /\ d \in Nat /\ d >= 1
      /\ AnswerTime \in Nat /\ FetchTime \in Nat /\ MaxTimer \in Nat
      /\ AnswerTime < MaxTimer /\ ProbeTime <= AnswerTime /\ ProbeTime \in Nat
  BY Constants, WaitingIs
<1>5. PICK t \in Nat, b \in Nat : t = timer' /\ b = busy'
  <2>1. timer' \in 0..MaxTimer /\ busy' \in Nat
    BY DEF DiscoverTypeOK
  <2> QED BY <2>1
<1>6. t <= timer + d /\ (t <= AnswerTime => timer <= AnswerTime) /\ b <= busy
  <2>1. b = Less(busy, d) /\ t = IF timer + d < MaxTimer THEN timer + d ELSE MaxTimer
    BY <1>3, <1>5
  <2> QED BY <1>4, <2>1 DEF Less
<1>7. t <= AnswerTime => Waiting' + Expected' <= Promised
  <2>1. SUFFICES ASSUME t <= AnswerTime
                 PROVE  Waiting' + Expected' <= Promised
    OBVIOUS
  <2>2. due' = due
    BY <1>4, <1>5, <2>1 DEF Tick
  <2>3. Expected' = Expected
    BY <1>1, <2>2, SameExpected
  <2> QED BY <1>2, <1>6, <2>1, <2>3 DEF Backlog
<1>8. t > AnswerTime /\ Waiting > 0 => t + Work' <= AnswerTime + Cost(Promised)
  <2>1. SUFFICES ASSUME t > AnswerTime, Waiting > 0
                 PROVE  t + Work' <= AnswerTime + Cost(Promised)
    OBVIOUS
  <2>2. place \notin {"first", "probe"}
    <3>1. SUFFICES ASSUME place \in {"first", "probe"}
                   PROVE  FALSE
      OBVIOUS
    <3>2. t + b <= ProbeTime
      BY <1>1, <1>5, <3>1 DEF OnTime
    <3> QED BY <1>4, <2>1, <3>2
  <2>3. place # "sleep"
    <3>1. SUFFICES ASSUME place = "sleep"
                   PROVE  FALSE
      OBVIOUS
    <3>2. ~signaled
      BY <3>1, RunningTick
    <3>3. tmp = <<>> /\ probeUrls = <<>>
      BY <3>1, <3>2 DEF Backlog
    <3> QED BY <2>1, <3>3, WaitingIs DEF Waiting
  <2>4. place = "fetch" /\ busy > 0
    BY <2>2, <2>3, RunningTick DEF OnTime
  <2>5. d = 1 /\ b = busy - 1
    <3>1. d = 1
      BY <1>3, <2>4 DEF Step, NothingDue
    <3> QED BY <1>3, <1>4, <1>5, <2>4, <3>1 DEF Less
  <2>6. Waiting - 1 \in Nat /\ (Waiting - 1) + 1 = Waiting
    BY <1>2, <2>1
  <2>7. /\ Cost(Waiting - 1) \in Nat /\ Cost(Promised) \in Nat /\ Cost(Waiting) \in Nat
        /\ Cost(Waiting) = Cost(Waiting - 1) + FetchTime
    BY <1>2, <2>6, Costs
  <2>8. timer + (busy + Cost(Waiting - 1)) <= AnswerTime + Cost(Promised)
    <3>1. CASE timer > AnswerTime
      BY <2>1, <2>4, <3>1 DEF Backlog, Work
    <3>2. CASE timer <= AnswerTime
      <4>1. Waiting <= Promised
        BY <1>2, <3>2, ExpectedIs DEF Backlog
      <4>2. Cost(Waiting) <= Cost(Promised)
        BY <1>2, <4>1, Costs
      <4>3. busy <= FetchTime
        BY <2>4 DEF Backlog
      <4> QED BY <1>4, <2>7, <3>2, <4>2, <4>3
    <3> QED BY <1>4, <3>1, <3>2
  <2>9. Work' = b + Cost(Waiting - 1)
    BY <1>1, <1>2, <1>5, <2>4 DEF Work, Cost
  <2>10. t + (b + Cost(Waiting - 1)) <= AnswerTime + Cost(Promised)
    BY <1>4, <1>6, <2>5, <2>7, <2>8
  <2> QED BY <2>9, <2>10
<1>9. place' = "fetch" => busy' <= FetchTime
  BY <1>1, <1>4, <1>5, <1>6 DEF Backlog
<1>10. place' \in {"fetch", "sleep"} /\ probeUrls' # <<>> => signaled'
  BY <1>1 DEF Backlog
<1> QED BY <1>1, <1>2, <1>5, <1>7, <1>8, <1>9, <1>10 DEF Backlog, Cost

LEMMA BacklogStep ==
  ASSUME DiscoverTypeOK, DiscoverTypeOK', DueFits, HasUrl, RoundsFit, Stopping,
         running, Backlog, OnTime, OnTime', [DiscoverNext]_discoverVars, running'
  PROVE  Backlog'
<1>1. CASE ProbeEnd
  <2>1. \A u \in Urls : due[u] <= 1
    BY <1>1 DEF ProbeEnd, DueFits
  <2>2. Cardinality(Once') + Cardinality(Twice')
          = Cardinality(Once) + Cardinality(Twice) + Cardinality(Urls)
    BY <1>1, <2>1, QueryExpects DEF ProbeEnd
  <2>3. place \in {"first", "probe"} /\ place' \in {"loop", "cleanup"}
    BY <1>1 DEF ProbeEnd
  <2>4. Expected' = Cardinality(Once') + Cardinality(Twice') + 0
    BY <2>3 DEF Expected
  <2>5. Expected = Cardinality(Once) + Cardinality(Twice) + Cardinality(Urls)
    BY <2>3 DEF Expected
  <2>6. Expected' = Expected
    BY <2>2, <2>4, <2>5, OnceTwice, Fits
  <2> QED BY <1>1, <2>3, <2>6, SameBacklog DEF ProbeEnd
<1>2. CASE Cleanup
  <2>1. Expected' = Expected
    BY <1>2, SameExpected DEF Cleanup
  <2> QED BY <1>2, <2>1, SameBacklog DEF Cleanup
<1>3. CASE Loop
  <2>1. CASE place' # "probe"
    <3>1. place = "loop" /\ place' \notin {"fetch", "sleep", "first", "probe"}
          /\ UNCHANGED <<tmp, probeUrls, timer, busy, due, signaled>>
      BY <1>3, <2>1 DEF Loop
    <3>2. Expected' = Expected
      BY <3>1, SameExpected
    <3> QED BY <3>1, <3>2, SameBacklog
  <2>2. CASE place' = "probe"
    <3>1. /\ place = "loop" /\ timer >= ProbeInterval /\ timer' = 0
          /\ due' = [u \in Urls |-> 1]
          /\ UNCHANGED <<tmp, probeUrls, signaled>>
      BY <1>3, <2>2 DEF Loop, ProbeDue
    <3>2. Waiting = 0
      <4>1. SUFFICES ASSUME Waiting > 0
                     PROVE  FALSE
        BY WaitingIs
      <4>2. timer > AnswerTime
        BY <3>1, WaitingIs, Constants
      <4>3. timer + Cost(Waiting) <= AnswerTime + Cost(Promised)
        BY <3>1, <4>1, <4>2 DEF Backlog, Work
      <4>4. Cost(Waiting) \in Nat /\ Cost(Promised) \in Nat
        BY WaitingIs, Fits, Costs
      <4>5. timer \in Nat /\ AnswerTime \in Nat /\ ProbeInterval \in Nat
        BY WaitingIs, Constants
      <4>6. AnswerTime + Cost(Promised) < ProbeInterval
        BY Fits
      <4>7. timer <= AnswerTime + Cost(Promised)
        BY <4>3, <4>4, <4>5
      <4> QED BY <3>1, <4>4, <4>5, <4>6, <4>7
    <3>3. Cardinality(Once') + Cardinality(Twice') = Cardinality(Urls)
      BY <3>1, ProbeExpects
    <3>4. Expected' = Cardinality(Urls) + Cardinality(Urls)
      BY <2>2, <3>3 DEF Expected
    <3>5. Expected' = Promised /\ Promised \in Nat
      BY <3>4, Fits
    <3>6. Waiting' = 0 /\ Promised' = Promised
      BY <3>1, <3>2 DEF Waiting, Promised
    <3>7. 0 + Promised <= Promised /\ ~(0 > AnswerTime)
      BY <3>5, Constants
    <3> QED BY <2>2, <3>1, <3>5, <3>6, <3>7 DEF Backlog
  <2> QED BY <2>1, <2>2
<1>4. CASE Take \/ Fetch
  BY <1>4, FetchedBacklog
<1>5. CASE Wake
  <2>1. place = "sleep" /\ place' = "loop"
        /\ UNCHANGED <<tmp, probeUrls, timer, due>>
    BY <1>5 DEF Wake
  <2>2. Expected' = Expected
    BY <2>1, SameExpected
  <2>3. Waiting' = Waiting /\ Promised' = Promised
    BY <2>1 DEF Waiting, Promised
  <2>4. Work' = Work
    BY <2>1, <2>3 DEF Work, Cost
  <2> QED BY <2>1, <2>2, <2>3, <2>4 DEF Backlog, Cost
<1>6. CASE Die
  BY <1>6 DEF Die, Stopping
<1>7. ASSUME NEW u \in Urls, SetUrl(u)
      PROVE  Backlog'
  <2>1. /\ due[u] > 0 /\ timer <= AnswerTime /\ timer' = timer
        /\ due' = [due EXCEPT ![u] = @ - 1]
        /\ probeUrls' = <<u>> \o probeUrls /\ tmp' = tmp
        /\ signaled' = TRUE /\ place' = place /\ busy' = busy
    BY <1>7 DEF SetUrl
  <2>2. Cardinality(Once') + Cardinality(Twice')
          = Cardinality(Once) + Cardinality(Twice) - 1
    BY <2>1, AnswerExpected
  <2>3. Expected' = Expected - 1
    <3>1. PICK x, y : x = Cardinality(Once') /\ y = Cardinality(Twice')
      OBVIOUS
    <3>2. PICK z \in Nat : z = IF place \in {"first", "probe"} THEN Cardinality(Urls) ELSE 0
      BY Fits
    <3>3. Expected' = x + y + z /\ Expected = Cardinality(Once) + Cardinality(Twice) + z
      BY <2>1, <3>1, <3>2 DEF Expected
    <3>4. x + y = Cardinality(Once) + Cardinality(Twice) - 1
      BY <2>2, <3>1
    <3> QED BY <3>3, <3>4, OnceTwice
  <2>4. Waiting' = Waiting + 1
    <3>1. Len(probeUrls') = 1 + Len(probeUrls)
      <4>1. <<u>> \in Seq(Urls) /\ probeUrls \in Seq(Urls) /\ Len(<<u>>) = 1
        BY DEF DiscoverTypeOK
      <4> QED BY <2>1, <4>1, ConcatProperties
    <3>2. Waiting' = Len(tmp) + (1 + Len(probeUrls))
      BY <2>1, <3>1 DEF Waiting
    <3> QED BY <3>2, WaitingIs DEF Waiting
  <2>5. (Waiting + 1) + (Expected - 1) <= Promised
    <3>1. Waiting + Expected <= Promised
      BY <2>1 DEF Backlog
    <3> QED BY <3>1, WaitingIs, ExpectedIs, Fits
  <2>6. Promised' = Promised /\ ~(timer > AnswerTime)
    BY <2>1, WaitingIs, Constants DEF Promised
  <2> QED BY <2>1, <2>3, <2>4, <2>5, <2>6 DEF Backlog
<1>8. CASE Deactivate \/ Cancel \/ Cancelled \/ UNCHANGED discoverVars
  <2>1. UNCHANGED <<tmp, probeUrls, timer, busy, place, due>> /\ (signaled => signaled')
    BY <1>8 DEF Deactivate, Cancel, Cancelled, discoverVars
  <2>2. Expected' = Expected
    BY <2>1, SameExpected
  <2> QED BY <2>1, <2>2, SameBacklog
<1>9. CASE Tick
  BY <1>9, TickedBacklog
<1> QED BY <1>1, <1>2, <1>3, <1>4, <1>5, <1>6, <1>7, <1>8, <1>9
       DEF DiscoverNext, DiscoverThread, Stop

LEMMA InitRound ==
  ASSUME RoundsFit, DiscoverInit
  PROVE  RoundInv
<1>1. DiscoverTypeOK /\ DueFits /\ HasUrl
  <2>1. IsFiniteSet(Urls)
    BY DEF RoundsFit
  <2> QED BY <2>1, InitList DEF ListInv
<1>2. /\ known = <<>> /\ tmp = <<>> /\ probeUrls = <<>> /\ place = "first"
      /\ timer = 0 /\ busy = ProbeTime /\ running = TRUE /\ cancelled = FALSE
      /\ stopping = "no" /\ due = [u \in Urls |-> 1]
  BY DEF DiscoverInit
<1>3. Stopping /\ AtCleanup /\ Young
  <2>1. \A e \in Entries : ~Listed(e)
    BY <1>2 DEF Listed
  <2> QED BY <1>2, <2>1 DEF Stopping, AtCleanup, Young
<1>4. Backlog
  <2>1. Waiting = 0
    BY <1>2 DEF Waiting
  <2>2. Once = Urls /\ Twice = {}
    BY <1>2 DEF Once, Twice
  <2>3. Expected = Cardinality(Urls) + 0 + Cardinality(Urls)
    BY <1>2, <2>2, FS_EmptySet DEF Expected
  <2>4. 0 + Expected <= Promised /\ ~(0 > AnswerTime)
    BY <2>3, Fits, Constants
  <2> QED BY <1>2, <2>1, <2>4 DEF Backlog
<1>5. OnTime
  <2>1. 0 + ProbeTime <= ProbeTime
    BY Constants
  <2> QED BY <1>2, <2>1 DEF OnTime
<1> QED BY <1>1, <1>3, <1>4, <1>5 DEF RoundInv

LEMMA RoundStep ==
  ASSUME RoundsFit, RoundInv, [DiscoverNext]_discoverVars
  PROVE  RoundInv'
<1>1. /\ DiscoverTypeOK /\ DueFits /\ HasUrl /\ Stopping /\ AtCleanup /\ Young
      /\ running => Backlog /\ OnTime
  BY DEF RoundInv
<1>2. DiscoverTypeOK' /\ DueFits' /\ HasUrl'
  BY <1>1, ThreadTypes, OtherTypes DEF DiscoverNext
<1>3. Stopping' /\ AtCleanup' /\ Young'
  BY <1>1, <1>2, StoppingStep, AtCleanupStep, YoungStep
<1>4. running' => running
  <2>1. DiscoverThread => running' = running
    BY DEF DiscoverThread, ProbeEnd, Cleanup, Loop, Take, Fetch, Wake, Die,
        stopVars
  <2>2. Stop \/ Tick => (running' => running)
    BY DEF Stop, Deactivate, Cancel, Cancelled, Tick
  <2>3. ASSUME NEW u \in Urls, SetUrl(u)
        PROVE  running' = running
    BY <2>3 DEF SetUrl, stopVars
  <2> QED BY <2>1, <2>2, <2>3 DEF DiscoverNext, discoverVars
<1>5. running' => Backlog' /\ OnTime'
  BY <1>1, <1>2, <1>4, OnTimeStep, BacklogStep
<1> QED BY <1>2, <1>3, <1>5 DEF RoundInv

(* What Cleanup() removes was not fetched in the two rounds before, or, if *)
(* a stop has delayed it, not in the round before.                         *)
LEMMA RemovedIsOld ==
  ASSUME RoundsFit, RoundInv, Cleanup,
         NEW e \in Entries, Listed(e), ~Listed(e)'
  PROVE  age[e] > 1 /\ (stopping = "no" => age[e] > 2)
<1>1. DiscoverTypeOK /\ Stopping /\ AtCleanup /\ Young
  BY DEF RoundInv
<1>2. seen[e] > CleanupTimeout
  BY <1>1, CleanedList DEF Stale
<1>3. /\ timer \in Nat /\ age[e] \in Nat /\ seen[e] \in Nat /\ wait \in Nat
      /\ ProbeTime \in Nat /\ CancelTime \in Nat /\ Round \in Nat
      /\ CleanupTimeout \in Nat /\ MaxTimer \in Nat
  <2>1. /\ timer \in 0..MaxTimer /\ seen[e] \in 0..CleanupTimeout + 1
        /\ wait \in 0..CancelTime /\ age[e] \in Nat
    BY <1>1 DEF DiscoverTypeOK
  <2> QED BY <2>1, Constants, Fits
<1>4. /\ ProbeTime + CancelTime < MaxTimer /\ 2 * Round + ProbeTime <= CleanupTimeout
      /\ CancelTime <= Round
  BY <1>3, Constants, Fits
<1>5. place = "cleanup" /\ stopping \in {"no", "done"}
  BY <1>1 DEF Cleanup, Held, DiscoverTypeOK
<1>6. CASE stopping = "no"
  <2>1. timer <= ProbeTime
    BY <1>1, <1>5, <1>6 DEF AtCleanup, Stopping
  <2>2. timer < MaxTimer
    BY <1>3, <1>4, <2>1
  <2>3. /\ age[e] = 0 => seen[e] <= timer
        /\ age[e] = 1 => seen[e] <= Round + timer
        /\ age[e] = 2 => seen[e] <= 2 * Round + timer
    BY <1>1, <2>2 DEF Young
  <2>4. age[e] # 0 /\ age[e] # 1 /\ age[e] # 2
    BY <1>2, <1>3, <1>4, <2>1, <2>3
  <2> QED BY <1>3, <1>6, <2>4
<1>7. CASE stopping = "done"
  <2>1. timer <= ProbeTime + CancelTime
    BY <1>1, <1>3, <1>5, <1>7 DEF AtCleanup, Stopping
  <2>2. timer < MaxTimer
    BY <1>3, <1>4, <2>1
  <2>3. /\ age[e] = 0 => seen[e] <= timer
        /\ age[e] = 1 => seen[e] <= Round + timer
    BY <1>1, <2>2 DEF Young
  <2>4. age[e] # 0 /\ age[e] # 1
    BY <1>2, <1>3, <1>4, <2>1, <2>3
  <2> QED BY <1>3, <1>7, <2>4
<1> QED BY <1>5, <1>6, <1>7

(* One round without an answer costs no server its place: while nobody     *)
(* stops the discovery, nothing is taken off the list that was fetched in  *)
(* one of the two rounds before, and during and after a stop at any moment *)
(* nothing that was fetched in the round before, if the answers of a round *)
(* are fetched in time (RoundsFit).                                        *)
THEOREM SilentRoundIsSurvived ==
  ASSUME RoundsFit
  PROVE  DiscoverSpec => KeptTwoRounds
<1>1. DiscoverInit => RoundInv
  BY InitRound
<1>2. RoundInv /\ [DiscoverNext]_discoverVars => RoundInv'
  BY RoundStep
<1>3. RoundInv /\ [DiscoverNext]_discoverVars
        => [\A e \in Entries : Listed(e) /\ ~Listed(e)' =>
              age[e] > 1 /\ (stopping = "no" => age[e] > 2)]_discoverVars
  <2> SUFFICES ASSUME RoundInv, DiscoverNext, NEW e \in Entries, Listed(e),
                      ~Listed(e)'
               PROVE  age[e] > 1 /\ (stopping = "no" => age[e] > 2)
    OBVIOUS
  <2>1. DiscoverTypeOK /\ HasUrl
    BY DEF RoundInv
  <2>2. CASE Fetch
    <3>1. ~(UNCHANGED listVars)
      BY DEF listVars, Listed
    <3> QED BY <2>1, <2>2, <3>1, Fetched, Added
  <2>3. CASE Cleanup
    BY <2>3, RemovedIsOld
  <2>4. CASE ProbeEnd \/ Loop \/ Take \/ Wake \/ Die \/ (\E u \in Urls : SetUrl(u))
             \/ Stop \/ Tick
    <3>1. known' = known
      BY <2>4 DEF ProbeEnd, Loop, Take, Wake, Die, SetUrl, Stop, Deactivate,
          Cancel,
                  Cancelled, Tick, listVars
    <3> QED BY <3>1 DEF Listed
  <2> QED BY <2>2, <2>3, <2>4 DEF DiscoverNext, DiscoverThread
<1> QED BY <1>1, <1>2, <1>3, PTL DEF DiscoverSpec, KeptTwoRounds
=============================================================================
