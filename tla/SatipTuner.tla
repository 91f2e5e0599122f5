----------------------------- MODULE SatipTuner -----------------------------
(***************************************************************************)
(* The tuner of the vdr-plugin-satip (tuner.c): one cSatipTuner, its state *)
(* machine thread, the calls of the device that owns it, the reports the   *)
(* poller delivers, and the RTSP servers it talks to.                      *)
(*                                                                         *)
(* Every method of cSatipTuner holds mutexM, so a method is one step.      *)
(* Action() itself does not hold it: a call of the device, of the poller   *)
(* or of power saving may fall between any two methods of one iteration.   *)
(* pc names the place inside the iteration.  A timer is a free choice of   *)
(* "expired or not"; the answer of a server is a free choice among the     *)
(* answers ValidateLatestResponse (rtsp.c) distinguishes.                  *)
(***************************************************************************)
EXTENDS Naturals, Sequences, FiniteSets

CONSTANTS
  Servers,        \* the SAT>IP servers, each with its own base URL
  Transponders,   \* tuning parameters a channel may ask for
  Pids,           \* PIDs the device's receivers and filters may ask for
  TearAndPlay,    \* servers with eSatipQuirkTearAndPlay
  ForceLock,      \* servers with eSatipQuirkForceLock
  PlayPids,       \* servers with eSatipQuirkPlayPids
  Answers,        \* the answers servers may give: "ok", "fail", "forbidden"
  None,           \* "no server", "no stream", "no transponder"
  MaxRequests     \* bound: requests waiting in a queue when a call comes in

ASSUME ConstantsAssumption ==
  /\ None \notin Servers \cup Transponders
  /\ Answers \subseteq {"ok", "fail", "forbidden"}
  /\ MaxRequests \in Nat

VARIABLES
  pc,             \* place of the tuner thread inside Action()
  currentState,   \* currentStateM
  internalState,  \* internalStateM: requests of the state machine itself
  externalState,  \* externalStateM: requests of the device
  streamAddr,     \* streamAddrM: server of the last SetSource
  streamParam,    \* streamParamM: transponder of the last SetSource
  lastAddr,       \* lastAddrM: server of the last successful SETUP
  lastParam,      \* lastParamM: transponder of the last successful Connect
  currentServer,  \* currentServerM
  nextServer,     \* nextServerM
  streamId,       \* streamIdM: None, or the server that issued the id
  hasLock,        \* hasLockM
  pids,           \* pidsM
  addPids,        \* addPidsM
  delPids,        \* delPidsM
  lastIdle,       \* lastIdleStatus of Action()
  tuning,         \* the timer tuning of Action()
  session,        \* what each server streams to this tuner
  attached,       \* Attach() calls not yet undone by the matching Detach()
  zap             \* the caller waiting in cSatipDevice::SetChannelDevice

queues  == <<internalState, externalState>>
target  == <<streamAddr, streamParam>>
timers  == <<lastIdle, tuning>>
link    == <<lastAddr, lastParam, currentServer, nextServer, streamId>>
pidSets == <<pids, addPids, delPids>>
servers == <<session, attached>>
vars    == <<pc, currentState, internalState, externalState, streamAddr,
             streamParam, lastAddr, lastParam, currentServer, nextServer,
             streamId, hasLock, pids, addPids, delPids, lastIdle, tuning,
             session, attached, zap>>

-----------------------------------------------------------------------------
(* The states of eTunerState, in their order: the code compares them.      *)

tsIdle    == 0
tsRelease == 1
tsSet     == 2
tsTuned   == 3
tsLocked  == 4
TunerState == {tsIdle, tsRelease, tsSet, tsTuned, tsLocked}

(* The places of one iteration of Action(): before UpdateCurrentState, at  *)
(* the switch, and between the methods each case calls.                    *)
Places == {"update", "dispatch", "released", "connect", "connected",
           "forcePids", "connectFailed", "statusOk", "noStatus",
           "keepAlive", "watch", "retune", "stopped"}

(* cSatipTunerServer: a server and the transponder it was assigned for.    *)
TunerServer == [server: Servers \cup {None},
                transponder: Transponders \cup {None}]
NoServer    == [server |-> None, transponder |-> None]
IsValid(ts) == ts.server # None

(* A session at a server: its transponder and the PIDs it forwards.        *)
Stream    == [tp: Transponders \cup {None}, pids: SUBSET Pids]
NoSession == [tp |-> None, pids |-> {}]

TypeOK ==
  /\ pc \in Places
  /\ currentState \in TunerState
  /\ internalState \in Seq(TunerState)
  /\ externalState \in Seq(TunerState)
  /\ streamAddr \in Servers \cup {None}
  /\ streamParam \in Transponders \cup {None}
  /\ lastAddr \in Servers \cup {None}
  /\ lastParam \in Transponders \cup {None}
  /\ currentServer \in TunerServer
  /\ nextServer \in TunerServer
  /\ streamId \in Servers \cup {None}
  /\ hasLock \in BOOLEAN
  /\ pids \subseteq Pids
  /\ addPids \subseteq Pids
  /\ delPids \subseteq Pids
  /\ lastIdle \in BOOLEAN
  /\ tuning \in {"running", "expired"}
  /\ session \in [Servers -> Stream]
  /\ attached \subseteq TunerServer
  /\ zap \in {"none", "waiting", "woken"}

Init ==
  /\ pc = "update"
  /\ currentState = tsIdle
  /\ internalState = <<>>
  /\ externalState = <<>>
  /\ streamAddr = None
  /\ streamParam = None
  /\ lastAddr = None
  /\ lastParam = None
  /\ currentServer = NoServer
  /\ nextServer = NoServer
  /\ streamId = None
  /\ hasLock = FALSE
  /\ pids = {}
  /\ addPids = {}
  /\ delPids = {}
  /\ lastIdle = FALSE
  /\ tuning = "running"
  /\ session = [s \in Servers |-> NoSession]
  /\ attached = {}
  /\ zap = "none"

-----------------------------------------------------------------------------
(* RequestState: an internal request for tsRelease is refused when the     *)
(* state it would follow is tsIdle; an external one is always queued.      *)

LatestRequest(q) == IF q = <<>> THEN currentState ELSE q[Len(q)]

RequestInternal(s) ==
  internalState' = IF s = tsRelease /\ LatestRequest(internalState) = tsIdle
                   THEN internalState
                   ELSE Append(internalState, s)

(* Mutant: a request for the state the tuner is in already is dropped.     *)
RequestExternalUnlessThere(s) ==
  externalState' = IF currentState = s THEN externalState
                                       ELSE Append(externalState, s)

RequestExternal(s) == externalState' = Append(externalState, s)

(* Mutant: with nothing queued the state is taken from an empty queue.     *)
UpdateCurrentStateUnknown ==
  /\ pc = "update"
  /\ pc' = "dispatch"
  /\ currentState' = IF internalState = <<>> THEN None ELSE Head(internalState)
  /\ internalState' = IF internalState = <<>> THEN <<>> ELSE Tail(internalState)
  /\ UNCHANGED <<externalState, target, link, hasLock, pidSets, timers,
                 servers, zap>>

(* Mutant: a request is taken from both queues, the internal one wins.     *)
UpdateCurrentStateBoth ==
  /\ pc = "update"
  /\ pc' = "dispatch"
  /\ currentState' = IF internalState # <<>> THEN Head(internalState)
                     ELSE IF externalState # <<>> THEN Head(externalState)
                     ELSE currentState
  /\ internalState' = IF internalState = <<>> THEN <<>> ELSE Tail(internalState)
  /\ externalState' = IF externalState = <<>> THEN <<>> ELSE Tail(externalState)
  /\ UNCHANGED <<target, link, hasLock, pidSets, timers, servers, zap>>

(* UpdateCurrentState: internal requests first, then the device's.         *)
UpdateCurrentState ==
  /\ pc = "update"
  /\ pc' = "dispatch"
  /\ \/ /\ internalState # <<>>
        /\ currentState' = Head(internalState)
        /\ internalState' = Tail(internalState)
        /\ UNCHANGED externalState
     \/ /\ internalState = <<>>
        /\ externalState # <<>>
        /\ currentState' = Head(externalState)
        /\ externalState' = Tail(externalState)
        /\ UNCHANGED internalState
     \/ /\ internalState = <<>>
        /\ externalState = <<>>
        /\ UNCHANGED <<currentState, internalState, externalState>>
  /\ UNCHANGED <<target, link, hasLock, pidSets, timers, servers, zap>>

-----------------------------------------------------------------------------
(* Requests to the servers.  A server honours a stream id only if it       *)
(* issued it and still has the session.  403 counts as success but has no  *)
(* effect; after a failure the server may or may not have acted.           *)

StreamAnswers == IF streamAddr = streamId /\ session[streamId] # NoSession
                 THEN Answers ELSE {"fail"}

Play(answer, stream) ==
  \/ /\ answer = "ok"
     /\ session' = [session EXCEPT ![streamId] = stream]
  \/ /\ answer = "forbidden"
     /\ UNCHANGED session
  \/ /\ answer = "fail"
     /\ \/ UNCHANGED session
        \/ /\ "fail" \in Answers /\ streamAddr = streamId
           /\ session[streamId] # NoSession
           /\ session' = [session EXCEPT ![streamId] = stream]

(* Mutant: the frontend of the next source is given back instead.          *)
DetachNext == attached' = attached \ {nextServer}

DetachServer == attached' = attached \ {currentServer}

(* Disconnect(): TEARDOWN at lastAddr, whatever it answers; the server     *)
(* keeps the session when the request gets lost.                           *)
Disconnect ==
  /\ \/ /\ lastAddr # None /\ streamId # None
        /\ streamId' = None
        /\ \/ session' = [session EXCEPT ![lastAddr] =
                            IF lastAddr = streamId THEN NoSession ELSE @]
           \/ "fail" \in Answers /\ UNCHANGED session
     \/ /\ lastAddr = None \/ streamId = None
        /\ UNCHANGED <<streamId, session>>
  /\ hasLock' = FALSE
  /\ DetachServer
  /\ addPids' = {}
  /\ delPids' = {}
  /\ UNCHANGED <<pids, lastAddr, lastParam, currentServer, nextServer>>

(* The "just retune" branch of Connect(): PLAY with the present stream id. *)
ConnectRetune ==
  /\ streamAddr # None
  /\ streamId # None
  /\ \E answer \in StreamAnswers :
       /\ Play(answer, [tp |-> streamParam, pids |-> session[streamId].pids])
       /\ \/ /\ answer # "fail"
             /\ lastParam' = streamParam
             /\ pc' = "connected"
             /\ UNCHANGED streamId
          \/ /\ answer = "fail"
             /\ streamId' = None
             /\ pc' = "connectFailed"
             /\ UNCHANGED lastParam
  /\ UNCHANGED <<lastAddr, currentServer, nextServer, attached>>

(* Mutant: the address is recorded on the first connection only.           *)
RecordFirstServer ==
  /\ lastAddr' = IF lastAddr = None THEN streamAddr ELSE lastAddr
  /\ IF IsValid(nextServer)
     THEN currentServer' = nextServer /\ nextServer' = NoServer
     ELSE UNCHANGED <<currentServer, nextServer>>
  /\ attached' = IF IsValid(currentServer')
                 THEN attached \cup {currentServer'} ELSE attached

(* What a successful SETUP records: where the stream id came from, and the *)
(* next server as the current one, whose frontend is attached.             *)
RecordServer ==
  /\ lastAddr' = streamAddr
  /\ IF IsValid(nextServer)
     THEN currentServer' = nextServer /\ nextServer' = NoServer
     ELSE UNCHANGED <<currentServer, nextServer>>
  /\ attached' = IF IsValid(currentServer')
                 THEN attached \cup {currentServer'} ELSE attached

(* The other branch: OPTIONS, then SETUP.  A SETUP answered 403 carries no *)
(* stream id and counts as success.  Without an address Connect() fails.   *)
ConnectSetup ==
  /\ streamId = None
  /\ \/ \E answer \in Answers \ {"fail"} :
          /\ streamAddr # None
          /\ lastParam' = streamParam
          /\ \/ /\ answer = "ok"
                /\ streamId' = streamAddr
                /\ session' = [session EXCEPT ![streamAddr] =
                                 [tp |-> streamParam, pids |-> {}]]
             \/ /\ answer = "forbidden"
                /\ UNCHANGED <<streamId, session>>
          /\ RecordServer
          /\ pc' = "connected"
     \/ /\ "fail" \in Answers \/ streamAddr = None
        /\ pc' = "connectFailed"
        /\ UNCHANGED <<link, servers>>

(* Mutant: only the quirk asks for the whole list, not the caller.         *)
SendsWholeListByQuirk(force) == currentServer.server \in PlayPids

SendsWholeList(force) == force \/ currentServer.server \in PlayPids

(* UpdatePids(force), without the CI extension.  With force, or for a      *)
(* server with the PlayPids quirk, the whole list is sent, and nothing     *)
(* when it is empty; the pending sets are cleared unless the PLAY failed.  *)
UpdatePids(force, done, failed) ==
  LET whole   == SendsWholeList(force)
      pending == addPids # {} \/ delPids # {}
      old     == session[streamId]
      new     == IF whole THEN pids ELSE (old.pids \cup addPids) \ delPids
  IN
  \E cacheTimedOut \in BOOLEAN :
    IF /\ (force /\ pids # {}) \/ (cacheTimedOut /\ pending)
       /\ streamAddr # None /\ streamId # None
    THEN \/ /\ whole /\ pids = {}
            /\ addPids' = {} /\ delPids' = {}
            /\ pc' = done
            /\ UNCHANGED session
         \/ /\ ~(whole /\ pids = {})
            /\ \E answer \in StreamAnswers :
                 /\ Play(answer, [old EXCEPT !.pids = new])
                 /\ \/ /\ answer # "fail"
                       /\ addPids' = {} /\ delPids' = {}
                       /\ pc' = done
                    \/ /\ answer = "fail"
                       /\ pc' = failed
                       /\ UNCHANGED <<addPids, delPids>>
    ELSE /\ pc' = done
         /\ UNCHANGED <<addPids, delPids, session>>

-----------------------------------------------------------------------------
(* The cases of the switch in Action().                                    *)

Idle ==
  /\ pc = "dispatch" /\ currentState = tsIdle
  /\ pc' = "update"
  /\ UNCHANGED <<currentState, queues, target, link, hasLock, pidSets,
                 timers, servers, zap>>

ReleaseDisconnect ==
  /\ pc = "dispatch" /\ currentState = tsRelease
  /\ Disconnect
  /\ pc' = "released"
  /\ UNCHANGED <<currentState, queues, target, timers, zap>>

ReleaseDone ==
  /\ pc = "released"
  /\ RequestInternal(tsIdle)
  /\ pc' = "update"
  /\ UNCHANGED <<currentState, externalState, target, link, hasLock, pidSets,
                 timers, servers, zap>>

SetTearDown ==
  /\ pc = "dispatch" /\ currentState = tsSet
  /\ IF currentServer.server \in TearAndPlay
     THEN Disconnect
     ELSE UNCHANGED <<link, hasLock, pidSets, servers>>
  /\ pc' = "connect"
  /\ UNCHANGED <<currentState, queues, target, timers, zap>>

Connect ==
  /\ pc = "connect"
  /\ ConnectRetune \/ ConnectSetup
  /\ tuning' = IF pc' = "connected" THEN "running" ELSE tuning
  /\ UNCHANGED <<currentState, queues, target, hasLock, pidSets, lastIdle,
                 zap>>

Connected ==
  /\ pc = "connected"
  /\ RequestInternal(tsTuned)
  /\ pc' = "forcePids"
  /\ UNCHANGED <<currentState, externalState, target, link, hasLock, pidSets,
                 timers, servers, zap>>

(* The result of UpdatePids(true) is ignored.                              *)
ForcePids ==
  /\ pc = "forcePids"
  /\ UpdatePids(TRUE, "update", "update")
  /\ UNCHANGED <<currentState, queues, target, link, hasLock, pids, timers,
                 attached, zap>>

ConnectFailed ==
  /\ pc = "connectFailed"
  /\ Disconnect
  /\ pc' = "update"
  /\ UNCHANGED <<currentState, queues, target, timers, zap>>

(* tsTuned wakes the zapping caller, then looks at the lock: DESCRIBE is   *)
(* sent when the status is due, and its answer may report the lock.        *)
TunedStatus ==
  /\ pc = "dispatch" /\ currentState = tsTuned
  /\ zap' = IF zap = "waiting" THEN "woken" ELSE zap
  /\ lastIdle' = FALSE
  /\ \/ /\ hasLock
        /\ pc' = "statusOk"
        /\ UNCHANGED hasLock
     \/ /\ ~hasLock
        /\ streamAddr # None /\ streamId # None
        /\ \E answer \in StreamAnswers \ {"fail"} : TRUE
        /\ pc' = "statusOk"
        /\ hasLock' \in BOOLEAN
     \/ /\ ~hasLock
        /\ pc' = "noStatus"
        /\ UNCHANGED hasLock
  /\ UNCHANGED <<currentState, queues, target, link, pidSets, servers, tuning>>

TunedLock ==
  /\ pc = "statusOk"
  /\ hasLock' = (hasLock \/ currentServer.server \in ForceLock)
  /\ IF hasLock' THEN RequestInternal(tsLocked) ELSE UNCHANGED internalState
  /\ pc' = "update"
  /\ UNCHANGED <<currentState, externalState, target, link, pidSets, timers,
                 servers, zap>>

(* The tuning timeout (20 s) outlasts at least one look at the status.     *)
TunedTimeout ==
  /\ pc = "noStatus"
  /\ \/ /\ tuning = "expired"
        /\ RequestInternal(tsSet)
        /\ UNCHANGED tuning
     \/ /\ tuning = "running"
        /\ tuning' \in {"running", "expired"}
        /\ UNCHANGED internalState
  /\ pc' = "update"
  /\ UNCHANGED <<currentState, externalState, target, link, hasLock, pidSets,
                 lastIdle, servers, zap>>

LockedPids ==
  /\ pc = "dispatch" /\ currentState = tsLocked
  /\ UpdatePids(FALSE, "keepAlive", "retune")
  /\ UNCHANGED <<currentState, queues, target, link, hasLock, pids, timers,
                 attached, zap>>

(* KeepAlive: OPTIONS at the stream address when it is due.                *)
LockedKeepAlive ==
  /\ pc = "keepAlive"
  /\ \/ pc' = "watch"
     \/ /\ streamAddr # None /\ "fail" \in Answers
        /\ pc' = "retune"
  /\ UNCHANGED <<currentState, queues, target, link, hasLock, pidSets,
                 timers, servers, zap>>

(* The connection and the idle timeout; nothing of the state changes when  *)
(* neither has expired and Receive() is called.                            *)
LockedWatch ==
  /\ pc = "watch"
  /\ \/ /\ "fail" \in Answers
        /\ pc' = "retune"
        /\ UNCHANGED <<internalState, lastIdle>>
     \/ /\ pc' = "update"
        /\ lastIdle' \in BOOLEAN
        /\ IF lastIdle /\ lastIdle' THEN RequestInternal(tsRelease)
                                    ELSE UNCHANGED internalState
     \/ /\ pc' = "update"
        /\ UNCHANGED <<internalState, lastIdle>>
  /\ UNCHANGED <<currentState, externalState, target, link, hasLock, pidSets,
                 servers, tuning, zap>>

LockedRetune ==
  /\ pc = "retune"
  /\ RequestInternal(tsSet)
  /\ pc' = "update"
  /\ UNCHANGED <<currentState, externalState, target, link, hasLock, pidSets,
                 timers, servers, zap>>

Thread ==
  \/ UpdateCurrentState \/ Idle \/ ReleaseDisconnect \/ ReleaseDone
  \/ SetTearDown \/ Connect \/ Connected \/ ForcePids \/ ConnectFailed
  \/ TunedStatus \/ TunedLock \/ TunedTimeout
  \/ LockedPids \/ LockedKeepAlive \/ LockedWatch \/ LockedRetune

-----------------------------------------------------------------------------
(* Calls of the device, from other threads.                                *)

Room == Len(internalState) <= MaxRequests /\ Len(externalState) <= MaxRequests

(* cSatipDevice::SetChannelDevice: SetSource, then the wait for            *)
(* SetChannelTuned.                                                        *)
SetSource(s, tp) ==
  /\ pc # "stopped" /\ zap = "none" /\ Room
  /\ nextServer' = [server |-> s, transponder |-> tp]
  /\ streamAddr' = s
  /\ streamParam' = tp
  /\ IF lastAddr # None /\ lastAddr # s
     THEN RequestInternal(tsRelease) ELSE UNCHANGED internalState
  /\ RequestExternal(tsSet)
  /\ zap' = "waiting"
  /\ UNCHANGED <<pc, currentState, lastAddr, lastParam, currentServer,
                 streamId, hasLock, pidSets, timers, servers>>

ZapReturn ==
  /\ zap # "none"
  /\ zap' = "none"
  /\ UNCHANGED <<pc, currentState, queues, target, link, hasLock, pidSets,
                 timers, servers>>

(* Close: a release is requested once the setup timeout has expired.       *)
Close ==
  /\ pc # "stopped" /\ Room
  /\ RequestExternal(tsRelease)
  /\ UNCHANGED <<pc, currentState, internalState, target, link, hasLock,
                 pidSets, timers, servers, zap>>

SetPowerSaveMode ==
  /\ pc # "stopped" /\ Room
  /\ currentState > tsRelease
  /\ RequestExternal(tsRelease)
  /\ UNCHANGED <<pc, currentState, internalState, target, link, hasLock,
                 pidSets, timers, servers, zap>>

AddPid(pid) ==
  /\ pids' = pids \cup {pid}
  /\ addPids' = addPids \cup {pid}
  /\ delPids' = delPids \ {pid}

(* Mutant: a PID that was still to be added stays scheduled.               *)
RemovePidKeepsAdd(pid) ==
  /\ pids' = pids \ {pid}
  /\ delPids' = delPids \cup {pid}
  /\ UNCHANGED addPids

RemovePid(pid) ==
  /\ pids' = pids \ {pid}
  /\ delPids' = delPids \cup {pid}
  /\ addPids' = addPids \ {pid}

SetPid(pid, on) ==
  /\ pc # "stopped"
  /\ IF on THEN AddPid(pid) ELSE RemovePid(pid)
  /\ UNCHANGED <<pc, currentState, queues, target, link, hasLock, timers,
                 servers, zap>>

(* The poller: a report may arrive late, after its session is gone.        *)
ProcessApplicationData ==
  /\ pc # "stopped" /\ lastAddr # None
  /\ hasLock' = ~hasLock
  /\ UNCHANGED <<pc, currentState, queues, target, link, pidSets, timers,
                 servers, zap>>

(* ~cSatipTuner: the thread has ended or was cancelled where it stood;     *)
(* there is no Disconnect.                                                 *)
Destroy ==
  /\ pc # "stopped" /\ zap = "none"
  /\ pc' = "stopped"
  /\ currentState' = tsIdle
  /\ internalState' = <<>>
  /\ externalState' = <<>>
  /\ UNCHANGED <<target, link, hasLock, pidSets, timers, servers, zap>>

(* A server drops a session, having missed its keep-alives or restarted.   *)
SessionExpires(s) ==
  /\ "fail" \in Answers
  /\ session[s] # NoSession
  /\ session' = [session EXCEPT ![s] = NoSession]
  /\ UNCHANGED <<pc, currentState, queues, target, link, hasLock, pidSets,
                 timers, attached, zap>>

Environment ==
  \/ \E s \in Servers, tp \in Transponders : SetSource(s, tp)
  \/ ZapReturn \/ Close \/ SetPowerSaveMode
  \/ \E pid \in Pids, on \in BOOLEAN : SetPid(pid, on)
  \/ ProcessApplicationData \/ Destroy
  \/ \E s \in Servers : SessionExpires(s)

Next == Thread \/ Environment

Spec == Init /\ [][Next]_vars

(* The thread loops with a timed wait, so it always takes its next step;   *)
(* nothing is assumed of the device, the poller or the servers.            *)
FairSpec == Spec /\ WF_vars(Thread)

-----------------------------------------------------------------------------
(* Properties.                                                             *)

InQueue(s, q) == \E i \in DOMAIN q : q[i] = s

(* Connected to what the last SetSource asked for.                         *)
Newest == lastParam = streamParam /\ lastAddr = streamAddr

(* The pending PID changes agree with the PIDs asked for: nothing is       *)
(* scheduled for addition that is no longer wanted, and nothing for        *)
(* deletion that is (SetPid, Disconnect and UpdatePids share the sets).    *)
PidSetsConsistent ==
  /\ addPids \subseteq pids
  /\ delPids \cap pids = {}

(* A zap is never lost: when the tuner counts as tuned, either its last    *)
(* successful Connect used the newest source, or the tsSet that will take  *)
(* up the newest source is still queued (SetSource against Connect).       *)
NoLostZap == currentState >= tsTuned => Newest \/ InQueue(tsSet, externalState)

(* A TEARDOWN goes to the server that issued the stream id, even when the  *)
(* stream address has already moved on to another server (SetSource        *)
(* against Disconnect).                                                    *)
TeardownAtIssuer == streamId # None => lastAddr = streamId

(* Resting in tsIdle, the tuner holds neither a stream nor a frontend, in  *)
(* whatever order releases, zaps and failures were queued (RequestState).  *)
IdleMeansReleased ==
  (/\ currentState = tsIdle /\ internalState = <<>>
   /\ pc \in {"update", "dispatch"})
    => streamId = None /\ attached = {}

(* At most one frontend is attached, the one Disconnect will detach        *)
(* (Connect moves nextServerM to currentServerM before it attaches).       *)
AttachedIsCurrent == attached \subseteq {currentServer}

(* A PID asked for is never forgotten: while nothing fails, every PID the  *)
(* server does not forward yet is scheduled for addition (SetPid against   *)
(* Disconnect, which empties the schedule, and UpdatePids).                *)
AddsNotLost ==
  (streamId # None /\ pc \notin {"connected", "forcePids", "stopped"}) =>
     pids \ session[streamId].pids \subseteq addPids

(* While nothing fails, a release the device or power saving asked for is  *)
(* carried out, however many internal requests overtake it                 *)
(* (UpdateCurrentState serves them first).                                 *)
ReleaseHonoured ==
  InQueue(tsRelease, externalState) ~> streamId = None \/ pc = "stopped"

(* While nothing fails, every source set is eventually taken up by a       *)
(* successful Connect (SetSource to Connect).                              *)
ZapServed ==
  InQueue(tsSet, externalState) ~> pc \in {"connected", "stopped"}

(* "Wait for actual channel tuning ... stopped by tuner using              *)
(* SetChannelTuned()" (device.c:449): a caller that was woken finds the    *)
(* tuner connected to the channel it asked for.                            *)
WokenMeansTuned == zap = "woken" => Newest
=============================================================================
