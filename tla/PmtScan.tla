------------------------------- MODULE PmtScan -------------------------------
(***************************************************************************)
(* The PMT phase of a scan: the state machine (statemachine.cpp, eScanPmt) *)
(* keeps a limited number of cPmtScanner threads at work, one per service  *)
(* of the PAT (scanfilter.cpp); each opens a section filter of the SAT>IP  *)
(* device, waits for its PMT and closes the filter (device.c,              *)
(* sectionfilter.c).  A filter takes one of the slots of the handler and   *)
(* puts its PID into the list of the tuner; the two are separate critical  *)
(* sections.  VDR's own section handler (pat.c, sections.c) uses filters   *)
(* of the same device meanwhile: these are Others.                         *)
(*                                                                         *)
(* A server forwards what the tuner's list names (SatipTuner shows how     *)
(* the list gets there); what a PMT says is left out.                      *)
(***************************************************************************)
EXTENDS Integers, FiniteSets

CONSTANTS
  Count,          \* services in the PAT
  Others,         \* filters of VDR's section handler
  Pids,           \* PIDs of the stream
  NoPid,          \* -1
  PidOf,          \* the PID each scanner and each of Others filters
  Limit,          \* scanners to be active at a time: 16
  Slots,          \* eMaxSecFilterCount: 32
  MaxReads        \* bound: rounds of a scanner's loop, 500

Scanners == 1 .. Count
Clients  == Scanners \cup Others

ASSUME PoolAssumption ==
  /\ Count \in Nat /\ Limit \in Nat /\ Slots \in Nat /\ MaxReads \in Nat
  /\ Others \cap Nat = {} /\ IsFiniteSet(Others)
  /\ PidOf \in [Clients -> Pids]
  /\ NoPid \notin Pids

VARIABLES
  phase,          \* "pool" while in eScanPmt, "done" or "stopped" after it
  i, finished, activePmts,  \* locals of the loop over the scanners
  pc,             \* place of each client in its life
  isActive,       \* cPmtScanner::isActive
  jobDone,        \* cPmtScanner::jobDone
  count,          \* rounds of each scanner's loop
  handle,         \* slot each client has, 0 stands for -1
  filtersM,       \* the PID filtered in each slot
  waiting,        \* scanners with a section in the socket of their filter
  pidsM           \* cSatipTuner::pidsM

pool   == <<phase, i, finished, activePmts>>
flags  == <<isActive, jobDone, count>>
slots  == <<handle, filtersM>>
vars   == <<pool, pc, flags, slots, waiting, pidsM>>

Places == {"new", "started", "idle", "open", "on", "read", "close", "free",
           "finish", "last", "ended"}

Slot == 1 .. Slots

TypeOK ==
  /\ phase \in {"pool", "done", "stopped"}
  /\ i \in 1 .. Count + 1 /\ finished \in 0 .. Count
  /\ activePmts \in 0 .. Limit + 1
  /\ pc \in [Clients -> Places]
  /\ isActive \in [Scanners -> BOOLEAN] /\ jobDone \in [Scanners -> BOOLEAN]
  /\ count \in [Scanners -> 0 .. MaxReads]
  /\ handle \in [Clients -> 0 .. Slots]
  /\ filtersM \in [Slot -> Pids \cup {NoPid}]
  /\ waiting \subseteq Scanners
  /\ pidsM \subseteq Pids

Init ==
  /\ phase = "pool" /\ i = 1 /\ finished = 0 /\ activePmts = 0
  /\ pc = [c \in Clients |-> IF c \in Scanners THEN "new" ELSE "idle"]
  /\ isActive = [s \in Scanners |-> FALSE]
  /\ jobDone = [s \in Scanners |-> FALSE]
  /\ count = [s \in Scanners |-> 0]
  /\ handle = [c \in Clients |-> 0]
  /\ filtersM = [s \in Slot |-> NoPid]
  /\ waiting = {} /\ pidsM = {}

At(c, place)   == pc[c] = place
Goto(c, place) == pc' = [pc EXCEPT ![c] = place]

-----------------------------------------------------------------------------
(* The loop of the state machine over the scanners.                        *)

(* Mutant: a scanner that is not active counts as finished.                *)
FinishedInactive(s) == ~ isActive[s]

Finished(s) == jobDone[s]

PoolSkip ==
  /\ phase = "pool" /\ i <= Count
  /\ Finished(i)
  /\ finished' = finished + 1
  /\ i' = i + 1
  /\ UNCHANGED <<phase, activePmts, pc, flags, slots, waiting, pidsM>>

(* ++activePmts > Limit leaves the loop.                                   *)
CountActive ==
  /\ activePmts' = activePmts + 1
  /\ i' = IF activePmts' > Limit THEN Count + 1 ELSE i + 1

(* Start() of a thread that already runs does nothing.                     *)
PoolStart ==
  /\ phase = "pool" /\ i <= Count
  /\ ~ Finished(i)
  /\ IF ~ isActive[i] /\ At(i, "new") THEN Goto(i, "started") ELSE UNCHANGED pc
  /\ CountActive
  /\ UNCHANGED <<phase, finished, flags, slots, waiting, pidsM>>

(* The scanners are deleted, which joins their threads.                    *)
PoolEnd ==
  /\ phase = "pool" /\ i > Count
  /\ IF finished < Count
     THEN UNCHANGED phase
     ELSE /\ \A s \in Scanners : At(s, "new") \/ At(s, "ended")
          /\ phase' = "done"
  /\ i' = 1 /\ finished' = 0 /\ activePmts' = 0
  /\ UNCHANGED <<pc, flags, slots, waiting, pidsM>>

(* The loops test stop and their locals are gone; the threads are left to  *)
(* themselves.                                                             *)
Stop ==
  /\ phase = "pool"
  /\ phase' = "stopped"
  /\ i' = 1 /\ finished' = 0 /\ activePmts' = 0
  /\ UNCHANGED <<pc, flags, slots, waiting, pidsM>>

Pool == PoolSkip \/ PoolStart \/ PoolEnd

-----------------------------------------------------------------------------
(* OpenFilter and CloseFilter of the device.                               *)

Free == {s \in Slot : filtersM[s] = NoPid}

(* Open() takes the first free slot; without one the handle is -1.         *)
OpenSlot(c) ==
  /\ At(c, "open")
  /\ IF Free = {}
     THEN /\ Goto(c, "read")
          /\ UNCHANGED slots
     ELSE \E s \in Free :
            /\ \A t \in Free : s <= t
            /\ handle' = [handle EXCEPT ![c] = s]
            /\ filtersM' = [filtersM EXCEPT ![s] = PidOf[c]]
            /\ Goto(c, "on")
  /\ UNCHANGED <<pool, flags, waiting, pidsM>>

OpenPid(c) ==
  /\ At(c, "on")
  /\ pidsM' = pidsM \cup {PidOf[c]}
  /\ Goto(c, "read")
  /\ UNCHANGED <<pool, flags, slots, waiting>>

(* Mutant: handles count from 0, slots from 1.                             *)
GetPidBefore(h) == IF h - 1 \in Slot THEN filtersM[h - 1] ELSE NoPid

GetPid(h) == IF h \in Slot THEN filtersM[h] ELSE NoPid

(* Mutant: the slot is freed first, the PID looked up in it afterwards.    *)
ClosePidLate(c) ==
  /\ At(c, "close")
  /\ pidsM' = pidsM \ {GetPid(0)}
  /\ Goto(c, "free")
  /\ UNCHANGED <<pool, flags, slots, waiting>>

(* SetPid() of the tuner with the PID of the handle, whoever else uses it. *)
ClosePid(c) ==
  /\ At(c, "close")
  /\ pidsM' = pidsM \ {GetPid(handle[c])}
  /\ Goto(c, "free")
  /\ UNCHANGED <<pool, flags, slots, waiting>>

CloseSlot(c) ==
  /\ At(c, "free")
  /\ IF handle[c] \in Slot
     THEN filtersM' = [filtersM EXCEPT ![handle[c]] = NoPid]
     ELSE UNCHANGED filtersM
  /\ waiting' = waiting \ {c}
  /\ handle' = [handle EXCEPT ![c] = 0]
  /\ Goto(c, IF c \in Scanners THEN "finish" ELSE "idle")
  /\ UNCHANGED <<pool, flags, pidsM>>

Filtering(c) == OpenSlot(c) \/ OpenPid(c) \/ ClosePid(c) \/ CloseSlot(c)

-----------------------------------------------------------------------------
(* The thread of a scanner.                                                *)

Begin(s) ==
  /\ At(s, "started")
  /\ isActive' = [isActive EXCEPT ![s] = TRUE]
  /\ Goto(s, "open")
  /\ UNCHANGED <<pool, jobDone, count, slots, waiting, pidsM>>

(* Out of the loop count matters no more.                                  *)
Leave(s) ==
  /\ isActive' = [isActive EXCEPT ![s] = FALSE]
  /\ count' = [count EXCEPT ![s] = 0]
  /\ Goto(s, "close")

ReadTimeout(s) ==
  /\ At(s, "read")
  /\ count[s] = MaxReads
  /\ Leave(s)
  /\ UNCHANGED <<pool, jobDone, slots, waiting, pidsM>>

(* Mutant: only rounds in which there is something to read are counted.    *)
ReadNothingUncounted(s) ==
  /\ At(s, "read")
  /\ count[s] < MaxReads
  /\ count' = [count EXCEPT ![s] = IF s \in waiting THEN @ + 1 ELSE @]
  /\ waiting' = waiting \ {s}
  /\ UNCHANGED <<pool, pc, isActive, jobDone, slots, pidsM>>

(* Nothing to read yet, or a section that does not parse.                  *)
ReadNothing(s) ==
  /\ At(s, "read")
  /\ count[s] < MaxReads
  /\ count' = [count EXCEPT ![s] = @ + 1]
  /\ waiting' = waiting \ {s}
  /\ UNCHANGED <<pool, pc, isActive, jobDone, slots, pidsM>>

ReadSection(s) ==
  /\ At(s, "read")
  /\ count[s] < MaxReads /\ s \in waiting
  /\ waiting' = waiting \ {s}
  /\ Leave(s)
  /\ UNCHANGED <<pool, jobDone, slots, pidsM>>

SetJobDone(s) ==
  /\ At(s, "finish")
  /\ jobDone' = [jobDone EXCEPT ![s] = TRUE]
  /\ Goto(s, "last")
  /\ UNCHANGED <<pool, isActive, count, slots, waiting, pidsM>>

End(s) ==
  /\ At(s, "last")
  /\ isActive' = [isActive EXCEPT ![s] = FALSE]
  /\ Goto(s, "ended")
  /\ UNCHANGED <<pool, jobDone, count, slots, waiting, pidsM>>

Scanner(s) ==
  \/ Begin(s) \/ Filtering(s)
  \/ ReadTimeout(s) \/ ReadNothing(s) \/ ReadSection(s)
  \/ SetJobDone(s) \/ End(s)

-----------------------------------------------------------------------------
(* Others open and close their filters when they like.                     *)

OtherMoves(o) ==
  /\ \/ At(o, "idle") /\ Goto(o, "open")
     \/ At(o, "read") /\ Goto(o, "close")
  /\ UNCHANGED <<pool, flags, slots, waiting, pidsM>>

Other(o) == OtherMoves(o) \/ Filtering(o)

(* A section of a PID arrives and is sent to every filter of that PID;     *)
(* what Others do with theirs is left out.                                 *)
Deliver(p) ==
  /\ p \in pidsM
  /\ waiting' = waiting \cup
       {s \in Scanners : handle[s] \in Slot /\ filtersM[handle[s]] = p}
  /\ waiting' # waiting
  /\ UNCHANGED <<pool, pc, flags, handle, filtersM, pidsM>>

Next ==
  \/ Pool \/ Stop
  \/ \E s \in Scanners : Scanner(s)
  \/ \E o \in Others : Other(o)
  \/ \E p \in Pids : Deliver(p)

Spec == Init /\ [][Next]_vars

(* The state machine and the scanners keep going; nobody has to open or    *)
(* close another filter, no section has to arrive.                         *)
FairSpec == Spec /\ WF_vars(Pool) /\ \A s \in Scanners : WF_vars(Scanner(s))

-----------------------------------------------------------------------------
(* Properties.                                                             *)

(* No scanner is refused a slot although the loop lets one more than Limit *)
(* run: the slots are enough for Limit + 1 scanners and the other filters. *)
NoneRefused ==
  \A s \in Scanners : pc[s] \in {"read", "close", "free"} => handle[s] # 0

(* As long as a filter is open its PID is in the tuner's list, so that its *)
(* section can arrive (SetPid in CloseFilter against the one in            *)
(* OpenFilter).                                                            *)
OpenIsForwarded == \A c \in Clients : At(c, "read") => PidOf[c] \in pidsM

(* When everybody is through, stopped or not, no slot and no PID is left   *)
(* behind ("pid leaking while disabling section filters", HISTORY:26).     *)
NothingLeft ==
  (\A c \in Clients : pc[c] \in {"new", "idle", "ended"})
    => pidsM = {} /\ Free = Slot

PoolSound == TypeOK /\ NoneRefused /\ NothingLeft

(* Tables are read, and PmtData used, only after every PMT scanner has     *)
(* been started and has ended.                                             *)
TablesAfterPmts == phase = "done" => \A s \in Scanners : At(s, "ended")

(* The phase ends, whether PMTs arrive or not and with any number of       *)
(* services (pool limit, timeouts, jobDone).                               *)
PhaseEnds == phase = "pool" ~> phase # "pool"
=============================================================================
