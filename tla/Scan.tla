-------------------------------- MODULE Scan --------------------------------
(***************************************************************************)
(* One scan of w_scan_cpp: main(), which starts the scan and polls for its *)
(* end (main.cpp, ScanControl.cpp, menusetup.cpp), the thread of cScanner, *)
(* which walks the list of initial transponders (scanner.cpp), the thread  *)
(* of cStateMachine, which scans one of them and every transponder its NIT *)
(* announces (statemachine.cpp), the threads that read PAT, PMT, NIT and   *)
(* SDT (scanfilter.cpp), and a caller of DoStop().                         *)
(*                                                                         *)
(* A lock, the contents of a NIT and the end of a table scanner, which is  *)
(* bounded by its timeouts, are free choices.  One iteration of the state  *)
(* machine is one step: of what it reads, only `stop' is written by others *)
(* and it is tested at the top of the loop.                                *)
(***************************************************************************)
EXTENDS Naturals, Sequences

CONSTANTS
  Transponders,   \* what can be tuned to: a frequency with its parameters
  List,           \* the initial transponders of the scan type, in order
  Same,           \* pairs known_transponder() takes for one (auto false)
  Alike,          \* the same with auto_allowed
  Twin,           \* pairs it takes for one if the second had a lock: T and T2
  MayStop,        \* somebody may call DoStop()
  NoTransponder   \* no transponder yet

ASSUME ScanAssumption ==
  /\ List \in Seq(Transponders)
  /\ Same \subseteq Alike
  /\ Alike \subseteq Transponders \X Transponders
  /\ Twin \subseteq Transponders \X Transponders
  /\ \A t \in Transponders : <<t, t>> \in Same
  /\ \A r \in {Same, Alike}, t, u \in Transponders :
       <<t, u>> \in r => <<u, t>> \in r
  /\ MayStop \in BOOLEAN
  /\ NoTransponder \notin Transponders

VARIABLES
  main,           \* place of main()
  Scanner,        \* the global pointer Scanner is set
  scan,           \* place of the thread of cScanner
  shouldstop,     \* cScanner::shouldstop
  useNit,         \* follow the transponders the NIT announces
  StateMachine,   \* the pointer cScanner::StateMachine is set
  next,           \* the transponder of List the loop is at
  tuned,          \* what the device is tuned to
  state,          \* the state of cStateMachine, "none" or "ended"
  stop,           \* cStateMachine::stop
  Transponder,    \* the transponder the state machine is working on
  receiver,       \* a cScanReceiver is attached to the device
  tables,         \* the table scanners: "none", "running" or "done"
  Scanned,        \* ScannedTransponders
  Tunable,        \* those of Scanned whose Tunable is set
  New,            \* NewTransponders
  Tested,         \* those of New whose Tested is set
  Channels,       \* transponders whose services are in NewChannels
  exported,       \* what main() got from Import()
  stopper         \* place of the caller inside SetShouldstop()

lists    == <<Scanned, Tunable, New, Tested, Channels>>
device   == <<tuned, receiver>>
machine  == <<state, stop, Transponder, tables>>
scanning == <<scan, StateMachine, next, useNit>>
vars     == <<main, Scanner, scan, shouldstop, useNit, StateMachine, next,
              tuned, state, stop, Transponder, receiver, tables, Scanned,
              Tunable, New, Tested, Channels, exported, stopper>>

-----------------------------------------------------------------------------

eStates == {"eStart", "eStop", "eTune", "eNextTransponder",
            "eDetachReceiver", "eScanPat", "eScanPmt", "eGetTables",
            "eAddChannels"}

Tables == {"PAT", "PMT", "NIT", "SDT"}

TypeOK ==
  /\ main \in {"start", "assign", "poll", "import", "stop", "unloaded"}
  /\ Scanner \in BOOLEAN
  /\ scan \in {"none", "init", "loop", "new", "assign", "await", "stop",
               "leave", "leaving", "ended", "returned"}
  /\ shouldstop \in BOOLEAN
  /\ useNit \in BOOLEAN
  /\ StateMachine \in BOOLEAN
  /\ next \in 1 .. Len(List) + 1
  /\ tuned \in Transponders \cup {NoTransponder}
  /\ state \in eStates \cup {"none", "ended"}
  /\ stop \in BOOLEAN
  /\ Transponder \in Transponders \cup {NoTransponder}
  /\ receiver \in BOOLEAN
  /\ tables \in [Tables -> {"none", "running", "done"}]
  /\ Scanned \subseteq Transponders
  /\ Tunable \subseteq Transponders
  /\ New \subseteq Transponders
  /\ Tested \subseteq New
  /\ Channels \subseteq Transponders
  /\ exported \subseteq Transponders
  /\ stopper \in {"none", "machine"}

Init ==
  /\ main = "start"
  /\ Scanner = FALSE
  /\ scan = "none"
  /\ shouldstop = FALSE
  /\ useNit = TRUE
  /\ StateMachine = FALSE
  /\ next = 1
  /\ tuned = NoTransponder
  /\ state = "none"
  /\ stop = FALSE
  /\ Transponder = NoTransponder
  /\ receiver = FALSE
  /\ tables = [t \in Tables |-> "none"]
  /\ Scanned = {} /\ Tunable = {} /\ New = {} /\ Tested = {} /\ Channels = {}
  /\ exported = {}
  /\ stopper = "none"

(* known_transponder(t, auto_allowed, list): only the entries of           *)
(* ScannedTransponders are ever tunable.                                   *)
known_transponder(t, rel, list) ==
  \E u \in list : <<t, u>> \in rel \/ (<<t, u>> \in Twin /\ u \in Tunable)

-----------------------------------------------------------------------------
(* main()                                                                  *)

(* StartScan: DoScan finds no device, or creates a cScanner, whose         *)
(* constructor starts the thread before the pointer is assigned.           *)
StartScan ==
  /\ main = "start"
  /\ \/ main' = "import" /\ UNCHANGED scan
     \/ main' = "assign" /\ scan' = "init"
  /\ UNCHANGED <<Scanner, shouldstop, useNit, StateMachine, next, device,
                 machine, lists, exported, stopper>>

AssignScanner ==
  /\ main = "assign"
  /\ Scanner' = TRUE
  /\ main' = "poll"
  /\ UNCHANGED <<scanning, shouldstop, device, machine, lists, exported,
                 stopper>>

(* while (Continue): the status is StatusScanning as long as Scanner is    *)
(* set.                                                                    *)
Scanning ==
  /\ main = "poll"
  /\ ~Scanner
  /\ main' = "import"
  /\ UNCHANGED <<Scanner, scanning, shouldstop, device, machine, lists,
                 exported, stopper>>

Import ==
  /\ main = "import"
  /\ exported' = Channels
  /\ main' = "stop"
  /\ UNCHANGED <<Scanner, scanning, shouldstop, device, machine, lists,
                 stopper>>

(* Stop() of the plugins (stopScanners), then UnloadLibraries.             *)
StopPlugins ==
  /\ main = "stop"
  /\ shouldstop' = (shouldstop \/ Scanner)
  /\ stop' = (stop \/ (Scanner /\ StateMachine))
  /\ main' = "unloaded"
  /\ UNCHANGED <<Scanner, scanning, device, state, Transponder, tables, lists,
                 exported, stopper>>

Main == StartScan \/ AssignScanner \/ Scanning \/ Import \/ StopPlugins

-----------------------------------------------------------------------------
(* The thread of cScanner.                                                 *)

(* resetLists and GetPreferredDevice: without a device Action() returns.   *)
(* Only the scan of a single transponder may be told not to follow NITs.   *)
ScanInit ==
  /\ scan = "init"
  /\ scan' \in {"loop", "returned"}
  /\ Scanned' = {} /\ Tunable' = {}
  /\ New' = {} /\ Tested' = {} /\ Channels' = {}
  /\ next' = 1
  /\ useNit' \in IF Len(List) = 1 THEN BOOLEAN ELSE {TRUE}
  /\ UNCHANGED <<main, Scanner, shouldstop, StateMachine, device, machine,
                 exported, stopper>>

(* Running(): the promise is not fulfilled before Cancel().                *)
Running == scan \notin {"none", "leave", "leaving", "ended"}

ActionAllowed == Running /\ ~shouldstop

Unknown(t, rel) == ~known_transponder(t, rel, New \cup Scanned)

ScanSkip ==
  /\ scan = "loop" /\ next <= Len(List) /\ ActionAllowed
  /\ ~Unknown(List[next], Same)
  /\ next' = next + 1
  /\ UNCHANGED <<main, Scanner, scan, shouldstop, useNit, StateMachine, device,
                 machine, lists, exported, stopper>>

(* SwitchChannel and HasLock.                                              *)
ScanTune ==
  /\ scan = "loop" /\ next <= Len(List) /\ ActionAllowed
  /\ Unknown(List[next], Same)
  /\ tuned' = List[next]
  /\ \/ scan' = "new" /\ UNCHANGED next
     \/ scan' = "loop" /\ next' = next + 1
  /\ receiver' = FALSE
  /\ UNCHANGED <<main, Scanner, shouldstop, useNit, StateMachine, machine,
                 lists, exported, stopper>>

(* new cStateMachine: its constructor starts the thread.                   *)
NewMachine ==
  /\ scan = "new"
  /\ state' = "eStart"
  /\ stop' = FALSE
  /\ Transponder' = List[next]
  /\ scan' = "assign"
  /\ UNCHANGED <<main, Scanner, shouldstop, useNit, StateMachine, next, device,
                 tables, lists, exported, stopper>>

AssignMachine ==
  /\ scan = "assign"
  /\ StateMachine' = TRUE
  /\ scan' = "await"
  /\ UNCHANGED <<main, Scanner, shouldstop, useNit, next, device, machine,
                 lists, exported, stopper>>

(* Mutant: the loop goes on while the state machine is still active.       *)
AwaitMachineNot ==
  /\ scan = "await"
  /\ StateMachine' = FALSE
  /\ receiver' = FALSE
  /\ next' = next + 1
  /\ scan' = "loop"
  /\ UNCHANGED <<main, Scanner, shouldstop, useNit, tuned, machine, lists,
                 exported, stopper>>

(* while (Active()) sleep, delete it, DetachAllReceivers.                  *)
AwaitMachine ==
  /\ scan = "await"
  /\ state = "ended"
  /\ state' = "none"
  /\ StateMachine' = FALSE
  /\ receiver' = FALSE
  /\ next' = next + 1
  /\ scan' = "loop"
  /\ UNCHANGED <<main, Scanner, shouldstop, useNit, tuned, stop, Transponder,
                 tables, lists, exported, stopper>>

ScanEnd ==
  /\ scan = "loop"
  /\ next > Len(List) \/ ~ActionAllowed
  /\ scan' = "stop"
  /\ UNCHANGED <<main, Scanner, shouldstop, useNit, StateMachine, next, device,
                 machine, lists, exported, stopper>>

(* stop: AddChannels, DetachAllReceivers, SetShouldstop, Cancel.           *)
ScanStop ==
  /\ scan = "stop"
  /\ receiver' = FALSE
  /\ shouldstop' = TRUE
  /\ scan' = "leave"
  /\ UNCHANGED <<main, Scanner, useNit, StateMachine, next, tuned, machine,
                 lists, exported, stopper>>

(* The last statement of Action().  The thread still has to return from it.*)
ScanLeave ==
  /\ scan = "leave"
  /\ Scanner' = FALSE
  /\ scan' = "leaving"
  /\ UNCHANGED <<main, shouldstop, useNit, StateMachine, next, device, machine,
                 lists, exported, stopper>>

(* Nobody joins the thread: the only destructor that would is never called.*)
ScanReturn ==
  /\ scan = "leaving"
  /\ scan' = "ended"
  /\ UNCHANGED <<main, Scanner, shouldstop, useNit, StateMachine, next, device,
                 machine, lists, exported, stopper>>

ScanThread ==
  \/ ScanInit \/ ScanSkip \/ ScanTune \/ NewMachine \/ AssignMachine
  \/ AwaitMachine \/ ScanEnd \/ ScanStop \/ ScanLeave
  \/ ScanReturn

-----------------------------------------------------------------------------
(* The thread of cStateMachine.  The results of the caller's DoStop are    *)
(* seen at the top of the loop only.                                       *)

other == <<main, Scanner, scanning, shouldstop, exported, stopper>>

MachineStopped ==
  /\ state \in eStates /\ stop
  /\ state' = "ended"
  /\ UNCHANGED <<other, device, stop, Transponder, tables, lists>>

In(s) == state = s /\ ~stop

Start ==
  /\ In("eStart")
  /\ state' = IF known_transponder(Transponder, Same, Scanned)
              THEN "eStop" ELSE "eTune"
  /\ UNCHANGED <<other, device, stop, Transponder, tables, lists>>

Stop ==
  /\ In("eStop")
  /\ stop' = TRUE
  /\ state' = "ended"
  /\ UNCHANGED <<other, device, Transponder, tables, lists>>

(* SwitchChannel, AttachReceiver, HasLock; Detach without a lock.          *)
Tune ==
  /\ In("eTune")
  /\ tuned' = Transponder
  /\ \/ /\ receiver' = TRUE
        /\ Tunable' = Tunable \cup {Transponder}
        /\ state' = "eScanPat"
     \/ /\ receiver' = FALSE
        /\ UNCHANGED Tunable
        /\ state' = "eNextTransponder"
  /\ Scanned' = Scanned \cup {Transponder}
  /\ UNCHANGED <<other, stop, Transponder, tables, New, Tested, Channels>>

(* Mutant: the transponder taken from the list is not marked.              *)
NextTransponderUnmarked ==
  /\ In("eNextTransponder")
  /\ \/ /\ ~useNit
        /\ state' = "ended"
        /\ UNCHANGED Transponder
     \/ /\ useNit /\ New = Tested
        /\ state' = "eStop"
        /\ UNCHANGED Transponder
     \/ /\ useNit
        /\ Transponder' \in New \ Tested
        /\ state' = "eTune"
  /\ UNCHANGED <<other, device, stop, tables, lists>>

(* The first one of New that is not tested; its place in the list is where *)
(* some NIT announced it, and left open.                                   *)
NextTransponder ==
  /\ In("eNextTransponder")
  /\ \/ /\ ~useNit
        /\ state' = "ended"
        /\ UNCHANGED <<Transponder, Tested>>
     \/ /\ useNit /\ New = Tested
        /\ state' = "eStop"
        /\ UNCHANGED <<Transponder, Tested>>
     \/ /\ useNit
        /\ \E t \in New \ Tested :
             /\ Transponder' = t
             /\ Tested' = Tested \cup {t}
        /\ state' = "eTune"
  /\ UNCHANGED <<other, device, stop, tables, Scanned, Tunable, New, Channels>>

(* Mutant: after the first transponder the state machine stops.            *)
DetachReceiverStops ==
  /\ In("eDetachReceiver")
  /\ receiver' = FALSE
  /\ state' = "eStop"
  /\ UNCHANGED <<other, tuned, stop, Transponder, tables, lists>>

DetachReceiver ==
  /\ In("eDetachReceiver")
  /\ receiver' = FALSE
  /\ state' = "eNextTransponder"
  /\ UNCHANGED <<other, tuned, stop, Transponder, tables, lists>>

ScanPat ==
  /\ In("eScanPat")
  /\ \/ /\ tables["PAT"] = "none"
        /\ tables' = [tables EXCEPT !["PAT"] = "running"]
        /\ UNCHANGED state
     \/ /\ tables["PAT"] = "done"
        /\ tables' = [tables EXCEPT !["PAT"] = "none"]
        /\ state' \in {"eDetachReceiver", "eScanPmt"}
  /\ UNCHANGED <<other, device, stop, Transponder, lists>>

(* All the PMT scanners together.                                          *)
ScanPmt ==
  /\ In("eScanPmt")
  /\ \/ /\ tables["PMT"] = "none"
        /\ tables' = [tables EXCEPT !["PMT"] = "running"]
        /\ UNCHANGED state
     \/ /\ tables["PMT"] = "done"
        /\ tables' = [tables EXCEPT !["PMT"] = "none"]
        /\ state' = "eGetTables"
  /\ UNCHANGED <<other, device, stop, Transponder, lists>>

(* Mutant: one of NIT and SDT is enough to go on.                          *)
TablesReadOne == \E t \in {"NIT", "SDT"} : tables[t] = "done"

TablesRead == \A t \in {"NIT", "SDT"} : tables[t] = "done"

GetTables ==
  /\ In("eGetTables")
  /\ \/ /\ tables["NIT"] = "none"
        /\ tables' = [tables EXCEPT !["NIT"] = "running", !["SDT"] = "running"]
        /\ UNCHANGED state
     \/ /\ TablesRead
        /\ tables' = [t \in Tables |->
                        IF tables[t] = "done" THEN "none" ELSE tables[t]]
        /\ state' = "eAddChannels"
  /\ UNCHANGED <<other, device, stop, Transponder, lists>>

(* Mutant: a transponder is new unless NewTransponders has it already.     *)
AnnouncedUnlessNew(nit, added) ==
  /\ added \subseteq nit
  /\ \A t \in added : ~known_transponder(t, Alike, New)
  /\ \A t, u \in added : <<t, u>> \in Alike => t = u
  /\ \A t \in nit \ added : known_transponder(t, Alike, New \cup added)

(* What the transponders a NIT announces, taken in some order, add to New: *)
(* each one that is not alike to a known one or to one added before it.    *)
Announced(nit, added) ==
  /\ added \subseteq nit
  /\ \A t \in added : Unknown(t, Alike)
  /\ \A t, u \in added : <<t, u>> \in Alike => t = u
  /\ \A t \in nit \ added :
       known_transponder(t, Alike, New \cup Scanned \cup added)

(* Mutant: the transponders of this NIT replace those announced before.    *)
AddChannelsReplaces ==
  /\ In("eAddChannels")
  /\ Channels' = Channels \cup {Transponder}
  /\ \E nit \in SUBSET Transponders, added \in SUBSET Transponders :
       /\ Announced(nit, added)
       /\ New' = added
  /\ state' = "eDetachReceiver"
  /\ UNCHANGED <<other, device, stop, Transponder, tables, Scanned, Tunable,
                 Tested>>

AddChannels ==
  /\ In("eAddChannels")
  /\ Channels' = Channels \cup {Transponder}
  /\ \E nit \in SUBSET Transponders, added \in SUBSET Transponders :
       /\ Announced(nit, added)
       /\ New' = New \cup added
  /\ state' = "eDetachReceiver"
  /\ UNCHANGED <<other, device, stop, Transponder, tables, Scanned, Tunable,
                 Tested>>

MachineThread ==
  \/ MachineStopped \/ Start \/ Stop \/ Tune \/ NextTransponder
  \/ DetachReceiver \/ ScanPat \/ ScanPmt \/ GetTables \/ AddChannels

(* A table scanner has read its table or runs into its timeout.            *)
TableDone(t) ==
  /\ tables[t] = "running"
  /\ tables' = [tables EXCEPT ![t] = "done"]
  /\ UNCHANGED <<other, device, state, stop, Transponder, lists>>

-----------------------------------------------------------------------------
(* DoStop: SetShouldstop sets the flag of the scanner, looks at the        *)
(* pointer and then sets the flag of the state machine, if it still lives. *)

DoStop ==
  /\ MayStop
  /\ Scanner /\ Running /\ stopper = "none"
  /\ shouldstop' = TRUE
  /\ stopper' = IF StateMachine THEN "machine" ELSE "none"
  /\ UNCHANGED <<main, Scanner, scanning, device, machine, lists, exported>>

StopMachine ==
  /\ stopper = "machine"
  /\ stop' = (stop \/ StateMachine)
  /\ stopper' = "none"
  /\ UNCHANGED <<main, Scanner, scanning, shouldstop, device, state,
                 Transponder, tables, lists, exported>>

Next ==
  \/ Main \/ ScanThread \/ MachineThread
  \/ \E t \in Tables : TableDone(t)
  \/ DoStop \/ StopMachine

Spec == Init /\ [][Next]_vars

(* Every thread that can go on does; every table scanner ends, its loop    *)
(* counts its waits.  Nobody has to call DoStop.                           *)
FairSpec ==
  /\ Spec
  /\ WF_vars(Main) /\ WF_vars(ScanThread) /\ WF_vars(MachineThread)
  /\ \A t \in Tables : WF_vars(TableDone(t))
  /\ WF_vars(StopMachine)

-----------------------------------------------------------------------------
(* Properties.                                                             *)

(* No transponder is scanned a second time, although the scanner's list    *)
(* and the NITs of several transponders announce it (known_transponder in  *)
(* cScanner, in eStart and in eAddChannels).  Of two that are twins the    *)
(* second is scanned when both were announced before the first had a lock. *)
NeverScannedTwice ==
  In("eTune") => \A t \in Scanned : <<Transponder, t>> \notin Same

(* While a table is read, the device stays at the transponder the result   *)
(* is filed under (SwitchChannel in two threads, Active of four scanners). *)
TablesOfTuned ==
  (\E t \in Tables : tables[t] = "running") => tuned = Transponder

(* Import, which takes no lock, comes after the last change of the results *)
(* (Scanner is cleared by the scanner's thread, polled by main).           *)
ExportComplete == main \in {"stop", "unloaded"} => exported = Channels

(* A scan nobody stopped has tried every transponder a NIT announced, once *)
(* the scanner leaves its loop (eNextTransponder, eStop).                  *)
NothingUntested == (scan = "stop" /\ ~shouldstop /\ useNit) => New = Tested

(* From the import on, the state machine is gone, and the thread of the    *)
(* scanner has nothing left to do but to return.  If nobody stopped the    *)
(* scan, so were all table scanners when the scanner's loop was left, after*)
(* which none is started (Active, Join, Scanner).                          *)
NothingAtWork ==
  /\ main \in {"import", "stop", "unloaded"} =>
       scan \in {"none", "leaving", "ended"} /\ state = "none"
  /\ scan = "stop" /\ ~shouldstop =>
       state = "none" /\ \A t \in Tables : tables[t] = "none"

(* A scan under way, that main() knows of, ends and lets main() end, with  *)
(* any number of announced transponders and stopped or not.                *)
ScanTerminates == (scan = "loop" /\ Scanner) ~> main = "unloaded"

(* "No device available - exiting!" (scanner.cpp:308).                     *)
NoDeviceExits == scan = "returned" ~> main = "unloaded"

(* "Stop any background activities the plugin shall perform."              *)
(* (wirbelscan.cpp:71): the threads of the plugin have ended when its code *)
(* is unloaded.                                                            *)
UnloadAfterThreads ==
  main = "unloaded" =>
    /\ scan \in {"none", "ended"} /\ state = "none"
    /\ \A t \in Tables : tables[t] # "running"

(* S_STOP, "Stop scan(s) (if any)" (wirbelscan.cpp:363): once it has been  *)
(* carried out, no state machine goes on unaware of it.                    *)
StopReachesMachine ==
  (shouldstop /\ stopper = "none" /\ state \in eStates) => stop

(* "cleanup and leave loop" (statemachine.h:23): a state machine that has  *)
(* ended left no receiver attached and no table scanner running.           *)
LeavesClean ==
  state = "ended" => ~receiver /\ \A t \in Tables : tables[t] = "none"
=============================================================================
