----------------------------- MODULE ScanProofs -----------------------------
(***************************************************************************)
(* Proofs about Scan, for every list of transponders and every relation    *)
(* known_transponder() may compute.  Each theorem has an inductive         *)
(* strengthening of its own; they build on one another in this order:      *)
(* types, Control, Phases, Apart.                                          *)
(***************************************************************************)
EXTENDS Scan, TLAPS

USE ScanAssumption

-----------------------------------------------------------------------------
(* Types.                                                                  *)

(* Where the threads are, relative to one another: the list has a next     *)
(* element while it is worked on, the state machine exists between its     *)
(* creation and its deletion, and main() leaves its loop only after the    *)
(* scanner's thread has cleared the pointer, or if there is no such thread.*)
Control ==
  /\ scan \in {"new", "assign", "await"} => next <= Len(List)
  /\ state \in eStates => Transponder \in Transponders
  /\ scan \in {"assign", "await"} <=> state # "none"
  /\ main = "start" => scan = "none"
  /\ main \in {"start", "assign"} => ~Scanner
  /\ main = "poll" /\ ~Scanner => scan \in {"leaving", "ended"}
  /\ main \in {"import", "stop", "unloaded"} =>
       ~Scanner /\ scan \in {"none", "leaving", "ended"}

(* Every step of the main program preserves the types.                     *)
LEMMA MainTypes == TypeOK /\ Control /\ Main => TypeOK' /\ Control'
<1> SUFFICES ASSUME TypeOK, Control, Main
             PROVE  TypeOK' /\ Control'
  OBVIOUS
<1> USE DEF TypeOK, Control, scanning, device, machine, lists, Tables, eStates
<1>1. CASE StartScan  BY <1>1 DEF StartScan
<1>2. CASE AssignScanner  BY <1>2 DEF AssignScanner
<1>3. CASE Scanning  BY <1>3 DEF Scanning
<1>4. CASE Import  BY <1>4 DEF Import
<1>5. CASE StopPlugins  BY <1>5 DEF StopPlugins
<1> QED
  BY <1>1, <1>2, <1>3, <1>4, <1>5 DEF Main

(* Every step of the scanner's thread preserves the types.                 *)
LEMMA ScannerTypes == TypeOK /\ Control /\ ScanThread => TypeOK' /\ Control'
<1> SUFFICES ASSUME TypeOK, Control, ScanThread
             PROVE  TypeOK' /\ Control'
  OBVIOUS
<1>0. Len(List) \in Nat
  OBVIOUS
<1>00. next \in 1 .. Len(List) => List[next] \in Transponders
  OBVIOUS
<1> HIDE ScanAssumption
<1> USE <1>0 DEF device, machine, lists
<1>1. CASE ScanInit
  <2>0. /\ useNit' \in BOOLEAN
        /\ next' \in 1 .. Len(List) + 1
    <3>1. useNit' \in BOOLEAN  BY <1>1, Zenon DEF ScanInit
    <3>2. next' \in 1 .. Len(List) + 1  BY <1>1, SMT DEF ScanInit
    <3> QED BY <3>1, <3>2
  <2>1. TypeOK'  BY <1>1, <2>0 DEF ScanInit, TypeOK
  <2>2. Control'  BY <1>1 DEF ScanInit, TypeOK, Control
  <2> QED BY <2>1, <2>2
<1>2. CASE ScanSkip
  <2>1. TypeOK'  BY <1>2 DEF ScanSkip, TypeOK, Control
  <2>2. Control'  BY <1>2 DEF ScanSkip, TypeOK, Control
  <2> QED BY <2>1, <2>2
<1>3. CASE ScanTune
  <2>0. /\ next' \in 1 .. Len(List) + 1
        /\ tuned' \in Transponders \cup {NoTransponder}
        /\ scan' = "new" \/ scan' = "loop"
        /\ receiver' \in BOOLEAN
    <3>1. receiver' \in BOOLEAN  BY <1>3, Zenon DEF ScanTune
    <3>2. /\ next' \in 1 .. Len(List) + 1
          /\ tuned' \in Transponders \cup {NoTransponder}
          /\ scan' = "new" \/ scan' = "loop"
      BY <1>3, <1>00 DEF ScanTune, TypeOK
    <3> QED BY <3>1, <3>2
  <2>3. UNCHANGED <<main, Scanner, shouldstop, useNit, StateMachine, state,
                    stop, Transponder, tables, Scanned, Tunable, New, Tested,
                    Channels, exported, stopper>>
    BY <1>3 DEF ScanTune
  <2>1. TypeOK'  BY <2>0, <2>3 DEF TypeOK
  <2>2. Control'  BY <1>3, <1>00 DEF ScanTune, TypeOK, Control
  <2> QED BY <2>1, <2>2
<1>4. CASE NewMachine
  <2>0. "eStart" \in eStates /\ List[next] \in Transponders
    BY <1>4, <1>00 DEF NewMachine, TypeOK, Control, eStates
  <2>1. TypeOK'  BY <1>4, <2>0 DEF NewMachine, TypeOK
  <2>2. Control'  BY <1>4, <1>00 DEF NewMachine, TypeOK, Control, eStates
  <2> QED BY <2>1, <2>2
<1>5. CASE AssignMachine
  <2>1. TypeOK'  BY <1>5 DEF AssignMachine, TypeOK, Control
  <2>2. Control'  BY <1>5 DEF AssignMachine, TypeOK, Control
  <2> QED BY <2>1, <2>2
<1>6. CASE AwaitMachine
  <2>0. next' \in 1 .. Len(List) + 1
    BY <1>6 DEF AwaitMachine, TypeOK, Control
  <2>1. TypeOK'  BY <1>6, <2>0 DEF AwaitMachine, TypeOK
  <2>2. Control'  BY <1>6 DEF AwaitMachine, TypeOK, Control, eStates
  <2> QED BY <2>1, <2>2
<1>7. CASE ScanEnd
  <2>1. TypeOK'  BY <1>7 DEF ScanEnd, TypeOK, Control
  <2>2. Control'  BY <1>7 DEF ScanEnd, TypeOK, Control
  <2> QED BY <2>1, <2>2
<1>8. CASE ScanStop
  <2>1. TypeOK'  BY <1>8 DEF ScanStop, TypeOK, Control
  <2>2. Control'  BY <1>8 DEF ScanStop, TypeOK, Control
  <2> QED BY <2>1, <2>2
<1>9. CASE ScanLeave
  <2>1. TypeOK'  BY <1>9 DEF ScanLeave, TypeOK, Control
  <2>2. Control'  BY <1>9 DEF ScanLeave, TypeOK, Control
  <2> QED BY <2>1, <2>2
<1>10. CASE ScanReturn
  <2>1. TypeOK'  BY <1>10 DEF ScanReturn, TypeOK, Control
  <2>2. Control'  BY <1>10 DEF ScanReturn, TypeOK, Control
  <2> QED BY <2>1, <2>2
<1> QED
  BY <1>1, <1>2, <1>3, <1>4, <1>5, <1>6, <1>7, <1>8, <1>9, <1>10 DEF ScanThread

(* Every step of the state machine, of a table scanner and of a caller of  *)
(* DoStop preserves the types.                                             *)
LEMMA OtherTypes ==
  /\ TypeOK /\ Control
  /\ MachineThread \/ (\E t \in Tables : TableDone(t)) \/ DoStop \/ StopMachine
  => TypeOK' /\ Control'
<1> SUFFICES ASSUME TypeOK, Control,
                    \/ MachineThread \/ \E t \in Tables : TableDone(t)
                    \/ DoStop \/ StopMachine
             PROVE  TypeOK' /\ Control'
  OBVIOUS
<1> USE DEF TypeOK, Control, device, machine, lists, scanning, other, Tables,
            eStates, In
<1>1. CASE MachineStopped  BY <1>1 DEF MachineStopped
<1>2. CASE Start  BY <1>2 DEF Start
<1>3. CASE Stop  BY <1>3 DEF Stop
<1>4. CASE Tune
  <2>1. Transponder \in Transponders \cup {NoTransponder}
    OBVIOUS
  <2> QED BY <1>4, <2>1 DEF Tune
<1>5. CASE NextTransponder  BY <1>5 DEF NextTransponder
<1>6. CASE DetachReceiver  BY <1>6 DEF DetachReceiver
<1>7. CASE ScanPat  BY <1>7 DEF ScanPat
<1>8. CASE ScanPmt  BY <1>8 DEF ScanPmt
<1>9. CASE GetTables  BY <1>9 DEF GetTables
<1>10. CASE AddChannels  BY <1>10 DEF AddChannels, Announced
<1>11. CASE \E t \in Tables : TableDone(t)  BY <1>11 DEF TableDone
<1>12. CASE DoStop  BY <1>12 DEF DoStop
<1>13. CASE StopMachine  BY <1>13 DEF StopMachine
<1> QED
  BY <1>1, <1>2, <1>3, <1>4, <1>5, <1>6, <1>7, <1>8, <1>9, <1>10, <1>11,
     <1>12, <1>13 DEF MachineThread

(* TypeOK and Control hold initially and survive every step.               *)
LEMMA TypeControl == Spec => [](TypeOK /\ Control)
<1>1. Init => TypeOK /\ Control
  <2>1. Len(List) \in Nat
    OBVIOUS
  <2>2. Init => next \in 1 .. Len(List) + 1
    BY <2>1 DEF Init
  <2>3. Init => TypeOK
    BY <2>2 DEF Init, TypeOK
  <2>4. Init => Control
    BY DEF Init, Control, eStates
  <2> QED BY <2>3, <2>4
<1>2. TypeOK /\ Control /\ [Next]_vars => TypeOK' /\ Control'
  <2>1. TypeOK /\ Control /\ UNCHANGED vars => TypeOK' /\ Control'
    BY DEF TypeOK, Control, vars
  <2> QED BY <2>1, MainTypes, ScannerTypes, OtherTypes DEF Next
<1> QED BY <1>1, <1>2, PTL DEF Spec

(* Every reachable state is well typed.                                    *)
THEOREM TypeCorrect == Spec => []TypeOK
BY TypeControl, PTL

-----------------------------------------------------------------------------
(* main() takes over a complete result: it imports after the scanner's     *)
(* thread has cleared the pointer, and nothing changes the lists then.     *)
THEOREM ImportIsComplete == Spec => []ExportComplete
<1>1. Init => ExportComplete
  BY DEF Init, ExportComplete
<1>2. TypeOK /\ Control /\ ExportComplete /\ [Next]_vars => ExportComplete'
  <2> SUFFICES ASSUME Control, ExportComplete, [Next]_vars
               PROVE  ExportComplete'
    OBVIOUS
  <2> USE DEF ExportComplete
  <2>1. CASE Main
    BY <2>1 DEF Main, StartScan, AssignScanner, Scanning, Import, StopPlugins,
       lists
  <2>2. CASE ScanInit
    BY <2>2 DEF ScanInit, Control
  <2>3. CASE ScanThread /\ ~ScanInit
    BY <2>3 DEF ScanThread, ScanSkip, ScanTune, NewMachine, AssignMachine,
       AwaitMachine, ScanEnd, ScanStop, ScanLeave, ScanReturn, lists
  <2>4. CASE AddChannels
    <3>1. main \notin {"import", "stop", "unloaded"}
      BY <2>4 DEF AddChannels, In, Control
    <3>2. main' = main
      BY <2>4 DEF AddChannels, other
    <3> QED BY <3>1, <3>2
  <2>5. CASE MachineThread /\ ~AddChannels
    BY <2>5 DEF MachineThread, MachineStopped, Start, Stop, Tune,
       NextTransponder, DetachReceiver, ScanPat, ScanPmt, GetTables, other,
       lists
  <2>6. CASE (\E t \in Tables : TableDone(t)) \/ DoStop \/ StopMachine
    BY <2>6 DEF TableDone, DoStop, StopMachine, other, lists
  <2>7. CASE UNCHANGED vars
    BY <2>7 DEF vars
  <2> QED BY <2>1, <2>2, <2>3, <2>4, <2>5, <2>6, <2>7 DEF Next
<1> QED BY <1>1, <1>2, TypeControl, PTL DEF Spec

-----------------------------------------------------------------------------
(* The table scanners.                                                     *)

Quiet == \A t \in Tables : tables[t] = "none"

ReadingStates == {"eScanPat", "eScanPmt", "eGetTables"}

(* The table scanners that may run in each state of the state machine; a   *)
(* state machine that was stopped may leave some behind, and then the      *)
(* scanner does not go on to another transponder.                          *)
Phases ==
  /\ scan \in {"none", "init", "new"} => Quiet
  /\ scan \in {"loop", "stop"} => Quiet \/ shouldstop
  /\ state \in eStates \ ReadingStates => Quiet
  /\ state = "eScanPat" => \A t \in Tables \ {"PAT"} : tables[t] = "none"
  /\ state = "eScanPmt" => \A t \in Tables \ {"PMT"} : tables[t] = "none"
  /\ state = "eGetTables" =>
       /\ \A t \in {"PAT", "PMT"} : tables[t] = "none"
       /\ tables["NIT"] = "none" <=> tables["SDT"] = "none"
  /\ state = "ended" => Quiet \/ shouldstop
  /\ stopper = "machine" => shouldstop
  /\ state \in eStates /\ stop => shouldstop
  /\ state \in ReadingStates => tuned = Transponder

(* The steps of the two controlling threads preserve Phases.               *)
LEMMA ControlPhases ==
  /\ TypeOK /\ Control /\ Phases /\ TablesOfTuned
  /\ Main \/ ScanThread \/ DoStop \/ StopMachine
  => Phases' /\ TablesOfTuned'
<1> SUFFICES ASSUME TypeOK, Control, Phases, TablesOfTuned,
                    Main \/ ScanThread \/ DoStop \/ StopMachine
             PROVE  Phases' /\ TablesOfTuned'
  OBVIOUS
<1> USE DEF Phases, TablesOfTuned, Quiet
<1>1. CASE Main
  <2>1. UNCHANGED <<state, stop, stopper, shouldstop, tuned, Transponder,
                    tables>>
    <3>1. CASE StopPlugins
      <4>1. ~Scanner  BY <3>1 DEF StopPlugins, Control
      <4>2. shouldstop' = shouldstop /\ stop' = stop
        BY <3>1, <4>1, Zenon DEF StopPlugins, TypeOK
      <4> QED BY <3>1, <4>2 DEF StopPlugins, device
    <3> QED
      BY <1>1, <3>1 DEF Main, StartScan, AssignScanner, Scanning, Import,
         device, machine, scanning
  <2>2. scan' = scan \/ (scan' = "init" /\ scan = "none")
    BY <1>1 DEF Main, StartScan, AssignScanner, Scanning, Import, StopPlugins,
       scanning, Control
  <2> QED BY <2>1, <2>2
<1>2. CASE ScanInit  BY <1>2 DEF ScanInit, device, machine
<1>3. CASE ScanSkip  BY <1>3 DEF ScanSkip, device, machine
<1>4. CASE ScanTune
  <2>1. Quiet
    BY <1>4 DEF ScanTune, ActionAllowed
  <2>2. state = "none"
    BY <1>4 DEF ScanTune, Control
  <2> QED BY <1>4, <2>1, <2>2 DEF ScanTune, machine, eStates, ReadingStates
<1>5. CASE NewMachine
  BY <1>5 DEF NewMachine, eStates, ReadingStates
<1>6. CASE AssignMachine  BY <1>6 DEF AssignMachine, device, machine
<1>7. CASE AwaitMachine
  BY <1>7 DEF AwaitMachine, eStates, ReadingStates
<1>8. CASE ScanEnd  BY <1>8 DEF ScanEnd, device, machine
<1>9. CASE ScanStop  BY <1>9 DEF ScanStop, machine
<1>10. CASE ScanLeave \/ ScanReturn
  BY <1>10 DEF ScanLeave, ScanReturn, device, machine
<1>11. CASE DoStop
  BY <1>11 DEF DoStop, device, machine, scanning
<1>12. CASE StopMachine
  BY <1>12 DEF StopMachine, device, scanning
<1> QED
  BY <1>1, <1>2, <1>3, <1>4, <1>5, <1>6, <1>7, <1>8, <1>9, <1>10, <1>11,
     <1>12 DEF ScanThread

(* The steps of the state machine and of the table scanners do.            *)
LEMMA MachinePhases ==
  /\ TypeOK /\ Control /\ Phases /\ TablesOfTuned
  /\ MachineThread \/ \E t \in Tables : TableDone(t)
  => Phases' /\ TablesOfTuned'
<1> SUFFICES ASSUME TypeOK, Control, Phases, TablesOfTuned,
                    MachineThread \/ \E t \in Tables : TableDone(t)
             PROVE  Phases' /\ TablesOfTuned'
  OBVIOUS
<1>0. tables \in [Tables -> {"none", "running", "done"}]
  BY DEF TypeOK
<1> USE DEF Phases, TablesOfTuned, Quiet, other, scanning, device
<1>a. state \in eStates => scan \in {"assign", "await"}
  BY DEF Control, eStates
<1>1. CASE MachineStopped
  BY <1>1, <1>a DEF MachineStopped, eStates, ReadingStates
<1>2. CASE Start
  BY <1>2 DEF Start, In, eStates, ReadingStates
<1>3. CASE Stop
  BY <1>3 DEF Stop, In, eStates, ReadingStates
<1>4. CASE Tune
  BY <1>4 DEF Tune, In, eStates, ReadingStates
<1>5. CASE NextTransponder
  BY <1>5 DEF NextTransponder, In, eStates, ReadingStates
<1>6. CASE DetachReceiver
  BY <1>6 DEF DetachReceiver, In, eStates, ReadingStates
<1>7. CASE ScanPat
  BY <1>7, <1>0, <1>a DEF ScanPat, In, eStates, ReadingStates, Tables
<1>8. CASE ScanPmt
  BY <1>8, <1>0, <1>a DEF ScanPmt, In, eStates, ReadingStates, Tables
<1>9. CASE GetTables
  BY <1>9, <1>0, <1>a DEF GetTables, TablesRead, In, eStates, ReadingStates,
     Tables
<1>10. CASE AddChannels
  BY <1>10 DEF AddChannels, In, eStates, ReadingStates
<1>11. ASSUME NEW t \in Tables, TableDone(t)
       PROVE  Phases' /\ TablesOfTuned'
  BY <1>11, <1>0, <1>a DEF TableDone, eStates, ReadingStates, Tables
<1> QED
  BY <1>1, <1>2, <1>3, <1>4, <1>5, <1>6, <1>7, <1>8, <1>9, <1>10, <1>11
     DEF MachineThread

(* Phases and TablesOfTuned hold together in every reachable state.        *)
LEMMA PhasesHold == Spec => [](Phases /\ TablesOfTuned)
<1>1. Init => Phases /\ TablesOfTuned
  BY DEF Init, Phases, TablesOfTuned, Quiet, eStates, ReadingStates
<1>2. TypeOK /\ Control /\ Phases /\ TablesOfTuned /\ [Next]_vars
        => Phases' /\ TablesOfTuned'
  <2>1. Phases /\ TablesOfTuned /\ UNCHANGED vars => Phases' /\ TablesOfTuned'
    BY DEF Phases, TablesOfTuned, Quiet, vars
  <2> QED BY <2>1, ControlPhases, MachinePhases DEF Next
<1> QED BY <1>1, <1>2, TypeControl, PTL DEF Spec

(* A table is read from the transponder its result is filed under.         *)
THEOREM TablesAreOfTuned == Spec => []TablesOfTuned
BY PhasesHold, PTL

(* From the import on nothing of a scan is at work, though the thread of   *)
(* the scanner may not have returned, and no table scanner is when a scan  *)
(* nobody stopped leaves its loop.                                         *)
THEOREM WorkEndsBeforeImport == Spec => []NothingAtWork
<1>1. Control /\ Phases => NothingAtWork
  BY DEF Control, Phases, Quiet, NothingAtWork
<1> QED BY <1>1, TypeControl, PhasesHold, PTL

-----------------------------------------------------------------------------
(* What is scanned.                                                        *)

Other(t, u) == <<t, u>> \notin Same

(* No transponder still to be tested is the same as t.                     *)
Fresh(t) == \A u \in New \ Tested : Other(u, t)

(* Of the transponders announced no two are the same, and none still to be *)
(* tested is the same as one already scanned or as the one that is about   *)
(* to be.                                                                  *)
Apart ==
  /\ \A t, u \in New : t # u => Other(t, u)
  /\ \A t \in Scanned : Fresh(t)
  /\ scan = "new" => Fresh(List[next])
  /\ state \in {"eStart", "eTune"} => Fresh(Transponder)
  /\ state = "eTune" => \A t \in Scanned : Other(Transponder, t)

(* A state machine starts and ends with nothing left to be tested, unless  *)
(* it was stopped or does not follow the NIT.                              *)
Exhausted ==
  (~shouldstop /\ useNit
   /\ \/ scan \in {"loop", "new", "stop"}
      \/ state \in {"eStart", "eStop", "ended"})
    => New = Tested

(* Same is symmetric.                                                      *)
LEMMA OtherSymmetric ==
  ASSUME NEW t \in Transponders, NEW u \in Transponders, Other(t, u)
  PROVE  Other(u, t)
BY DEF Other

(* The steps that leave the lists and the state of the machine alone, or   *)
(* clear them, preserve Apart.                                             *)
LEMMA ControlApart ==
  /\ TypeOK /\ Control /\ Apart
  /\ \/ Main \/ ScanThread \/ DoStop \/ StopMachine
     \/ \E t \in Tables : TableDone(t)
  => Apart'
<1> SUFFICES ASSUME TypeOK, Control, Apart,
                    \/ Main \/ ScanThread \/ DoStop \/ StopMachine
                    \/ \E t \in Tables : TableDone(t)
             PROVE  Apart'
  OBVIOUS
<1> HIDE ScanAssumption
<1> USE DEF Apart, Fresh
<1>1. CASE Main
  BY <1>1 DEF Main, StartScan, AssignScanner, Scanning, Import, StopPlugins,
     scanning, machine, lists
<1>2. CASE ScanInit
  BY <1>2 DEF ScanInit, Control, machine
<1>3. CASE ScanTune
  <2>1. UNCHANGED <<New, Tested, Scanned, state, Transponder>>
    BY <1>3 DEF ScanTune, machine, lists
  <2>2. \A u \in New : Other(u, List[next])
    <3>1. List[next] \in Transponders
      BY <1>3, ScanAssumption DEF ScanTune, TypeOK
    <3>2. \A u \in New : Other(List[next], u)
      BY <1>3 DEF ScanTune, Unknown, known_transponder, Other
    <3> QED BY <3>1, <3>2, OtherSymmetric DEF TypeOK
  <2>3. scan' = "new" => next' = next
    BY <1>3 DEF ScanTune
  <2>4. scan' = "new" => List[next]' = List[next]
    BY <2>3
  <2> QED BY <2>1, <2>2, <2>3, <2>4
<1>4. CASE NewMachine
  BY <1>4 DEF NewMachine, lists
<1>5. CASE AwaitMachine
  BY <1>5 DEF AwaitMachine, lists
<1>6. CASE \/ ScanSkip \/ AssignMachine \/ ScanEnd \/ ScanStop \/ ScanLeave
           \/ ScanReturn
  BY <1>6 DEF ScanSkip, AssignMachine, ScanEnd, ScanStop, ScanLeave,
     ScanReturn, machine, lists
<1>7. CASE DoStop \/ StopMachine \/ \E t \in Tables : TableDone(t)
  BY <1>7 DEF DoStop, StopMachine, TableDone, machine, lists, scanning, other
<1> QED BY <1>1, <1>2, <1>3, <1>4, <1>5, <1>6, <1>7 DEF ScanThread

(* The steps of the state machine preserve Apart.                          *)
LEMMA MachineApart == TypeOK /\ Control /\ Apart /\ MachineThread => Apart'
<1> SUFFICES ASSUME TypeOK, Control, Apart, MachineThread
             PROVE  Apart'
  OBVIOUS
<1>0. state \in eStates => scan # "new" /\ Transponder \in Transponders
  BY DEF Control, eStates
<1> HIDE ScanAssumption
<1> USE DEF Apart, Fresh
<1>1. CASE MachineStopped \/ Stop \/ DetachReceiver
  BY <1>1 DEF MachineStopped, Stop, DetachReceiver, In, other, scanning, lists
<1>2. CASE Start
  BY <1>2 DEF Start, In, known_transponder, Other, other, scanning, lists
<1>3. CASE Tune
  <2>1. state = "eTune" /\ state' \notin {"eStart", "eTune"} /\ scan # "new"
    BY <1>3, <1>0 DEF Tune, In, eStates
  <2>2. /\ Scanned' = Scanned \cup {Transponder}
        /\ UNCHANGED <<New, Tested, scan>>
    BY <1>3 DEF Tune, other, scanning
  <2> QED BY <2>1, <2>2
<1>4. CASE NextTransponder
  <2>1. /\ state = "eNextTransponder" /\ scan' = scan /\ scan # "new"
        /\ UNCHANGED <<New, Scanned>>
    BY <1>4, <1>0 DEF NextTransponder, In, eStates, other, scanning
  <2>2. CASE Tested' = Tested /\ state' \notin {"eStart", "eTune"}
    BY <2>1, <2>2
  <2>3. ASSUME NEW t \in New \ Tested, Transponder' = t,
               Tested' = Tested \cup {t}, state' = "eTune"
        PROVE  Apart'
    <3>1. \A u \in New \ Tested' : u # t
      BY <2>3
    <3>2. \A u \in Scanned : Other(t, u)
      OBVIOUS
    <3> QED BY <2>1, <2>3, <3>1, <3>2
  <2> QED BY <1>4, <2>2, <2>3 DEF NextTransponder
<1>5. CASE ScanPat \/ ScanPmt \/ GetTables
  BY <1>5 DEF ScanPat, ScanPmt, GetTables, In, other, scanning, lists
<1>6. CASE AddChannels
  <2>1. PICK added \in SUBSET Transponders :
          /\ \A t \in added : Unknown(t, Alike)
          /\ \A t, u \in added : <<t, u>> \in Alike => t = u
          /\ New' = New \cup added
    BY <1>6 DEF AddChannels, Announced
  <2>2. /\ state' = "eDetachReceiver" /\ scan' = scan /\ scan # "new"
        /\ UNCHANGED <<Scanned, Tested>>
    BY <1>6, <1>0 DEF AddChannels, In, eStates, other, scanning
  <2>3. \A t \in added, u \in New \cup Scanned : Other(t, u)
    BY <2>1, ScanAssumption DEF Unknown, known_transponder, Other
  <2>4. \A t \in added, u \in New : Other(u, t)
    BY <2>3, OtherSymmetric DEF TypeOK
  <2>5. \A t, u \in added : t # u => Other(t, u)
    BY <2>1, ScanAssumption DEF Other
  <2> QED BY <2>1, <2>2, <2>3, <2>4, <2>5
<1> QED BY <1>1, <1>2, <1>3, <1>4, <1>5, <1>6 DEF MachineThread

(* No transponder is scanned a second time.                                *)
THEOREM ScannedOnce == Spec => []NeverScannedTwice
<1>1. Init => Apart
  BY DEF Init, Apart, Fresh
<1>2. TypeOK /\ Control /\ Apart /\ [Next]_vars => Apart'
  <2>1. Apart /\ UNCHANGED vars => Apart'
    BY DEF Apart, Fresh, vars
  <2> QED BY <2>1, ControlApart, MachineApart DEF Next
<1>3. Apart => NeverScannedTwice
  BY DEF Apart, NeverScannedTwice, In, known_transponder, Other
<1> QED BY <1>1, <1>2, <1>3, TypeControl, PTL DEF Spec

(* A scan nobody stopped has tried every transponder announced.            *)
THEOREM AllAnnouncedTried == Spec => []NothingUntested
<1>1. Init => Exhausted
  BY DEF Init, Exhausted
<1>2. TypeOK /\ Control /\ Phases /\ Exhausted /\ [Next]_vars => Exhausted'
  <2> SUFFICES ASSUME TypeOK, Control, Phases, Exhausted, [Next]_vars
               PROVE  Exhausted'
    OBVIOUS
  <2> HIDE ScanAssumption
  <2> USE DEF Exhausted
  <2>1. CASE Main
    <3>1. UNCHANGED <<state, useNit, New, Tested>>
      BY <2>1 DEF Main, StartScan, AssignScanner, Scanning, Import,
         StopPlugins, scanning, machine, lists
    <3>2. scan' = scan \/ scan' = "init"
      BY <2>1 DEF Main, StartScan, AssignScanner, Scanning, Import,
         StopPlugins, scanning
    <3>3. ~shouldstop' => ~shouldstop
      BY <2>1, Zenon DEF Main, StartScan, AssignScanner, Scanning, Import,
         StopPlugins
    <3> QED BY <3>1, <3>2, <3>3
  <2>2. CASE ScanInit  BY <2>2 DEF ScanInit
  <2>3. CASE ScanSkip \/ ScanTune \/ ScanEnd
    BY <2>3 DEF ScanSkip, ScanTune, ScanEnd, machine, lists
  <2>4. CASE NewMachine
    BY <2>4 DEF NewMachine, lists
  <2>5. CASE AwaitMachine
    BY <2>5 DEF AwaitMachine, lists
  <2>6. CASE AssignMachine \/ ScanStop \/ ScanLeave \/ ScanReturn
    BY <2>6 DEF AssignMachine, ScanStop, ScanLeave, ScanReturn, machine, lists
  <2>7. CASE MachineStopped
    BY <2>7 DEF MachineStopped, other, Phases, lists
  <2>8. CASE Start \/ Stop
    BY <2>8 DEF Start, Stop, In, other, scanning, lists
  <2>9. CASE NextTransponder
    <3>1. state = "eNextTransponder" /\ scan \in {"assign", "await"}
      BY <2>9 DEF NextTransponder, In, Control
    <3> QED BY <2>9, <3>1 DEF NextTransponder, other, scanning
  <2>10. CASE Tune \/ DetachReceiver \/ ScanPat \/ ScanPmt \/ GetTables
              \/ AddChannels
    <3>1. scan \in {"assign", "await"} /\ scan' = scan
      BY <2>10 DEF Tune, DetachReceiver, ScanPat, ScanPmt, GetTables,
         AddChannels, In, other, scanning, Control
    <3>2. state' \notin {"eStart", "eStop", "ended"}
      BY <2>10 DEF Tune, DetachReceiver, ScanPat, ScanPmt, GetTables,
         AddChannels, In
    <3> QED BY <3>1, <3>2
  <2>11. CASE (\E t \in Tables : TableDone(t)) \/ DoStop \/ StopMachine
    BY <2>11 DEF TableDone, DoStop, StopMachine, other, scanning, machine,
       lists
  <2>12. CASE UNCHANGED vars
    BY <2>12 DEF vars
  <2> QED
    BY <2>1, <2>2, <2>3, <2>4, <2>5, <2>6, <2>7, <2>8, <2>9, <2>10, <2>11,
       <2>12 DEF Next, ScanThread, MachineThread
<1>3. Exhausted => NothingUntested
  BY DEF Exhausted, NothingUntested
<1> QED BY <1>1, <1>2, <1>3, TypeControl, PhasesHold, PTL DEF Spec
=============================================================================
