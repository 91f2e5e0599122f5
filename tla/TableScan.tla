----------------------------- MODULE TableScan -----------------------------
(***************************************************************************)
(* What a scan makes of the tables of the transponders it tunes to: the    *)
(* PAT scanner with its synchronisation, the PMT, NIT and SDT scanners     *)
(* (scanfilter.cpp), and what the states eScanPat, eScanPmt, eGetTables    *)
(* and eAddChannels of the state machine do with the results               *)
(* (statemachine.cpp).  Module Scan takes all of this for free choices.    *)
(*                                                                         *)
(* A table is broadcast section by section, again and again.  A scanner    *)
(* begins at any of its sections and may lose some; its timeout may come   *)
(* at any time.  The text and the parameters of services and transponders  *)
(* are left out: a service is its id, its name the transponder it is from. *)
(***************************************************************************)
EXTENDS Integers, Sequences, FiniteSets

CONSTANTS
  Muxes,          \* transponders
  Initial,        \* the one the state machine is started with
  Services,       \* service ids
  Tid,            \* Tid[m]: its transport_stream_id
  Pat, Nit, Sdt,  \* [m][n]: services or transponders in section n of a table
  PmtPid,         \* PmtPid[m][s]: the program_map_PID of a service
  NitInPat,       \* transponders whose PAT names the network_PID
  AV,             \* AV[m]: services with audio or video
  MaxLost,        \* sections lost on one transponder
  None

Tids   == {Tid[m] : m \in Muxes}
Tables == {"PAT", "NIT", "SDT"}
Sections(t, m) == CASE t = "PAT" -> Pat[m] [] t = "NIT" -> Nit[m]
                    [] OTHER -> Sdt[m]
AllOf(sections) == UNION {sections[n] : n \in DOMAIN sections}

ASSUME TableAssumption ==
  /\ Initial \in Muxes
  /\ \A m \in Muxes :
       /\ Pat[m] \in Seq(SUBSET Services) /\ Pat[m] # <<>>
       /\ Sdt[m] \in Seq(SUBSET Services)
       /\ Nit[m] \in Seq(SUBSET Muxes)
       /\ AV[m] \subseteq AllOf(Pat[m])
  /\ MaxLost \in Nat
  /\ None \notin Muxes \cup Services

VARIABLES
  phase,          \* state of the state machine
  mux,            \* Transponder
  active,         \* scanners at work
  pos,            \* the section of a table that is broadcast next
  synced, flags,  \* PatSync: synced, sections
  hasPAT,
  PatData,        \* services and network_PID of the PAT
  PmtData,        \* the service whose PMT the scanner for a service took
  pending,        \* the services whose PMT scanner has not finished
  first,          \* first_crc32: the first section of NIT and SDT taken
  SdtData,        \* the first service with a TID and a SID: its transponder
  transport_streams,  \* NitData.transport_streams
  New, Scanned,   \* NewTransponders, ScannedTransponders
  NewChannels,
  lost,           \* sections lost on the transponder
  disturbed       \* transponders with a loss or a timeout

patVars  == <<synced, flags, hasPAT, PatData>>
lists    == <<New, Scanned, NewChannels>>
vars == <<phase, mux, active, pos, patVars, PmtData, pending, first, SdtData,
          transport_streams, lists, lost, disturbed>>

Channel == [mux : Muxes, sid : Services, name : Muxes \cup {None}]

TypeOK ==
  /\ phase \in {"next", "pat", "pmt", "tables"}
  /\ mux \in Muxes
  /\ active \subseteq Tables
  /\ pos \in [Tables -> Nat] /\ first \in [Tables -> Nat]
  /\ synced \in BOOLEAN /\ hasPAT \in BOOLEAN
  /\ flags \subseteq DOMAIN Pat[mux]
  /\ PatData.services \subseteq AllOf(Pat[mux])
  /\ pending \subseteq PatData.services
  /\ SdtData \in [Tids \X Services -> Muxes \cup {None}]
  /\ transport_streams \subseteq Muxes
  /\ New \subseteq Muxes /\ Scanned \subseteq New
  /\ NewChannels \subseteq Channel
  /\ lost \in 0..MaxLost
  /\ disturbed \subseteq Scanned

Init ==
  /\ phase = "next" /\ mux = Initial
  /\ active = {}
  /\ pos = [t \in Tables |-> 0] /\ first = [t \in Tables |-> 0]
  /\ synced = FALSE /\ flags = {} /\ hasPAT = FALSE
  /\ PatData = [services |-> {}, network |-> FALSE]
  /\ PmtData = <<>> /\ pending = {}
  /\ SdtData = [k \in Tids \X Services |-> None]
  /\ transport_streams = {}
  /\ New = {Initial} /\ Scanned = {} /\ NewChannels = {}
  /\ lost = 0 /\ disturbed = {}

-----------------------------------------------------------------------------
(* Broadcast.                                                              *)

(* Any section may be the first a filter delivers.                         *)
Start(ts, m) == {p \in [ts -> 0..Cardinality(Muxes) + Cardinality(Services)] :
                   \A t \in ts : IF Sections(t, m) = <<>> THEN p[t] = 0
                                 ELSE p[t] \in DOMAIN Sections(t, m)}

After(t, m, n) == IF n = Len(Sections(t, m)) THEN 1 ELSE n + 1

(* A section arrives at the scanner of t.  A NIT is looked for on the      *)
(* network_PID; the PAT scanner has left 0 there if the PAT has none.      *)
Arrives(t) ==
  /\ t \in active
  /\ pos[t] # 0
  /\ t = "NIT" => PatData.network
  /\ pos' = [pos EXCEPT ![t] = After(t, mux, @)]

(* It is lost, or its CRC is wrong.                                        *)
Lose(t) ==
  /\ Arrives(t)
  /\ lost < MaxLost
  /\ lost' = lost + 1
  /\ disturbed' = disturbed \cup {mux}
  /\ UNCHANGED <<phase, mux, active, patVars, PmtData, pending, first, SdtData,
                 transport_streams, lists>>

(* The scanner's count runs out, which a table that is there makes a       *)
(* disturbance.                                                            *)
Timeout(t) ==
  /\ t \in active
  /\ active' = active \ {t}
  /\ disturbed' = IF pos[t] = 0 \/ (t = "NIT" /\ ~PatData.network)
                  THEN disturbed ELSE disturbed \cup {mux}
  /\ UNCHANGED <<phase, mux, pos, patVars, PmtData, pending, first, SdtData,
                 transport_streams, lists, lost>>

-----------------------------------------------------------------------------
(* PAT                                                                     *)

(* eTune with a lock, and the constructor of cPatScanner.                  *)
Tune(m) ==
  /\ phase = "next"
  /\ m \in New \ Scanned
  /\ phase' = "pat" /\ mux' = m
  /\ Scanned' = Scanned \cup {m}
  /\ active' = {"PAT"}
  /\ \E p \in Start({"PAT"}, m) : pos' = [pos EXCEPT !["PAT"] = p["PAT"]]
  /\ synced' = FALSE /\ flags' = {} /\ hasPAT' = FALSE
  /\ PatData' = [services |-> {}, network |-> FALSE]
  /\ PmtData' = <<>> /\ pending' = {}
  /\ lost' = 0
  /\ UNCHANGED <<first, SdtData, transport_streams, New, NewChannels, disturbed>>

(* PatSync::Sync: the first section comes first.                           *)
Sync(n) == synced \/ n = 1

PatSection ==
  LET n == pos["PAT"] IN
  /\ phase = "pat"
  /\ Arrives("PAT")
  /\ IF ~Sync(n) \/ n \in flags
     THEN UNCHANGED <<patVars, active>>
     ELSE /\ synced' = TRUE /\ flags' = flags \cup {n}
          /\ PatData' = [services |-> PatData.services \cup Pat[mux][n],
                         network  |-> PatData.network
                                        \/ (n = 1 /\ mux \in NitInPat)]
          /\ hasPAT' = (Pat[mux][n] # {} \/ n = Len(Pat[mux]))
          /\ active' = IF hasPAT' THEN {} ELSE active
  /\ UNCHANGED <<phase, mux, PmtData, pending, first, SdtData,
                 transport_streams, lists, lost, disturbed>>

(* eScanPat, once the scanner has ended.                                   *)
PatEnd ==
  /\ phase = "pat" /\ active = {}
  /\ IF hasPAT /\ PatData.services # {}
     THEN /\ phase' = "pmt"
          /\ pending' = PatData.services
          /\ PmtData' = [s \in PatData.services |-> None]
     ELSE /\ phase' = "next" /\ UNCHANGED <<pending, PmtData>>
  /\ UNCHANGED <<mux, active, pos, patVars, first, SdtData, transport_streams,
                 lists, lost, disturbed>>

-----------------------------------------------------------------------------
(* PMT.  Module PmtScan has the filters and the order of the scanners.     *)

(* Mutant: the PMT is read from the PID of some other service.             *)
OnSamePidNot(s, u) == u \in AllOf(Pat[mux])

OnSamePid(s, u) == u \in AllOf(Pat[mux]) /\ PmtPid[mux][u] = PmtPid[mux][s]

(* The first PMT on the PID is taken, whatever its service id.             *)
PmtSection(s) ==
  /\ s \in pending
  /\ \E u \in Services : OnSamePid(s, u) /\ PmtData' = [PmtData EXCEPT ![s] = u]
  /\ pending' = pending \ {s}
  /\ UNCHANGED <<phase, mux, active, pos, patVars, first, SdtData,
                 transport_streams, lists, lost, disturbed>>

PmtTimeout(s) ==
  /\ s \in pending
  /\ pending' = pending \ {s}
  /\ disturbed' = disturbed \cup {mux}
  /\ UNCHANGED <<phase, mux, active, pos, patVars, PmtData, first, SdtData,
                 transport_streams, lists, lost>>

-----------------------------------------------------------------------------
(* NIT and SDT                                                             *)

GetTables ==
  /\ phase = "pmt" /\ pending = {}
  /\ phase' = "tables"
  /\ active' = {"NIT", "SDT"}
  /\ \E p \in Start({"NIT", "SDT"}, mux) :
       pos' = [t \in Tables |-> IF t \in {"NIT", "SDT"} THEN p[t] ELSE pos[t]]
  /\ first' = [first EXCEPT !["NIT"] = 0, !["SDT"] = 0]
  /\ UNCHANGED <<mux, patVars, PmtData, pending, SdtData, transport_streams,
                 lists, lost, disturbed>>

FirstOf(t, n) == first' = [first EXCEPT ![t] = IF @ = 0 THEN n ELSE @]

(* The NIT ends with the first section seen again, or with the last one.   *)
NitEnds(n) == first["NIT"] = n \/ n = Len(Nit[mux])

NitSection ==
  LET n == pos["NIT"]  again == first["NIT"] = n IN
  /\ phase = "tables"
  /\ Arrives("NIT")
  /\ FirstOf("NIT", n)
  /\ transport_streams' =
       IF again THEN transport_streams ELSE transport_streams \cup Nit[mux][n]
  /\ active' = IF NitEnds(n) THEN active \ {"NIT"} ELSE active
  /\ UNCHANGED <<phase, mux, patVars, PmtData, pending, SdtData, lists, lost,
                 disturbed>>

(* Mutant: the SDT ends with its last section, as the NIT does.            *)
SdtEndsLast(n) == first["SDT"] = n \/ n = Len(Sdt[mux])

SdtEnds(n) == first["SDT"] = n

(* A service that is not in the list yet is added to it; what is found by  *)
(* TID and SID is the first of them.                                       *)
SdtSection ==
  LET n == pos["SDT"] IN
  /\ phase = "tables"
  /\ Arrives("SDT")
  /\ FirstOf("SDT", n)
  /\ SdtData' = [k \in Tids \X Services |->
                   IF SdtData[k] = None /\ first["SDT"] # n /\ k[1] = Tid[mux]
                      /\ k[2] \in Sdt[mux][n]
                   THEN mux ELSE SdtData[k]]
  /\ active' = IF SdtEnds(n) THEN active \ {"SDT"} ELSE active
  /\ UNCHANGED <<phase, mux, patVars, PmtData, pending, transport_streams,
                 lists, lost, disturbed>>

-----------------------------------------------------------------------------
(* Mutant: the service id alone decides.                                   *)
NameOfSid(m, sid) ==
  IF \E t \in Tids : SdtData[t, sid] # None
  THEN SdtData[CHOOSE t \in Tids : SdtData[t, sid] # None, sid] ELSE None

NameOf(m, sid) == SdtData[Tid[m], sid]

(* eAddChannels: a channel for each PMT with audio or video; channels that *)
(* have no name yet, of all transponders, get one; transponders announced. *)
AddChannels ==
  /\ phase = "tables" /\ active = {}
  /\ LET added == {[mux |-> mux, sid |-> PmtData[s], name |-> None] :
                     s \in {x \in DOMAIN PmtData : PmtData[x] \in AV[mux]}} IN
     NewChannels' = {[c EXCEPT !.name = IF @ = None THEN NameOf(c.mux, c.sid)
                                        ELSE @] : c \in NewChannels \cup added}
  /\ New' = New \cup transport_streams
  /\ phase' = "next"
  /\ UNCHANGED <<mux, active, pos, patVars, PmtData, pending, first, SdtData,
                 transport_streams, Scanned, lost, disturbed>>

Next ==
  \/ \E m \in Muxes : Tune(m)
  \/ PatSection \/ PatEnd
  \/ \E s \in Services : PmtSection(s) \/ PmtTimeout(s)
  \/ GetTables \/ NitSection \/ SdtSection
  \/ \E t \in Tables : Lose(t) \/ Timeout(t)
  \/ AddChannels

Spec == Init /\ [][Next]_vars

-----------------------------------------------------------------------------
Read == phase = "tables" /\ active = {}

(* From wherever in the cycle the SDT scanner begins, it has all sections  *)
(* when it ends, unless something is lost (first_crc32).                   *)
SdtComplete ==
  Read /\ mux \notin disturbed =>
    \A s \in AllOf(Sdt[mux]) : SdtData[Tid[mux], s] # None

(* Every service with audio or video that the PAT of an undisturbed        *)
(* transponder lists becomes a channel, and has its name if the SDT has.   *)
ServicesFound ==
  \A m \in Scanned \ disturbed : phase = "next" \/ m # mux =>
    \A s \in AV[m] : \E c \in NewChannels :
      c.mux = m /\ c.sid = s /\ (s \in AllOf(Sdt[m]) => c.name = m)

(* Whatever is lost, no channel bears the name of another service, though  *)
(* SdtData keeps those of all transponders and names are filled in late.   *)
OwnNames == \A c \in NewChannels : c.name \in {c.mux, None}

ChannelsSound == TypeOK /\ OwnNames

(* "we have all parts of nit seen" (scanfilter.cpp:1485).                  *)
AllPartsOfNitSeen ==
  Read /\ mux \notin disturbed /\ PatData.network =>
    AllOf(Nit[mux]) \subseteq transport_streams
=============================================================================
