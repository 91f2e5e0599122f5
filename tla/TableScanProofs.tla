--------------------------- MODULE TableScanProofs ---------------------------
(***************************************************************************)
(* Proofs about TableScan, for any transponders and any number of sections *)
(* in their tables.  The argument follows a transponder through its        *)
(* phases: what the PAT scanner, the PMT scanners and the SDT scanner have *)
(* got when they end without loss or timeout (PatInv, PmtInv, SdtInv), and *)
(* that eAddChannels makes the right channels of it.                       *)
(***************************************************************************)
EXTENDS TableScan, TLAPS

USE TableAssumption

(* No two transponders have the same transport_stream_id.                  *)
OwnTids == \A m, n \in Muxes : Tid[m] = Tid[n] => m = n

(* No two services of a transponder have the same PMT PID.                 *)
OwnPmtPids == \A m \in Muxes : \A s, u \in AllOf(Pat[m]) :
                PmtPid[m][s] = PmtPid[m][u] => s = u

(* The services of a PAT are in its last section.                          *)
PatInOneSection == \A m \in Muxes : \A n \in DOMAIN Pat[m] :
                     n # Len(Pat[m]) => Pat[m][n] = {}

-----------------------------------------------------------------------------
(* Types.                                                                  *)

(* The next section of a table that is broadcast is one of its sections.   *)
InTable(t) == IF Sections(t, mux) = <<>> THEN pos[t] = 0
              ELSE pos[t] \in DOMAIN Sections(t, mux)

(* The scanners at work are those of the phase, on a transponder that was  *)
(* tuned to.                                                               *)
AtWork ==
  /\ phase # "next" => mux \in Scanned
  /\ active # {} => phase \in {"pat", "tables"}
  /\ pending # {} => phase = "pmt"
  /\ phase = "pat" => InTable("PAT")
  /\ phase = "tables" => InTable("NIT") /\ InTable("SDT")
  /\ phase \in {"pmt", "tables"} =>
       PmtData \in [PatData.services -> Services \cup {None}]

(* The sections of a table have the services and transponders they may.    *)
LEMMA TableTypes ==
  ASSUME NEW m \in Muxes
  PROVE  /\ Len(Pat[m]) \in Nat /\ DOMAIN Pat[m] = 1 .. Len(Pat[m])
         /\ Len(Sdt[m]) \in Nat /\ DOMAIN Sdt[m] = 1 .. Len(Sdt[m])
         /\ Len(Nit[m]) \in Nat /\ DOMAIN Nit[m] = 1 .. Len(Nit[m])
         /\ Len(Pat[m]) # 0
         /\ AllOf(Pat[m]) \subseteq Services
         /\ AllOf(Sdt[m]) \subseteq Services
         /\ AllOf(Nit[m]) \subseteq Muxes
<1>1. /\ Pat[m] \in Seq(SUBSET Services) /\ Pat[m] # <<>>
      /\ Sdt[m] \in Seq(SUBSET Services) /\ Nit[m] \in Seq(SUBSET Muxes)
  OBVIOUS
<1>2. /\ Len(Pat[m]) \in Nat /\ DOMAIN Pat[m] = 1 .. Len(Pat[m])
      /\ Len(Sdt[m]) \in Nat /\ DOMAIN Sdt[m] = 1 .. Len(Sdt[m])
      /\ Len(Nit[m]) \in Nat /\ DOMAIN Nit[m] = 1 .. Len(Nit[m])
      /\ Len(Pat[m]) # 0
  BY ONLY <1>1
<1>3. /\ \A n \in DOMAIN Pat[m] : Pat[m][n] \subseteq Services
      /\ \A n \in DOMAIN Sdt[m] : Sdt[m][n] \subseteq Services
      /\ \A n \in DOMAIN Nit[m] : Nit[m][n] \subseteq Muxes
  BY ONLY <1>1
<1>4. /\ AllOf(Pat[m]) \subseteq Services
      /\ AllOf(Sdt[m]) \subseteq Services
      /\ AllOf(Nit[m]) \subseteq Muxes
  BY <1>3, Zenon DEF AllOf
<1> QED  BY <1>2, <1>4

(* What Start() may yield for one table.                                   *)
LEMMA StartTypes ==
  ASSUME NEW ts \in SUBSET Tables, NEW m \in Muxes, NEW p \in Start(ts, m),
         NEW t \in ts
  PROVE  /\ p[t] \in Nat
         /\ Sections(t, m) = <<>> => p[t] = 0
         /\ Sections(t, m) # <<>> => p[t] \in DOMAIN Sections(t, m)
<1> DEFINE top == Cardinality(Muxes) + Cardinality(Services)
<1>1. p \in [ts -> 0 .. top]
  BY Zenon DEF Start
<1>2. IF Sections(t, m) = <<>> THEN p[t] = 0 ELSE p[t] \in DOMAIN Sections(t, m)
  BY Zenon DEF Start
<1> HIDE DEF top
<1>3. p[t] \in Nat
  BY <1>1
<1> QED  BY <1>2, <1>3

(* Every reachable state is well typed.                                    *)
LEMMA TypesInit == Init => TypeOK /\ AtWork
<1> SUFFICES ASSUME Init
             PROVE  TypeOK /\ AtWork
  OBVIOUS
<1>1. AtWork
  BY DEF Init, AtWork
<1>2. /\ pos \in [Tables -> Nat] /\ first \in [Tables -> Nat]
      /\ lost \in 0 .. MaxLost
  BY DEF Init
<1>3. SdtData \in [Tids \X Services -> Muxes \cup {None}]
  BY Zenon DEF Init
<1>4. /\ phase \in {"next", "pat", "pmt", "tables"}
      /\ mux \in Muxes
      /\ active \subseteq Tables
      /\ synced \in BOOLEAN /\ hasPAT \in BOOLEAN
      /\ flags \subseteq DOMAIN Pat[mux]
      /\ PatData.services \subseteq AllOf(Pat[mux])
      /\ pending \subseteq PatData.services
      /\ transport_streams \subseteq Muxes
      /\ New \subseteq Muxes /\ Scanned \subseteq New
      /\ NewChannels \subseteq Channel
      /\ disturbed \subseteq Scanned
  BY DEF Init
<1> QED  BY <1>1, <1>2, <1>3, <1>4, Zenon DEF TypeOK

(* What a section arriving moves.                                          *)
LEMMA ArrivesTypes ==
  ASSUME TypeOK, NEW t \in Tables, Arrives(t), mux' = mux
  PROVE  /\ pos' \in [Tables -> Nat]
         /\ \A u \in Tables : u # t => pos'[u] = pos[u]
         /\ pos'[t] = After(t, mux, pos[t])
         /\ pos[t] # 0
         /\ \A u \in Tables : InTable(u) => InTable(u)'
<1>1. pos' = [pos EXCEPT ![t] = After(t, mux, pos[t])] /\ pos[t] # 0
  BY DEF Arrives
<1>2. pos \in [Tables -> Nat] /\ After(t, mux, pos[t]) \in Nat
  BY DEF TypeOK, After
<1>3. /\ \A u \in Tables : u # t => pos'[u] = pos[u]
      /\ pos'[t] = After(t, mux, pos[t])
      /\ pos' \in [Tables -> Nat]
  BY <1>1, <1>2
<1>4. \A u \in Tables : /\ Len(Sections(u, mux)) \in Nat
                        /\ DOMAIN Sections(u, mux) = 1 .. Len(Sections(u, mux))
  BY TableTypes DEF Sections, TypeOK, Tables
<1>5. InTable(t) => InTable(t)'
  <2> SUFFICES ASSUME InTable(t)
               PROVE  InTable(t)'
    OBVIOUS
  <2>1. Sections(t, mux) # <<>> /\ pos[t] \in 1 .. Len(Sections(t, mux))
    BY <1>1, <1>4 DEF InTable
  <2>2. After(t, mux, pos[t]) \in 1 .. Len(Sections(t, mux))
    BY <1>4, <2>1 DEF After
  <2>3. pos'[t] \in DOMAIN Sections(t, mux')
    BY <1>3, <1>4, <2>2
  <2>4. Sections(t, mux') # <<>>
    BY <2>1
  <2> QED  BY <2>3, <2>4, Zenon DEF InTable
<1>6. \A u \in Tables : u # t /\ InTable(u) => InTable(u)'
  BY <1>3 DEF InTable
<1> QED  BY <1>1, <1>3, <1>5, <1>6

(* A step of the PAT phase keeps the types.                                *)
LEMMA PatTypes ==
  ASSUME TypeOK, AtWork, (\E m \in Muxes : Tune(m)) \/ PatSection \/ PatEnd
  PROVE  TypeOK' /\ AtWork'
<1>1. ASSUME NEW m \in Muxes, Tune(m)
      PROVE  TypeOK' /\ AtWork'
  <2>1. PICK p \in Start({"PAT"}, m) : pos' = [pos EXCEPT !["PAT"] = p["PAT"]]
    BY <1>1 DEF Tune
  <2>2. /\ p["PAT"] \in Nat
        /\ Sections("PAT", m) = <<>> => p["PAT"] = 0
        /\ Sections("PAT", m) # <<>> => p["PAT"] \in DOMAIN Sections("PAT", m)
    BY StartTypes DEF Tables
  <2>3. pos' \in [Tables -> Nat] /\ pos'["PAT"] = p["PAT"]
    BY <2>1, <2>2 DEF TypeOK, Tables
  <2>4. lost' \in 0 .. MaxLost
    BY <1>1 DEF Tune
  <2>5. /\ phase' = "pat" /\ mux' = m /\ m \in New
        /\ Scanned' = Scanned \cup {m} /\ active' = {"PAT"}
        /\ synced' = FALSE /\ flags' = {} /\ hasPAT' = FALSE
        /\ PatData'.services = {} /\ pending' = {}
        /\ UNCHANGED <<first, SdtData, transport_streams, New, NewChannels,
                       disturbed>>
    BY <1>1 DEF Tune
  <2>6. TypeOK'
    <3>1. Scanned' \subseteq New' /\ disturbed' \subseteq Scanned'
      BY <2>5 DEF TypeOK
    <3> QED  BY <2>3, <2>4, <2>5, <3>1, Zenon DEF TypeOK, Tables
  <2>7. InTable("PAT")'
    BY <2>2, <2>3, <2>5, Zenon DEF InTable
  <2>8. AtWork'
    BY <2>5, <2>7 DEF AtWork
  <2> QED  BY <2>6, <2>8
<1>2. CASE PatSection
  <2>1. /\ phase = "pat" /\ "PAT" \in active
        /\ UNCHANGED <<phase, mux, PmtData, pending, first, SdtData,
                       transport_streams, lists, lost, disturbed>>
    BY <1>2 DEF PatSection, Arrives
  <2>2. pos' \in [Tables -> Nat] /\ InTable("PAT") /\ InTable("PAT")'
    BY <1>2, <2>1, ArrivesTypes DEF PatSection, Tables, AtWork
  <2>3. pending = {} /\ mux \in Scanned
    BY <2>1 DEF AtWork
  <2> DEFINE n == pos["PAT"]
  <2>4. CASE ~Sync(n) \/ n \in flags
    <3>1. UNCHANGED <<patVars, active>>
      BY <1>2, <2>4 DEF PatSection
    <3>2. TypeOK'
      BY <2>1, <2>2, <3>1, Zenon DEF TypeOK, patVars, lists
    <3>3. AtWork'
      BY <2>1, <2>2, <2>3, <3>1 DEF AtWork, patVars, lists
    <3> QED  BY <3>2, <3>3
  <2>5. CASE ~(~Sync(n) \/ n \in flags)
    <3>1. /\ synced' = TRUE /\ flags' = flags \cup {n}
          /\ PatData' = [services |-> PatData.services \cup Pat[mux][n],
                         network  |-> PatData.network
                                        \/ (n = 1 /\ mux \in NitInPat)]
          /\ hasPAT' = (Pat[mux][n] # {} \/ n = Len(Pat[mux]))
          /\ active' = IF hasPAT' THEN {} ELSE active
      BY <1>2, <2>5, Zenon DEF PatSection
    <3>2. n \in DOMAIN Pat[mux]
      BY <2>2 DEF InTable, Sections, TypeOK
    <3>3. hasPAT' \in BOOLEAN /\ active' \subseteq Tables
      BY <3>1, Zenon DEF TypeOK
    <3>4. flags' \subseteq DOMAIN Pat[mux]
      BY <3>1, <3>2 DEF TypeOK
    <3>5. PatData'.services \subseteq AllOf(Pat[mux])
      BY <3>1, <3>2 DEF TypeOK, AllOf
    <3>6. TypeOK'
      BY <2>1, <2>2, <2>3, <3>1, <3>3, <3>4, <3>5, Zenon DEF TypeOK, lists
    <3>7. AtWork'
      BY <2>1, <2>2, <2>3 DEF AtWork, lists
    <3> QED  BY <3>6, <3>7
  <2> QED  BY <2>4, <2>5
<1>3. CASE PatEnd
  <2>1. /\ phase = "pat" /\ active = {} /\ pending = {} /\ mux \in Scanned
        /\ UNCHANGED <<mux, active, pos, patVars, first, SdtData,
                       transport_streams, lists, lost, disturbed>>
        /\ \/ /\ phase' = "pmt" /\ pending' = PatData.services
              /\ PmtData' = [s \in PatData.services |-> None]
           \/ phase' = "next" /\ pending' = {}
    BY <1>3 DEF PatEnd, AtWork
  <2>2. TypeOK'
    BY <2>1, Zenon DEF TypeOK, patVars, lists
  <2>3. AtWork'
    BY <2>1 DEF AtWork, patVars, lists
  <2> QED  BY <2>2, <2>3
<1> QED  BY <1>1, <1>2, <1>3

(* A step of the PMT phase keeps the types.                                *)
LEMMA PmtTypes ==
  ASSUME TypeOK, AtWork, NEW s \in Services, PmtSection(s) \/ PmtTimeout(s)
  PROVE  TypeOK' /\ AtWork'
<1>1. /\ s \in pending /\ pending' = pending \ {s}
      /\ UNCHANGED <<phase, mux, active, pos, patVars, first, SdtData,
                     transport_streams, lists, lost>>
      /\ PmtData' = PmtData \/ \E u \in Services : PmtData' = [PmtData EXCEPT ![s] = u]
      /\ disturbed' = disturbed \/ disturbed' = disturbed \cup {mux}
  BY DEF PmtSection, PmtTimeout
<1>2. phase = "pmt" /\ mux \in Scanned
  BY <1>1 DEF AtWork
<1>3. disturbed' \subseteq Scanned
  BY <1>1, <1>2 DEF TypeOK
<1>4. pending' \subseteq PatData.services
  BY <1>1 DEF TypeOK
<1>5. TypeOK'
  BY <1>1, <1>3, <1>4, Zenon DEF TypeOK, patVars, lists
<1>6. PmtData' \in [PatData.services -> Services \cup {None}]
  BY <1>1, <1>2 DEF AtWork
<1>7. AtWork'
  BY <1>1, <1>2, <1>6 DEF AtWork, patVars, lists
<1> QED  BY <1>5, <1>7

(* The scanners of NIT and SDT begin anywhere.                             *)
LEMMA GetTablesTypes == TypeOK /\ AtWork /\ GetTables => TypeOK' /\ AtWork'
<1> SUFFICES ASSUME TypeOK, AtWork, GetTables
             PROVE  TypeOK' /\ AtWork'
  OBVIOUS
<1>1. /\ phase = "pmt" /\ pending = {} /\ phase' = "tables"
      /\ active' = {"NIT", "SDT"}
      /\ first' = [first EXCEPT !["NIT"] = 0, !["SDT"] = 0]
      /\ UNCHANGED <<mux, patVars, PmtData, pending, SdtData,
                     transport_streams, lists, lost, disturbed>>
  BY DEF GetTables
<1>2. PICK p \in Start({"NIT", "SDT"}, mux) :
        pos' = [t \in Tables |-> IF t \in {"NIT", "SDT"} THEN p[t] ELSE pos[t]]
  BY DEF GetTables
<1>3. mux \in Muxes /\ {"NIT", "SDT"} \in SUBSET Tables
  BY DEF TypeOK, Tables
<1>4. \A t \in {"NIT", "SDT"} :
        /\ p[t] \in Nat
        /\ Sections(t, mux) = <<>> => p[t] = 0
        /\ Sections(t, mux) # <<>> => p[t] \in DOMAIN Sections(t, mux)
  BY <1>3, StartTypes
<1>5. /\ pos' \in [Tables -> Nat]
      /\ pos'["NIT"] = p["NIT"] /\ pos'["SDT"] = p["SDT"]
  BY <1>2, <1>4 DEF TypeOK, Tables
<1>6. first' \in [Tables -> Nat]
  BY <1>1 DEF TypeOK
<1>7. TypeOK'
  BY <1>1, <1>3, <1>5, <1>6, Zenon DEF TypeOK, patVars, lists
<1>8. InTable("NIT")' /\ InTable("SDT")'
  BY <1>1, <1>4, <1>5, Zenon DEF InTable
<1>9. AtWork'
  BY <1>1, <1>8 DEF AtWork, patVars, lists
<1> QED  BY <1>7, <1>9

(* A section of NIT or SDT keeps the types.                                *)
LEMMA SectionTypes ==
  ASSUME TypeOK, AtWork, NitSection \/ SdtSection
  PROVE  TypeOK' /\ AtWork'
<1>1. /\ phase = "tables"
      /\ Arrives("NIT") \/ Arrives("SDT")
      /\ active' \subseteq active
      /\ UNCHANGED <<phase, mux, patVars, PmtData, pending, lists, lost,
                     disturbed>>
  BY DEF NitSection, SdtSection
<1>2. /\ pos' \in [Tables -> Nat] /\ InTable("NIT")' /\ InTable("SDT")'
      /\ mux \in Muxes
  BY <1>1, ArrivesTypes DEF AtWork, Tables, TypeOK
<1>3. first' \in [Tables -> Nat]
  <2>1. FirstOf("NIT", pos["NIT"]) \/ FirstOf("SDT", pos["SDT"])
    BY DEF NitSection, SdtSection
  <2>2. pos["NIT"] \in Nat /\ pos["SDT"] \in Nat
    BY DEF TypeOK, Tables
  <2> QED  BY <2>1, <2>2 DEF FirstOf, TypeOK
<1>4. transport_streams' \subseteq Muxes
        /\ SdtData' \in [Tids \X Services -> Muxes \cup {None}]
  <2>1. CASE NitSection
    <3>1. pos["NIT"] \in DOMAIN Nit[mux]
      BY <1>1, <1>2, <2>1 DEF AtWork, NitSection, Arrives, InTable, Sections
    <3>2. Nit[mux][pos["NIT"]] \subseteq Muxes
      BY <1>2, <3>1, TableTypes DEF AllOf
    <3> QED  BY <2>1, <3>2, Zenon DEF NitSection, TypeOK
  <2>2. CASE SdtSection
    <3>1. \A k \in Tids \X Services : SdtData'[k] \in {mux, SdtData[k]}
      BY <2>2, Zenon DEF SdtSection
    <3>2. SdtData' = [k \in Tids \X Services |-> SdtData'[k]]
      BY <2>2, Zenon DEF SdtSection
    <3>3. \A k \in Tids \X Services : SdtData[k] \in Muxes \cup {None}
      BY Zenon DEF TypeOK
    <3>4. \A k \in Tids \X Services : SdtData'[k] \in Muxes \cup {None}
      BY <1>2, <3>1, <3>3, Zenon
    <3>5. SdtData' \in [Tids \X Services -> Muxes \cup {None}]
      BY <3>2, <3>4, Zenon
    <3> QED  BY <2>2, <3>5 DEF SdtSection, TypeOK
  <2> QED  BY <2>1, <2>2
<1>5. TypeOK'
  BY <1>1, <1>2, <1>3, <1>4, Zenon DEF TypeOK, patVars, lists
<1>6. AtWork'
  BY <1>1, <1>2 DEF AtWork, patVars, lists
<1> QED  BY <1>5, <1>6

(* A loss or a timeout keeps the types.                                    *)
LEMMA FaultTypes ==
  ASSUME TypeOK, AtWork, NEW t \in Tables, Lose(t) \/ Timeout(t)
  PROVE  TypeOK' /\ AtWork'
<1>1. /\ t \in active /\ active' \subseteq active
      /\ disturbed' = disturbed \/ disturbed' = disturbed \cup {mux}
      /\ UNCHANGED <<phase, mux, patVars, PmtData, pending, first, SdtData,
                     transport_streams, lists>>
  BY DEF Lose, Timeout, Arrives
<1>2. mux \in Scanned
  BY <1>1 DEF AtWork
<1>3. lost' \in 0 .. MaxLost
  BY DEF Lose, Timeout, TypeOK
<1>4. pos' \in [Tables -> Nat] /\ \A u \in Tables : InTable(u) => InTable(u)'
  <2>1. CASE Lose(t)
    BY <1>1, <2>1, ArrivesTypes DEF Lose
  <2>2. CASE Timeout(t)
    BY <2>2, Zenon DEF Timeout, InTable, TypeOK
  <2> QED  BY <2>1, <2>2
<1>5. disturbed' \subseteq Scanned
  BY <1>1, <1>2 DEF TypeOK
<1>6. TypeOK'
  BY <1>1, <1>3, <1>4, <1>5, Zenon DEF TypeOK, patVars, lists
<1>7. AtWork'
  BY <1>1, <1>2, <1>4 DEF AtWork, patVars, lists, Tables
<1> QED  BY <1>6, <1>7

(* The channels of a transponder are channels.                             *)
LEMMA AddTypes == TypeOK /\ AtWork /\ AddChannels => TypeOK' /\ AtWork'
<1> SUFFICES ASSUME TypeOK, AtWork, AddChannels
             PROVE  TypeOK' /\ AtWork'
  OBVIOUS
<1>1. /\ phase = "tables" /\ active = {} /\ phase' = "next"
      /\ New' = New \cup transport_streams
      /\ UNCHANGED <<mux, active, pos, patVars, PmtData, pending, first,
                     SdtData, transport_streams, Scanned, lost, disturbed>>
  BY DEF AddChannels
<1> DEFINE added == {[mux |-> mux, sid |-> PmtData[s], name |-> None] :
                       s \in {x \in DOMAIN PmtData : PmtData[x] \in AV[mux]}}
           named(c) == [c EXCEPT !.name = IF @ = None THEN NameOf(c.mux, c.sid)
                                          ELSE @]
<1>2. NewChannels' = {named(c) : c \in NewChannels \cup added}
  BY DEF AddChannels
<1>3. added \subseteq Channel
  <2>1. AV[mux] \subseteq Services
    BY TableTypes DEF TypeOK
  <2> QED  BY <2>1 DEF TypeOK, Channel
<1>4. \A c \in Channel : named(c) \in Channel
  <2> SUFFICES ASSUME NEW c \in Channel
               PROVE  named(c) \in Channel
    OBVIOUS
  <2>1. c.mux \in Muxes /\ c.sid \in Services /\ c.name \in Muxes \cup {None}
    BY DEF Channel
  <2>2. <<Tid[c.mux], c.sid>> \in Tids \X Services
    BY <2>1 DEF Tids
  <2>3. SdtData \in [Tids \X Services -> Muxes \cup {None}]
    BY DEF TypeOK
  <2>4. NameOf(c.mux, c.sid) \in Muxes \cup {None}
    BY <2>2, <2>3, Zenon DEF NameOf
  <2> HIDE DEF NameOf
  <2> QED  BY <2>1, <2>4 DEF Channel
<1> HIDE DEF added, named
<1>5. NewChannels' \subseteq Channel
  BY <1>2, <1>3, <1>4 DEF TypeOK
<1>6. New' \subseteq Muxes /\ Scanned' \subseteq New'
  BY <1>1 DEF TypeOK
<1>7. TypeOK'
  BY <1>1, <1>5, <1>6, Zenon DEF TypeOK, patVars
<1>8. AtWork'
  BY <1>1 DEF AtWork, patVars
<1> QED  BY <1>7, <1>8

(* Every step keeps the types.                                             *)
LEMMA TypesStep == TypeOK /\ AtWork /\ [Next]_vars => TypeOK' /\ AtWork'
<1> SUFFICES ASSUME TypeOK, AtWork, [Next]_vars
             PROVE  TypeOK' /\ AtWork'
  OBVIOUS
<1>1. CASE UNCHANGED vars
  <2>1. TypeOK'
    BY <1>1, Zenon DEF vars, patVars, lists, TypeOK
  <2>2. AtWork'
    BY <1>1 DEF vars, patVars, lists, AtWork, InTable
  <2> QED  BY <2>1, <2>2
<1> QED
  BY <1>1, PatTypes, PmtTypes, GetTablesTypes, SectionTypes, FaultTypes, AddTypes
     DEF Next

(* Every reachable state is well typed.                                    *)
THEOREM TypesHold == Spec => [](TypeOK /\ AtWork)
<1> QED  BY TypesInit, TypesStep, PTL DEF Spec

-----------------------------------------------------------------------------
(* Names.                                                                  *)

(* A service in SdtData, and the name of a channel, are from a transponder *)
(* with the TID they are found by.                                         *)
Names ==
  /\ \A k \in Tids \X Services :
       SdtData[k] # None => Tid[SdtData[k]] = k[1]
  /\ \A c \in NewChannels : c.name # None => Tid[c.name] = Tid[c.mux]

(* eAddChannels names the channels by their TID.                           *)
LEMMA NamesAdded == TypeOK /\ Names /\ AddChannels => Names'
<1> SUFFICES ASSUME TypeOK, Names, AddChannels
             PROVE  Names'
  OBVIOUS
<1> DEFINE added == {[mux |-> mux, sid |-> PmtData[s], name |-> None] :
                       s \in {x \in DOMAIN PmtData : PmtData[x] \in AV[mux]}}
           named(c) == [c EXCEPT !.name = IF @ = None THEN NameOf(c.mux, c.sid)
                                          ELSE @]
<1>1. SdtData' = SdtData /\ NewChannels' = {named(c) : c \in NewChannels \cup added}
  BY DEF AddChannels
<1>2. \A c \in NewChannels \cup added :
        c \in Channel /\ (c.name # None => Tid[c.name] = Tid[c.mux])
  <2>1. AV[mux] \subseteq Services
    BY TableTypes DEF TypeOK
  <2>2. added \subseteq Channel /\ \A c \in added : c.name = None
    BY <2>1 DEF TypeOK, Channel
  <2> HIDE DEF added
  <2> QED  BY <2>2 DEF TypeOK, Names
<1>3. ASSUME NEW c \in Channel, c.name # None => Tid[c.name] = Tid[c.mux]
      PROVE  named(c).name # None => Tid[named(c).name] = Tid[named(c).mux]
  <2>1. c.mux \in Muxes /\ c.sid \in Services
    BY DEF Channel
  <2>2. <<Tid[c.mux], c.sid>> \in Tids \X Services
    BY <2>1 DEF Tids
  <2>3. NameOf(c.mux, c.sid) # None => Tid[NameOf(c.mux, c.sid)] = Tid[c.mux]
    <3> DEFINE k == <<Tid[c.mux], c.sid>>
    <3>1. SdtData[k] # None => Tid[SdtData[k]] = k[1]
      BY <2>2, Zenon DEF Names
    <3>2. k[1] = Tid[c.mux]
      OBVIOUS
    <3> QED  BY <3>1, <3>2, Zenon DEF NameOf
  <2> HIDE DEF NameOf
  <2> QED  BY <1>3, <2>3 DEF Channel
<1> HIDE DEF added, named
<1>4. \A c \in NewChannels' : c.name # None => Tid[c.name] = Tid[c.mux]
  BY <1>1, <1>2, <1>3
<1> QED  BY <1>1, <1>4, Zenon DEF Names

(* An SDT section is stored under the TID of its transponder.              *)
LEMMA NamesStored == TypeOK /\ Names /\ SdtSection => Names'
<1> SUFFICES ASSUME TypeOK, Names, SdtSection
             PROVE  Names'
  OBVIOUS
<1>1. NewChannels' = NewChannels
  BY DEF SdtSection, lists
<1>2. \A k \in Tids \X Services :
        SdtData'[k] = SdtData[k] \/ (SdtData'[k] = mux /\ k[1] = Tid[mux])
  BY Zenon DEF SdtSection
<1> QED  BY <1>1, <1>2, Zenon DEF Names

(* Every step keeps the names.                                             *)
LEMMA NamesStep == TypeOK /\ Names /\ [Next]_vars => Names'
<1> SUFFICES ASSUME TypeOK, Names, [Next]_vars
             PROVE  Names'
  OBVIOUS
<1>1. ASSUME UNCHANGED <<SdtData, NewChannels>>
      PROVE  Names'
  BY <1>1, Zenon DEF Names
<1>2. CASE UNCHANGED vars
  BY <1>1, <1>2 DEF vars, lists
<1>3. ASSUME NEW m \in Muxes, Tune(m)
      PROVE  Names'
  BY <1>1, <1>3 DEF Tune
<1>4. CASE PatSection \/ PatEnd
  BY <1>1, <1>4 DEF PatSection, PatEnd, lists
<1>5. ASSUME NEW s \in Services, PmtSection(s) \/ PmtTimeout(s)
      PROVE  Names'
  BY <1>1, <1>5 DEF PmtSection, PmtTimeout, lists
<1>6. CASE GetTables \/ NitSection
  BY <1>1, <1>6 DEF GetTables, NitSection, lists
<1>7. ASSUME NEW t \in Tables, Lose(t) \/ Timeout(t)
      PROVE  Names'
  BY <1>1, <1>7 DEF Lose, Timeout, lists
<1> QED
  BY <1>2, <1>3, <1>4, <1>5, <1>6, <1>7, NamesAdded, NamesStored DEF Next

(* No channel bears the name of a service of another transponder, if no    *)
(* two transponders have the same TID: eAddChannels goes through all       *)
(* channels and finds their names by TID and SID only.                     *)
THEOREM NamesAreOwn ==
  ASSUME OwnTids
  PROVE  Spec => []ChannelsSound
<1>1. Init => Names
  <2> SUFFICES ASSUME Init
               PROVE  Names
    OBVIOUS
  <2>1. NewChannels = {} /\ \A k \in Tids \X Services : SdtData[k] = None
    BY Zenon DEF Init
  <2> QED  BY <2>1, Zenon DEF Names
<1>2. TypeOK /\ Names => ChannelsSound
  <2> SUFFICES ASSUME TypeOK, Names, NEW c \in NewChannels, c.name # None
               PROVE  c.name = c.mux
    BY Zenon DEF ChannelsSound, OwnNames
  <2>1. c.name \in Muxes /\ c.mux \in Muxes
    BY DEF TypeOK, Channel
  <2>2. Tid[c.name] = Tid[c.mux]
    BY Zenon DEF Names
  <2> QED  BY <2>1, <2>2 DEF OwnTids
<1> QED  BY <1>1, <1>2, TypesInit, TypesStep, NamesStep, PTL DEF Spec

-----------------------------------------------------------------------------
(* The SDT.                                                                *)

(* All services of a section of the SDT are in SdtData.                    *)
Taken(j) == \A s \in Sdt[mux][j] : SdtData[<<Tid[mux], s>>] # None

(* The sections from f on, round the end of the table, up to p.            *)
Seen(f, p, j) == IF f < p THEN f <= j /\ j < p ELSE f <= j \/ j < p

(* What the SDT scanner has of a table, if nothing was lost.               *)
SdtInv ==
  phase = "tables" =>
    /\ first["SDT"] = 0 \/ first["SDT"] \in DOMAIN Sdt[mux]
    /\ mux \notin disturbed /\ "SDT" \in active /\ first["SDT"] # 0 =>
         \A j \in DOMAIN Sdt[mux] : Seen(first["SDT"], pos["SDT"], j) => Taken(j)
    /\ mux \notin disturbed /\ "SDT" \notin active =>
         \A j \in DOMAIN Sdt[mux] : Taken(j)

(* One more section is seen when the scanner has not been there before;    *)
(* all of them when it is back at the first.                               *)
LEMMA SeenOneMore ==
  ASSUME NEW m \in Muxes, NEW f \in DOMAIN Sdt[m], NEW p \in DOMAIN Sdt[m],
         NEW j \in DOMAIN Sdt[m]
  PROVE  /\ p = f => Seen(f, p, j)
         /\ p # f /\ Seen(f, After("SDT", m, p), j) => j = p \/ Seen(f, p, j)
         /\ Seen(f, After("SDT", m, f), j) => j = f
<1>1. /\ Len(Sdt[m]) \in Nat /\ f \in 1 .. Len(Sdt[m])
      /\ p \in 1 .. Len(Sdt[m]) /\ j \in 1 .. Len(Sdt[m])
  BY TableTypes
<1>2. \A n : After("SDT", m, n) = IF n = Len(Sdt[m]) THEN 1 ELSE n + 1
  BY DEF After, Sections
<1> DEFINE L == Len(Sdt[m])
<1> HIDE DEF L
<1>3. /\ L \in Nat /\ f \in 1 .. L /\ p \in 1 .. L /\ j \in 1 .. L
      /\ \A n : After("SDT", m, n) = IF n = L THEN 1 ELSE n + 1
  BY <1>1, <1>2 DEF L
<1> QED  BY ONLY <1>3 DEF Seen

(* A section of the SDT.                                                   *)
LEMMA SdtTaken == TypeOK /\ AtWork /\ SdtInv /\ SdtSection => SdtInv'
<1> SUFFICES ASSUME TypeOK, AtWork, SdtInv, SdtSection
             PROVE  SdtInv'
  OBVIOUS
<1> PICK n, f : n = pos["SDT"] /\ f = first["SDT"]
  OBVIOUS
<1>1. /\ phase = "tables" /\ phase' = "tables" /\ mux' = mux
      /\ disturbed' = disturbed /\ Arrives("SDT") /\ "SDT" \in active
      /\ FirstOf("SDT", n)
      /\ active' = IF f = n THEN active \ {"SDT"} ELSE active
  BY DEF SdtSection, SdtEnds, Arrives
<1>2. mux \in Muxes /\ n # 0 /\ pos'["SDT"] = After("SDT", mux, n)
  BY <1>1, ArrivesTypes DEF TypeOK, Tables
<1>3. n \in DOMAIN Sdt[mux]
  BY <1>1, <1>2 DEF AtWork, InTable, Sections
<1>4. first'["SDT"] = IF f = 0 THEN n ELSE f
  BY <1>1 DEF FirstOf, TypeOK, Tables
<1>5. \A j \in DOMAIN Sdt[mux] : \A s \in Sdt[mux][j] :
        <<Tid[mux], s>> \in Tids \X Services
  <2>1. \A j \in DOMAIN Sdt[mux] : Sdt[mux][j] \subseteq Services
    <3>1. AllOf(Sdt[mux]) \subseteq Services
      BY <1>2, TableTypes
    <3> QED  BY <3>1, Zenon DEF AllOf
  <2>2. Tid[mux] \in Tids
    BY <1>2 DEF Tids
  <2> QED  BY <2>1, <2>2
<1>6. \A k \in Tids \X Services :
        /\ SdtData[k] # None => SdtData'[k] # None
        /\ f # n /\ k[1] = Tid[mux] /\ k[2] \in Sdt[mux][n] => SdtData'[k] # None
  <2>1. mux # None
    BY <1>2
  <2>2. \A k \in Tids \X Services :
          SdtData'[k] = IF SdtData[k] = None /\ f # n /\ k[1] = Tid[mux]
                           /\ k[2] \in Sdt[mux][n]
                        THEN mux ELSE SdtData[k]
    BY Zenon DEF SdtSection
  <2> QED  BY <2>1, <2>2, Zenon
<1>7. \A j \in DOMAIN Sdt[mux] : Taken(j) => Taken(j)'
  BY <1>1, <1>5, <1>6, Zenon DEF Taken
<1>8. f # n => Taken(n)'
  <2> SUFFICES ASSUME f # n, NEW s \in Sdt[mux][n]
               PROVE  SdtData'[<<Tid[mux], s>>] # None
    BY <1>1, Zenon DEF Taken
  <2> DEFINE k == <<Tid[mux], s>>
  <2>1. k \in Tids \X Services
    BY <1>3, <1>5, Zenon
  <2>2. k[1] = Tid[mux] /\ k[2] = s
    OBVIOUS
  <2> HIDE DEF k
  <2>3. SdtData'[k] # None
    BY <1>6, <2>1, <2>2, Zenon
  <2> QED  BY <2>3 DEF k
<1>9. f = 0 \/ f \in DOMAIN Sdt[mux]
  BY <1>1 DEF SdtInv
<1>10. ASSUME mux \notin disturbed, f # 0, NEW j \in DOMAIN Sdt[mux],
              Seen(f, n, j)
       PROVE  Taken(j)'
  BY <1>1, <1>7, <1>10 DEF SdtInv
<1>11. ASSUME mux \notin disturbed, f # n, NEW j \in DOMAIN Sdt[mux],
              Seen(first'["SDT"], pos'["SDT"], j)
       PROVE  Taken(j)'
  <2>1. CASE f = 0
    <3>1. j = n
      BY <1>2, <1>3, <1>4, <1>11, <2>1, SeenOneMore
    <3> QED  BY <1>8, <1>11, <3>1
  <2>2. CASE f # 0
    <3>1. j = n \/ Seen(f, n, j)
      BY <1>2, <1>3, <1>4, <1>9, <1>11, <2>2, SeenOneMore
    <3> QED  BY <1>8, <1>10, <1>11, <2>2, <3>1
  <2> QED  BY <2>1, <2>2
<1>12. ASSUME mux \notin disturbed, f = n, NEW j \in DOMAIN Sdt[mux]
       PROVE  Taken(j)'
  <2>1. f # 0 /\ Seen(f, n, j)
    BY <1>2, <1>3, <1>12, SeenOneMore
  <2> QED  BY <1>10, <1>12, <2>1
<1>13. "SDT" \in active' <=> f # n
  BY <1>1
<1>14. first'["SDT"] = 0 \/ first'["SDT"] \in DOMAIN Sdt[mux]
  BY <1>3, <1>4, <1>9
<1> QED  BY <1>1, <1>11, <1>12, <1>13, <1>14, Zenon DEF SdtInv

(* A loss or a timeout on a table that is there is a disturbance.          *)
LEMMA SdtFault ==
  ASSUME TypeOK, AtWork, SdtInv, NEW t \in Tables, Lose(t) \/ Timeout(t)
  PROVE  SdtInv'
<1>1. /\ phase' = phase /\ mux' = mux /\ first' = first /\ SdtData' = SdtData
      /\ disturbed \subseteq disturbed'
  BY DEF Lose, Timeout
<1>2. \A j : Taken(j)' <=> Taken(j)
  BY <1>1, Zenon DEF Taken
<1>3. CASE mux \in disturbed'
  BY <1>1, <1>3, Zenon DEF SdtInv
<1>4. CASE mux \notin disturbed'
  <2>1. Timeout(t) /\ pos' = pos /\ active' = active \ {t}
    BY <1>4 DEF Lose, Timeout
  <2>2. t = "SDT" /\ phase = "tables" => DOMAIN Sdt[mux] = {}
    <3> SUFFICES ASSUME t = "SDT", phase = "tables"
                 PROVE  DOMAIN Sdt[mux] = {}
      OBVIOUS
    <3>1. pos["SDT"] = 0
      BY <1>4, <2>1 DEF Timeout
    <3>2. mux \in Muxes /\ InTable("SDT")
      BY DEF TypeOK, AtWork
    <3>3. DOMAIN Sdt[mux] = 1 .. Len(Sdt[mux])
      BY <3>2, TableTypes
    <3>4. Sdt[mux] = <<>> \/ 0 \in DOMAIN Sdt[mux]
      BY <3>1, <3>2, Zenon DEF InTable, Sections
    <3> QED  BY <3>3, <3>4
  <2>3. t # "SDT" => ("SDT" \in active' <=> "SDT" \in active)
    BY <2>1
  <2>4. "SDT" \in active' => "SDT" \in active
    BY <2>1
  <2>5. ASSUME phase = "tables", "SDT" \notin active', NEW j \in DOMAIN Sdt[mux]
        PROVE  Taken(j)
    <3>1. t # "SDT"
      BY <2>2, <2>5
    <3> QED  BY <1>1, <1>4, <2>3, <2>5, <3>1 DEF SdtInv
  <2>6. ASSUME phase = "tables"
        PROVE  /\ first["SDT"] = 0 \/ first["SDT"] \in DOMAIN Sdt[mux]
               /\ "SDT" \in active' /\ first["SDT"] # 0 =>
                    \A j \in DOMAIN Sdt[mux] :
                      Seen(first["SDT"], pos["SDT"], j) => Taken(j)
    BY <1>1, <1>4, <2>4, <2>6 DEF SdtInv
  <2> QED  BY <1>1, <1>2, <2>1, <2>5, <2>6, Zenon DEF SdtInv
<1> QED  BY <1>3, <1>4

(* Every step keeps what the SDT scanner has.                              *)
LEMMA SdtStep == TypeOK /\ AtWork /\ SdtInv /\ [Next]_vars => SdtInv'
<1> SUFFICES ASSUME TypeOK, AtWork, SdtInv, [Next]_vars
             PROVE  SdtInv'
  OBVIOUS
<1>1. ASSUME phase' # "tables"
      PROVE  SdtInv'
  BY <1>1 DEF SdtInv
<1>2. CASE UNCHANGED vars
  BY <1>2, Zenon DEF vars, SdtInv, Taken
<1>3. ASSUME NEW m \in Muxes, Tune(m)
      PROVE  SdtInv'
  BY <1>1, <1>3 DEF Tune
<1>4. CASE PatSection \/ PatEnd
  BY <1>1, <1>4 DEF PatSection, PatEnd
<1>5. ASSUME NEW s \in Services, PmtSection(s) \/ PmtTimeout(s)
      PROVE  SdtInv'
  BY <1>1, <1>5 DEF PmtSection, PmtTimeout, AtWork
<1>6. CASE GetTables
  <2>1. first'["SDT"] = 0 /\ "SDT" \in active'
    BY <1>6 DEF GetTables, TypeOK, Tables
  <2> QED  BY <2>1 DEF SdtInv
<1>7. CASE NitSection
  <2>1. /\ UNCHANGED <<phase, mux, disturbed, SdtData>>
        /\ "SDT" \in active' <=> "SDT" \in active
    BY <1>7 DEF NitSection
  <2>2. pos'["SDT"] = pos["SDT"] /\ first'["SDT"] = first["SDT"]
    BY <1>7 DEF NitSection, Arrives, FirstOf, TypeOK, Tables
  <2> QED  BY <2>1, <2>2, Zenon DEF SdtInv, Taken
<1>8. CASE AddChannels
  BY <1>1, <1>8 DEF AddChannels
<1> QED
  BY <1>2, <1>3, <1>4, <1>5, <1>6, <1>7, <1>8, SdtTaken, SdtFault DEF Next

(* The SDT scanner has every section when it ends undisturbed, wherever in *)
(* the cycle it began: it ends when first_crc32 comes round again.         *)
THEOREM SdtIsComplete == Spec => []SdtComplete
<1>1. Init => SdtInv
  BY DEF Init, SdtInv
<1>2. TypeOK /\ AtWork /\ SdtInv => SdtComplete
  <2> SUFFICES ASSUME SdtInv, Read, mux \notin disturbed,
                      NEW s \in AllOf(Sdt[mux])
               PROVE  SdtData[Tid[mux], s] # None
    BY Zenon DEF SdtComplete
  <2>1. PICK j \in DOMAIN Sdt[mux] : s \in Sdt[mux][j]
    BY Zenon DEF AllOf
  <2>2. Taken(j)
    BY DEF SdtInv, Read
  <2> QED  BY <2>1, <2>2, Zenon DEF Taken
<1> QED  BY <1>1, <1>2, TypesInit, TypesStep, SdtStep, PTL DEF Spec

-----------------------------------------------------------------------------
(* The services.                                                           *)

(* What the PAT scanner and the PMT scanners have of an undisturbed        *)
(* transponder.                                                            *)
PatInv ==
  mux \notin disturbed =>
    /\ phase = "pat" => "PAT" \in active \/ hasPAT
    /\ phase \in {"pmt", "tables"} \/ (phase = "pat" /\ hasPAT) =>
         PatData.services = AllOf(Pat[mux])

PmtInv ==
  mux \notin disturbed /\ phase \in {"pmt", "tables"} =>
    \A s \in PatData.services \ pending : PmtData[s] = s

(* A section of the PAT: with the services in its last section, it ends    *)
(* with all of them.                                                       *)
LEMMA PatTaken ==
  ASSUME PatInOneSection, TypeOK, AtWork, PatInv, PatSection
  PROVE  PatInv'
<1>1. PICK n : n = pos["PAT"]
  OBVIOUS
<1>2. /\ phase = "pat" /\ phase' = "pat" /\ mux' = mux
      /\ disturbed' = disturbed /\ "PAT" \in active /\ n # 0
  BY <1>1 DEF PatSection, Arrives
<1>3. CASE ~Sync(n) \/ n \in flags
  <2>1. UNCHANGED <<patVars, active>>
    BY <1>1, <1>3 DEF PatSection
  <2> QED  BY <1>2, <2>1, Zenon DEF PatInv, patVars
<1>4. CASE ~(~Sync(n) \/ n \in flags)
  <2>1. /\ PatData'.services = PatData.services \cup Pat[mux][n]
        /\ hasPAT' = (Pat[mux][n] # {} \/ n = Len(Pat[mux]))
        /\ active' = IF hasPAT' THEN {} ELSE active
    <3>1. /\ PatData' = [services |-> PatData.services \cup Pat[mux][n],
                         network  |-> PatData.network
                                        \/ (n = 1 /\ mux \in NitInPat)]
          /\ hasPAT' = (Pat[mux][n] # {} \/ n = Len(Pat[mux]))
          /\ active' = IF hasPAT' THEN {} ELSE active
      BY <1>1, <1>4, Zenon DEF PatSection
    <3> QED  BY <3>1
  <2>2. mux \in Muxes /\ InTable("PAT") /\ Pat[mux] # <<>>
    BY <1>2 DEF TypeOK, AtWork
  <2>3. n \in DOMAIN Pat[mux]
    BY <1>1, <2>2, Zenon DEF InTable, Sections
  <2>4. hasPAT' => n = Len(Pat[mux])
    BY <2>1, <2>2, <2>3 DEF PatInOneSection
  <2>5. ASSUME hasPAT'
        PROVE  PatData'.services = AllOf(Pat[mux])
    <3>1. \A k \in DOMAIN Pat[mux] : k # n => Pat[mux][k] = {}
      BY <2>2, <2>4, <2>5, Zenon DEF PatInOneSection
    <3>2. AllOf(Pat[mux]) = Pat[mux][n]
      BY <2>3, <3>1, Zenon DEF AllOf
    <3> QED  BY <2>1, <3>2 DEF TypeOK
  <2>6. "PAT" \in active' \/ hasPAT'
    BY <1>2, <2>1
  <2> QED  BY <1>2, <2>5, <2>6, Zenon DEF PatInv
<1> QED  BY <1>3, <1>4

(* A loss or a timeout on a PAT is a disturbance.                          *)
LEMMA ServicesFault ==
  ASSUME TypeOK, AtWork, PatInv, PmtInv, NEW t \in Tables, Lose(t) \/ Timeout(t)
  PROVE  PatInv' /\ PmtInv'
<1>1. /\ UNCHANGED <<phase, mux, hasPAT, PatData, PmtData, pending>>
      /\ disturbed \subseteq disturbed'
  BY DEF Lose, Timeout, patVars
<1>2. PmtInv'
  BY <1>1, Zenon DEF PmtInv
<1>3. CASE mux \in disturbed'
  BY <1>1, <1>2, <1>3, Zenon DEF PatInv
<1>4. CASE mux \notin disturbed'
  <2>1. active' = active \ {t} /\ (pos[t] = 0 \/ t = "NIT")
    BY <1>4 DEF Lose, Timeout
  <2>2. phase = "pat" => pos["PAT"] # 0
    <3> SUFFICES ASSUME phase = "pat"
                 PROVE  pos["PAT"] # 0
      OBVIOUS
    <3>1. mux \in Muxes /\ InTable("PAT") /\ Pat[mux] # <<>>
      BY DEF TypeOK, AtWork
    <3>2. pos["PAT"] \in DOMAIN Pat[mux]
      BY <3>1, Zenon DEF InTable, Sections
    <3>3. DOMAIN Pat[mux] = 1 .. Len(Pat[mux])
      BY <3>1, TableTypes
    <3> QED  BY <3>2, <3>3
  <2>3. phase = "pat" /\ "PAT" \in active => "PAT" \in active'
    BY <2>1, <2>2
  <2>4. PatInv'
    BY <1>1, <1>4, <2>3 DEF PatInv
  <2> QED  BY <1>2, <2>4
<1> QED  BY <1>3, <1>4

(* A PMT scanner takes the PMT of its service.                             *)
LEMMA PmtTaken ==
  ASSUME OwnPmtPids, TypeOK, AtWork, PatInv, PmtInv,
         NEW s \in Services, PmtSection(s) \/ PmtTimeout(s)
  PROVE  PatInv' /\ PmtInv'
<1>1. /\ UNCHANGED <<phase, mux, active, hasPAT, PatData>>
      /\ s \in pending /\ pending' = pending \ {s}
      /\ disturbed \subseteq disturbed'
  BY DEF PmtSection, PmtTimeout, patVars
<1>2. PatInv'
  BY <1>1, Zenon DEF PatInv
<1>3. phase = "pmt" /\ mux \in Muxes /\ PatData.services \subseteq AllOf(Pat[mux])
  BY <1>1 DEF AtWork, TypeOK
<1>4. CASE mux \in disturbed'
  BY <1>1, <1>2, <1>4, Zenon DEF PmtInv
<1>5. CASE mux \notin disturbed'
  <2>1. PICK u \in Services : OnSamePid(s, u) /\ PmtData' = [PmtData EXCEPT ![s] = u]
    BY <1>5 DEF PmtSection, PmtTimeout
  <2>2. s \in PatData.services
    BY <1>1 DEF TypeOK
  <2>3. u = s
    BY <1>3, <2>1, <2>2 DEF OnSamePid, OwnPmtPids
  <2>4. DOMAIN PmtData = PatData.services
    BY <1>3 DEF AtWork
  <2>5. \A v \in PatData.services \ pending : PmtData[v] = v
    BY <1>1, <1>3, <1>5 DEF PmtInv
  <2>6. \A v \in PatData.services \ pending' : PmtData'[v] = v
    BY <1>1, <2>1, <2>3, <2>4, <2>5
  <2> QED  BY <1>1, <1>2, <2>6, Zenon DEF PmtInv
<1> QED  BY <1>4, <1>5

(* Every step keeps what the PAT scanner and the PMT scanners have.        *)
LEMMA PatPmtStep ==
  ASSUME OwnPmtPids, PatInOneSection, TypeOK, AtWork, PatInv, PmtInv, [Next]_vars
  PROVE  PatInv' /\ PmtInv'
<1>1. CASE UNCHANGED vars
  BY <1>1, Zenon DEF vars, patVars, PatInv, PmtInv
<1>2. ASSUME NEW m \in Muxes, Tune(m)
      PROVE  PatInv' /\ PmtInv'
  BY <1>2 DEF Tune, PatInv, PmtInv
<1>3. CASE PatSection
  <2>1. phase' = "pat"
    BY <1>3 DEF PatSection
  <2> QED  BY <1>3, <2>1, PatTaken DEF PmtInv
<1>4. CASE PatEnd
  <2>1. /\ phase = "pat" /\ active = {}
        /\ UNCHANGED <<mux, disturbed, hasPAT, PatData>>
        /\ \/ phase' = "next"
           \/ phase' = "pmt" /\ hasPAT /\ pending' = PatData.services
    BY <1>4 DEF PatEnd, patVars
  <2>2. PatInv'
    BY <2>1 DEF PatInv
  <2>3. PmtInv'
    BY <2>1 DEF PmtInv
  <2> QED  BY <2>2, <2>3
<1>5. CASE GetTables \/ NitSection \/ SdtSection
  <2>1. /\ UNCHANGED <<mux, disturbed, hasPAT, PatData, PmtData, pending>>
        /\ phase \in {"pmt", "tables"} /\ phase' = "tables"
    BY <1>5 DEF GetTables, NitSection, SdtSection, patVars
  <2> QED  BY <2>1 DEF PatInv, PmtInv
<1>6. CASE AddChannels
  BY <1>6 DEF AddChannels, PatInv, PmtInv
<1> QED
  BY <1>1, <1>2, <1>3, <1>4, <1>5, <1>6, PmtTaken, ServicesFault DEF Next

(* eAddChannels has a channel for each service of an undisturbed           *)
(* transponder, and gives it its name.                                     *)
LEMMA ServicesAdded ==
  ASSUME OwnTids, TypeOK, AtWork, Names, SdtInv, PatInv, PmtInv, ServicesFound,
         AddChannels
  PROVE  ServicesFound'
<1> DEFINE added == {[mux |-> mux, sid |-> PmtData[s], name |-> None] :
                       s \in {x \in DOMAIN PmtData : PmtData[x] \in AV[mux]}}
           named(c) == [c EXCEPT !.name = IF @ = None THEN NameOf(c.mux, c.sid)
                                          ELSE @]
<1>1. /\ phase = "tables" /\ active = {}
      /\ UNCHANGED <<mux, Scanned, disturbed>>
      /\ NewChannels' = {named(c) : c \in NewChannels \cup added}
  BY DEF AddChannels
<1>2. \A c \in Channel : /\ named(c).mux = c.mux /\ named(c).sid = c.sid
                         /\ named(c).name = IF c.name = None
                                            THEN NameOf(c.mux, c.sid) ELSE c.name
  <2> HIDE DEF NameOf
  <2> QED  BY DEF Channel
<1>3. ASSUME mux \notin disturbed, NEW s \in AV[mux]
      PROVE  \E c \in NewChannels' :
               c.mux = mux /\ c.sid = s /\ (s \in AllOf(Sdt[mux]) => c.name = mux)
  <2>1. s \in PatData.services /\ PmtData[s] = s /\ s \in DOMAIN PmtData
    <3>1. mux \in Muxes /\ pending = {} /\ AV[mux] \subseteq AllOf(Pat[mux])
      BY <1>1 DEF TypeOK, AtWork
    <3>2. s \in PatData.services /\ PmtData[s] = s
      BY <1>1, <1>3, <3>1 DEF PatInv, PmtInv
    <3> QED  BY <1>1, <3>2 DEF AtWork
  <2>2. PICK c : c = [mux |-> mux, sid |-> s, name |-> None]
    OBVIOUS
  <2>3. c \in added
    BY <2>1, <2>2
  <2>4. s \in Services /\ mux \in Muxes
    BY TableTypes DEF TypeOK
  <2>5. c \in Channel /\ c.mux = mux /\ c.sid = s /\ c.name = None
    BY <2>2, <2>4 DEF Channel
  <2>6. ASSUME s \in AllOf(Sdt[mux])
        PROVE  NameOf(mux, s) = mux
    <3> DEFINE k == <<Tid[mux], s>>
    <3>1. k \in Tids \X Services /\ k[1] = Tid[mux]
      BY <2>4 DEF Tids
    <3>2. PICK j \in DOMAIN Sdt[mux] : s \in Sdt[mux][j]
      BY <2>6, Zenon DEF AllOf
    <3>3. Taken(j)
      BY <1>1, <1>3 DEF SdtInv
    <3>4. SdtData[k] # None
      BY <3>2, <3>3, Zenon DEF Taken
    <3>5. SdtData[k] \in Muxes \cup {None}
      BY <3>1, Zenon DEF TypeOK
    <3>6. Tid[SdtData[k]] = Tid[mux]
      BY <3>1, <3>4, Zenon DEF Names
    <3>7. SdtData[k] = mux
      BY <2>4, <3>4, <3>5, <3>6, Zenon DEF OwnTids
    <3> QED  BY <3>7, Zenon DEF NameOf
  <2> HIDE DEF named, added
  <2>7. named(c) \in NewChannels'
    BY <1>1, <2>3
  <2>8. /\ named(c).mux = mux /\ named(c).sid = s
        /\ s \in AllOf(Sdt[mux]) => named(c).name = mux
    BY <1>2, <2>5, <2>6
  <2> QED  BY <2>7, <2>8
<1>4. ASSUME NEW m \in Scanned, m \notin disturbed, m # mux, NEW s \in AV[m]
      PROVE  \E c \in NewChannels' :
               c.mux = m /\ c.sid = s /\ (s \in AllOf(Sdt[m]) => c.name = m)
  <2>1. PICK c \in NewChannels :
          c.mux = m /\ c.sid = s /\ (s \in AllOf(Sdt[m]) => c.name = m)
    BY <1>4, Zenon DEF ServicesFound
  <2>2. c \in Channel /\ m # None
    BY DEF TypeOK
  <2> HIDE DEF named, added
  <2>3. named(c) \in NewChannels'
    BY <1>1
  <2>4. /\ named(c).mux = m /\ named(c).sid = s
        /\ s \in AllOf(Sdt[m]) => named(c).name = m
    BY <1>2, <2>1, <2>2
  <2> QED  BY <2>3, <2>4
<1> HIDE DEF named, added
<1> QED  BY <1>1, <1>3, <1>4 DEF ServicesFound

(* Every step keeps the services found.                                    *)
LEMMA ServicesStep ==
  ASSUME OwnTids, TypeOK, AtWork, Names, SdtInv, PatInv, PmtInv, ServicesFound,
         [Next]_vars
  PROVE  ServicesFound'
<1>1. ASSUME UNCHANGED <<mux, Scanned, NewChannels>>, disturbed \subseteq disturbed',
             phase' = "next" => phase = "next"
      PROVE  ServicesFound'
  BY <1>1 DEF ServicesFound
<1>2. CASE UNCHANGED vars
  BY <1>1, <1>2 DEF vars, lists
<1>3. ASSUME NEW m \in Muxes, Tune(m)
      PROVE  ServicesFound'
  <2>1. /\ phase = "next" /\ phase' = "pat" /\ mux' = m
        /\ Scanned' = Scanned \cup {m}
        /\ UNCHANGED <<disturbed, NewChannels>>
    BY <1>3 DEF Tune
  <2> QED  BY <2>1 DEF ServicesFound
<1>4. CASE PatEnd
  <2>1. /\ phase = "pat" /\ active = {}
        /\ UNCHANGED <<mux, Scanned, NewChannels, disturbed>>
        /\ phase' = "next" => ~hasPAT \/ PatData.services = {}
    BY <1>4 DEF PatEnd, lists
  <2>2. phase' = "next" /\ mux \notin disturbed => AllOf(Pat[mux]) = {}
    BY <2>1 DEF PatInv
  <2>3. AV[mux] \subseteq AllOf(Pat[mux])
    BY DEF TypeOK
  <2>4. ASSUME NEW m \in Scanned', m \notin disturbed', phase' = "next" \/ m # mux',
               NEW s \in AV[m]
        PROVE  \E c \in NewChannels' :
                 c.mux = m /\ c.sid = s /\ (s \in AllOf(Sdt[m]) => c.name = m)
    <3>1. m # mux
      BY <2>1, <2>2, <2>3, <2>4
    <3> QED  BY <2>1, <2>4, <3>1 DEF ServicesFound
  <2> QED  BY <2>4, Zenon DEF ServicesFound
<1>5. CASE PatSection \/ GetTables \/ NitSection \/ SdtSection
  BY <1>1, <1>5 DEF PatSection, GetTables, NitSection, SdtSection, lists
<1>6. ASSUME NEW s \in Services, PmtSection(s) \/ PmtTimeout(s)
      PROVE  ServicesFound'
  BY <1>1, <1>6 DEF PmtSection, PmtTimeout, lists
<1>7. ASSUME NEW t \in Tables, Lose(t) \/ Timeout(t)
      PROVE  ServicesFound'
  BY <1>1, <1>7 DEF Lose, Timeout, lists
<1> QED
  BY <1>2, <1>3, <1>4, <1>5, <1>6, <1>7, ServicesAdded DEF Next

(* Every service with audio or video of a transponder that was received    *)
(* without loss or timeout is in the list, with its name: PAT, PMT and SDT *)
(* scanner and eAddChannels together.                                      *)
THEOREM EveryServiceFound ==
  ASSUME OwnTids, OwnPmtPids, PatInOneSection
  PROVE  Spec => []ServicesFound
<1> DEFINE IInv == /\ TypeOK /\ AtWork /\ Names /\ SdtInv /\ PatInv /\ PmtInv
                   /\ ServicesFound
<1>1. Init => IInv
  <2> SUFFICES ASSUME Init
               PROVE  IInv
    OBVIOUS
  <2>1. NewChannels = {} /\ \A k \in Tids \X Services : SdtData[k] = None
    BY Zenon DEF Init
  <2>2. Names
    BY <2>1, Zenon DEF Names
  <2>3. SdtInv /\ PatInv /\ PmtInv /\ ServicesFound
    BY DEF Init, SdtInv, PatInv, PmtInv, ServicesFound
  <2> QED  BY <2>2, <2>3, TypesInit
<1>2. IInv /\ [Next]_vars => IInv'
  BY TypesStep, NamesStep, SdtStep, PatPmtStep, ServicesStep
<1> QED  BY <1>1, <1>2, PTL DEF Spec
=============================================================================
