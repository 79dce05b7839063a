----------------------------- MODULE CrumProofs -----------------------------
(***************************************************************************)
(* What holds of Crum for any number of disks, any bounds, any rows left   *)
(* over and any interleaving of the main thread, the window and the world. *)
(***************************************************************************)
EXTENDS Crum, TLAPS

-----------------------------------------------------------------------------
\* The series and the panels

LEMMA SeriesTypes ==
    /\ Cpu \in Series /\ Ram \in Series /\ Net \in Series /\ Machine \in Series
    /\ \A k \in 0 .. NumDisks - 1 : Disc(k) \in Series
    /\ Sampled \subseteq Series /\ Charted \subseteq Series /\ Discs \subseteq Sampled
BY DEF Series, Sampled, Charted, Discs

\* Two panels or tables never share a series.
LEMMA SeriesDiffer ==
    /\ \A k, n : Disc(k) = Disc(n) => k = n
    /\ Machine \notin Sampled
    /\ Cpu \notin Discs /\ Ram \notin Discs /\ Net \notin Discs
    /\ Cpu # Ram /\ Cpu # Net /\ Ram # Net
<1>1. \A k, n : Disc(k) = Disc(n) => k = n
  BY DEF Disc
<1>2. \A k : Disc(k) # Machine /\ Disc(k) # Cpu /\ Disc(k) # Ram /\ Disc(k) # Net
  BY DEF Disc, Machine, Cpu, Ram, Net
<1>3. Cpu # Ram /\ Cpu # Net /\ Ram # Net /\ Machine # Cpu /\ Machine # Ram /\ Machine # Net
  BY DEF Machine, Cpu, Ram, Net
<1> QED
  BY <1>1, <1>2, <1>3 DEF Sampled, Discs

LEMMA SeriesTables == \A s \in Series : TableOf(s) \in Tables
<1>1. ASSUME NEW s \in Discs PROVE TableOf(s) \in Tables
  BY <1>1 DEF Discs, Disc, TableOf, Tables
<1>2. \A s \in {Cpu, Ram, Net, Machine} : TableOf(s) \in Tables
  BY DEF Cpu, Ram, Net, Machine, TableOf, Tables
<1> QED
  BY <1>1, <1>2 DEF Series, Sampled

LEMMA PanelTypes == \A k \in 0 .. LastPanel : PanelAt(k) \in Series
<1> SUFFICES ASSUME NEW k \in 0 .. LastPanel PROVE PanelAt(k) \in Series
  OBVIOUS
<1>1. k = 0 \/ k \in 1 .. NumDisks \/ k = NumDisks + 1 \/ k = NumDisks + 2 \/ k = NumDisks + 3
  BY NumDisksAssumption DEF LastPanel
<1>2. CASE k = 0
  BY <1>2, SeriesTypes DEF PanelAt
<1>3. CASE k \in 1 .. NumDisks
  <2>1. PanelAt(k) = Disc(k - 1) /\ k - 1 \in 0 .. NumDisks - 1
    BY <1>3, NumDisksAssumption DEF PanelAt
  <2> QED
    BY <2>1, SeriesTypes
<1>4. CASE k = NumDisks + 1
  BY <1>4, NumDisksAssumption, SeriesTypes DEF PanelAt
<1>5. CASE k = NumDisks + 2
  BY <1>5, NumDisksAssumption, SeriesTypes DEF PanelAt
<1>6. CASE k = NumDisks + 3
  BY <1>6, NumDisksAssumption, SeriesTypes DEF PanelAt
<1> QED
  BY <1>1, <1>2, <1>3, <1>4, <1>5, <1>6

LEMMA TableLists ==
    /\ Len(DropOrder) = 6 /\ Len(CreateOrder) = 5 /\ Len(CullOrder) = 5
    /\ \A k \in 1 .. 5 : CreateOrder[k] \in Tables /\ CullOrder[k] \in Tables
BY DEF DropOrder, CreateOrder, CullOrder, Tables

-----------------------------------------------------------------------------
\* Types and loop indices

LEMMA InitTypes == Init => TypeOK /\ IdxInv
<1> SUFFICES ASSUME Init PROVE TypeOK /\ IdxInv
  OBVIOUS
<1>1. rows \in [Series -> SUBSET Row]
  BY LeftoversAssumption DEF Init
<1>2. schema \in SUBSET (Tables \union {"USER"}) /\ Blank \in Row
  BY DEF Init, Tables, Blank, Row
<1>3. stamps \in Seq(Nat) /\ cutoff \in Int /\ idx \in Nat /\ pc \in Steps
      /\ proc \in {"running", "zombie", "exited"}
  BY DEF Init, Steps
<1>4. labels \in [Series -> Row] /\ charts \in [Charted -> SUBSET Row]
      /\ pending \in SUBSET Row /\ visible \in BOOLEAN /\ spent \in [Events -> Nat]
  BY <1>2 DEF Init
<1>5. clock \in Nat /\ clock >= EarliestClock
  BY TimeAssumption DEF Init
<1>6. IdxInv
  BY DEF Init, IdxInv, PanelSteps
<1> QED
  BY <1>1, <1>2, <1>3, <1>4, <1>5, <1>6 DEF TypeOK

\* The round under way has a time stamp, and its row the type of a row.
LEMMA RoundTypes ==
    ASSUME TypeOK
    PROVE  /\ Round \in Nat
           /\ \A k \in 1 .. Round : stamps[k] \in Nat /\ RowOf(k) \in Row
           /\ Round >= 1 => RoundStamp \in Nat
<1>1. stamps \in Seq(Nat) /\ Round \in Nat
  BY DEF TypeOK, Round
<1>2. \A k \in 1 .. Round : stamps[k] \in Nat
  BY <1>1 DEF Round
<1>3. Round >= 1 => RoundStamp \in Nat
  BY <1>1, <1>2 DEF RoundStamp
<1> QED
  BY <1>1, <1>2, <1>3 DEF RowOf, Row

LEMMA InsertTypes ==
    ASSUME TypeOK, Round >= 1, NEW s \in Series, Insert(s)
    PROVE  rows' \in [Series -> SUBSET Row]
<1>1. [round |-> Round, ts |-> RoundStamp] \in Row
  BY RoundTypes DEF Row
<1>2. rows' = [rows EXCEPT ![s] = @ \union {[round |-> Round, ts |-> RoundStamp]}]
  BY DEF Insert
<1> QED
  BY <1>1, <1>2 DEF TypeOK

LEMMA SpendTypes ==
    ASSUME TypeOK, NEW e \in Events, Spend(e)
    PROVE  /\ spent' \in [Events -> Nat]
           /\ spent'[e] = spent[e] + 1
           /\ \A f \in Events : f # e => spent'[f] = spent[f]
BY DEF TypeOK, Spend

\* The time stamps of the rounds are clock readings of this run.
LEMMA StepStamps == TypeOK /\ StampsInv /\ [Next]_vars => StampsInv'
<1> SUFFICES ASSUME TypeOK, StampsInv, [Next]_vars PROVE StampsInv'
  OBVIOUS
<1> USE DEF At, Goto, StartupSteps
<1>1. CASE BeginRound
  <2>1. stamps \in Seq(Nat) /\ clock \in Nat /\ clock >= EarliestClock
        /\ stamps' = Append(stamps, clock) /\ pc' \in {"disk", "cpu"}
    BY <1>1 DEF BeginRound, FromStore, TypeOK
  <2>2. Round' = Round + 1 /\ Round \in Nat
    BY <2>1 DEF Round
  <2>3. \A k \in 1 .. Round' : stamps'[k] >= EarliestClock
    BY <2>1, <2>2 DEF StampsInv, Round
  <2>4. pc' \notin StartupSteps /\ Round' >= 1
    BY <2>1, <2>2
  <2> QED
    BY <2>3, <2>4 DEF StampsInv
<1>2. CASE Restart
  BY <1>2 DEF Restart, StampsInv, Round
<1>3. CASE \/ InitOSHI \/ DropTable \/ CreateTable \/ InitMachine \/ NewUI \/ CreateUI
           \/ Sleep
  BY <1>3 DEF InitOSHI, DropTable, CreateTable, InitMachine, NewUI, CreateUI, Sleep,
              StampsInv, Round
<1>4. CASE \/ GetDiskData \/ GetCPUData \/ GetMemoryData \/ GetNetworkData
           \/ ComputeCutoff \/ CullTable \/ Refresh
  BY <1>4 DEF GetDiskData, GetCPUData, GetMemoryData, GetNetworkData, Insert, FromStore,
              ComputeCutoff, CullTable, Refresh, QueryPanel, SetLabels, LabelsDone,
              RedrawChart, NextPanel, StampsInv, Round
<1>5. CASE UNCHANGED <<pc, stamps>>
  BY <1>5 DEF StampsInv, Round
<1>6. InsertRejected \/ CloseWindow \/ Crash \/ StatementFails \/ Tick \/ StepBack
        \/ UNCHANGED vars => UNCHANGED <<pc, stamps>>
  BY DEF InsertRejected, CloseWindow, Crash, StatementFails, Tick, StepBack, vars
<1> QED
  BY <1>1, <1>2, <1>3, <1>4, <1>5, <1>6 DEF Next, MainThread, Startup, Collect, Cull, World

\* Each step keeps the types and the bounds of the loops.
LEMMA StepTypes == TypeOK /\ IdxInv /\ StampsInv /\ [Next]_vars => TypeOK' /\ IdxInv'
<1> SUFFICES ASSUME TypeOK, IdxInv, StampsInv, [Next]_vars PROVE TypeOK' /\ IdxInv'
  OBVIOUS
<1>0. /\ At("disk") \/ At("cpu") \/ At("ram") \/ At("network") => Round >= 1
      /\ EarliestClock \in Nat
      /\ {"tick", "stepBack", "fault", "start"} \subseteq Events
  BY TimeAssumption DEF StampsInv, StartupSteps, At, Events
<1> USE DEF TypeOK, IdxInv, At, Goto, PanelSteps, dbVars, uiVars, worldVars
<1>1. CASE InitOSHI
  BY <1>1, TableLists DEF InitOSHI, Steps
<1>2. CASE DropTable
  BY <1>2, TableLists DEF DropTable, Steps
<1>3. CASE CreateTable
  BY <1>3, TableLists DEF CreateTable, Steps
<1>4. CASE InitMachine
  <2>1. [round |-> 0, ts |-> clock] \in Row
    BY DEF Row
  <2>2. rows' \in [Series -> SUBSET Row]
    BY <1>4, <2>1, SeriesTypes DEF InitMachine
  <2> QED
    BY <1>4, <2>2 DEF InitMachine, Steps
<1>5. CASE NewUI
  BY <1>5, SeriesTypes DEF NewUI, Steps
<1>6. CASE CreateUI
  BY <1>6 DEF CreateUI, Steps
<1>7. CASE BeginRound
  BY <1>7, NumDisksAssumption DEF BeginRound, FromStore, Steps
<1>8. CASE GetDiskData
  <2>1. idx \in 0 .. NumDisks - 1 /\ rows' \in [Series -> SUBSET Row]
    BY <1>0, <1>8, SeriesTypes, InsertTypes DEF GetDiskData
  <2>2. pc' \in {"disk", "cpu"} /\ idx' \in Nat
        /\ (pc' = "disk" => idx' \in 0 .. NumDisks - 1)
    BY <1>8, <2>1, NumDisksAssumption DEF GetDiskData, FromStore
  <2> QED
    BY <1>8, <2>1, <2>2 DEF GetDiskData, Insert, Steps
<1>9. CASE GetCPUData
  <2>1. rows' \in [Series -> SUBSET Row]
    BY <1>0, <1>9, SeriesTypes, InsertTypes DEF GetCPUData
  <2> QED
    BY <1>9, <2>1 DEF GetCPUData, Insert, Steps
<1>10. CASE GetMemoryData
  <2>1. rows' \in [Series -> SUBSET Row]
    BY <1>0, <1>10, SeriesTypes, InsertTypes DEF GetMemoryData
  <2> QED
    BY <1>10, <2>1 DEF GetMemoryData, Insert, Steps
<1>11. CASE GetNetworkData
  <2>1. rows' \in [Series -> SUBSET Row]
    BY <1>0, <1>11, SeriesTypes, InsertTypes DEF GetNetworkData
  <2> QED
    BY <1>11, <2>1 DEF GetNetworkData, Insert, Steps
<1>12. CASE InsertRejected
  BY <1>12 DEF InsertRejected, MainDies, AfterException
<1>13. CASE ComputeCutoff
  BY <1>13, TimeAssumption, TableLists DEF ComputeCutoff, Steps
<1>14. CASE CullTable
  <2>1. rows' \in [Series -> SUBSET Row]
    BY <1>14 DEF CullTable
  <2>2. pc' \in {"cull", "query"} /\ idx' \in Nat
        /\ (pc' = "cull" => idx' \in 1 .. Len(CullOrder))
        /\ (pc' = "query" => idx' \in 0 .. LastPanel)
    BY <1>14, TableLists, NumDisksAssumption DEF CullTable, LastPanel
  <2> QED
    BY <1>14, <2>1, <2>2 DEF CullTable, Steps
<1>15. CASE QueryPanel
  BY <1>15, PanelTypes DEF QueryPanel, Steps
<1>16. CASE SetLabels
  BY <1>16 DEF SetLabels
<1>17. CASE LabelsDone
  BY <1>17, NumDisksAssumption DEF LabelsDone, NextPanel, Steps, LastPanel
<1>18. CASE RedrawChart
  BY <1>18, SeriesTypes, NumDisksAssumption DEF RedrawChart, NextPanel, Steps, LastPanel
<1>19. CASE Sleep
  BY <1>0, <1>19 DEF Sleep, Steps
<1>20. CASE CloseWindow
  BY <1>20 DEF CloseWindow
<1>21. CASE Crash
  BY <1>21 DEF Crash
<1>22. CASE StatementFails
  BY <1>0, <1>22, SpendTypes DEF StatementFails, MainDies, AfterException
<1>23. CASE Restart
  <2>1. Blank \in Row
    BY DEF Blank, Row
  <2>2. spent' \in [Events -> Nat]
    BY <1>0, <1>23, SpendTypes DEF Restart
  <2> QED
    BY <1>23, <2>1, <2>2 DEF Restart, Steps
<1>24. CASE Tick
  BY <1>0, <1>24, SpendTypes DEF Tick
<1>25. CASE StepBack
  BY <1>0, <1>25, SpendTypes DEF StepBack
<1>26. CASE UNCHANGED vars
  BY <1>26 DEF vars
<1> QED
  BY <1>1, <1>2, <1>3, <1>4, <1>5, <1>6, <1>7, <1>8, <1>9, <1>10, <1>11, <1>12, <1>13,
     <1>14, <1>15, <1>16, <1>17, <1>18, <1>19, <1>20, <1>21, <1>22, <1>23, <1>24, <1>25,
     <1>26 DEF Next, MainThread, Startup, Collect, Cull, Refresh, World

\* The types, the loop indices and the time stamps together are inductive.
TypesInv == TypeOK /\ IdxInv /\ StampsInv

LEMMA InitTypesInv == Init => TypesInv
BY InitTypes DEF Init, TypesInv, StampsInv, StartupSteps, Round

LEMMA StepTypesInv == TypesInv /\ [Next]_vars => TypesInv'
BY StepTypes, StepStamps DEF TypesInv

\* The variables of Crum keep their types, the rows of the database included.
THEOREM CrumTypes == Spec => []TypeOK
<1>1. TypesInv => TypeOK
  BY DEF TypesInv
<1> QED
  BY InitTypesInv, StepTypesInv, <1>1, PTL DEF Spec

-----------------------------------------------------------------------------
\* initDB: the tables are emptied, then they all exist

\* The steps that neither create nor drop a table, and start no new run.
LEMMA SchemaFrame ==
    [Next]_vars =>
        \/ Restart \/ InitOSHI \/ DropTable \/ CreateTable
        \/ UNCHANGED <<pc, idx, schema>>
        \/ /\ pc \notin {"initOSHI", "drop", "create"}
           /\ pc' \notin {"initOSHI", "drop", "create"}
           /\ UNCHANGED schema
<1> SUFFICES ASSUME [Next]_vars,
                    ~ (Restart \/ InitOSHI \/ DropTable \/ CreateTable)
             PROVE  \/ UNCHANGED <<pc, idx, schema>>
                    \/ /\ pc \notin {"initOSHI", "drop", "create"}
                       /\ pc' \notin {"initOSHI", "drop", "create"}
                       /\ UNCHANGED schema
  OBVIOUS
<1> USE DEF At, Goto, dbVars
<1>1. CASE InitMachine \/ NewUI \/ CreateUI \/ Sleep \/ BeginRound \/ Cull
  BY <1>1 DEF InitMachine, NewUI, CreateUI, Sleep, BeginRound, FromStore, Cull, ComputeCutoff,
              CullTable
<1>2. CASE GetDiskData \/ GetCPUData \/ GetMemoryData \/ GetNetworkData
  BY <1>2 DEF GetDiskData, GetCPUData, GetMemoryData, GetNetworkData, Insert, FromStore
<1>3. CASE Refresh
  BY <1>3 DEF Refresh, QueryPanel, SetLabels, LabelsDone, RedrawChart, NextPanel
<1>4. CASE InsertRejected \/ CloseWindow \/ Crash \/ StatementFails \/ Tick \/ StepBack
           \/ UNCHANGED vars
  BY <1>4 DEF InsertRejected, CloseWindow, Crash, StatementFails, Tick, StepBack, vars
<1> QED
  BY <1>1, <1>2, <1>3, <1>4 DEF Next, MainThread, Startup, Collect, World

LEMMA StepSchema == TypesInv /\ SchemaInv /\ [Next]_vars => SchemaInv'
<1> SUFFICES ASSUME TypesInv, SchemaInv, [Next]_vars PROVE SchemaInv'
  OBVIOUS
<1> USE DEF At, Goto
<1>1. CASE Restart \/ InitOSHI
  BY <1>1 DEF Restart, InitOSHI, SchemaInv
<1>2. CASE DropTable
  BY <1>2 DEF DropTable, SchemaInv
<1>3. CASE CreateTable
  <2>1. idx \in 1 .. 5 /\ schema' = schema \union {CreateOrder[idx]}
        /\ \A k \in 1 .. idx - 1 : CreateOrder[k] \in schema
    BY <1>3, TableLists DEF CreateTable, SchemaInv, TypesInv, IdxInv
  <2>2. \A k \in 1 .. idx : CreateOrder[k] \in schema'
    BY <2>1
  <2>3. CASE idx < 5
    BY <1>3, <2>1, <2>2, <2>3, TableLists DEF CreateTable, SchemaInv
  <2>4. CASE idx = 5
    <3>1. Tables \subseteq schema'
      BY <2>2, <2>4 DEF Tables, CreateOrder
    <3> QED
      BY <1>3, <2>4, <3>1, TableLists DEF CreateTable, SchemaInv
  <2> QED
    BY <2>1, <2>3, <2>4
<1>4. CASE UNCHANGED <<pc, idx, schema>>
  BY <1>4 DEF SchemaInv
<1>5. CASE /\ pc \notin {"initOSHI", "drop", "create"}
           /\ pc' \notin {"initOSHI", "drop", "create"}
           /\ UNCHANGED schema
  BY <1>5 DEF SchemaInv
<1> QED
  BY <1>1, <1>2, <1>3, <1>4, <1>5, SchemaFrame

\* The steps outside initDB and initMachine.
LEMMA EmptyFrame ==
    [Next]_vars =>
        \/ Restart \/ InitOSHI \/ DropTable \/ CreateTable \/ InitMachine
        \/ UNCHANGED <<pc, idx, rows, stamps>>
        \/ Monitoring /\ Monitoring'
<1> SUFFICES ASSUME [Next]_vars,
                    ~ (Restart \/ InitOSHI \/ DropTable \/ CreateTable \/ InitMachine)
             PROVE  UNCHANGED <<pc, idx, rows, stamps>> \/ (Monitoring /\ Monitoring')
  OBVIOUS
<1> USE DEF At, Goto, dbVars, Monitoring
<1>1. CASE NewUI \/ CreateUI \/ Sleep \/ BeginRound \/ Cull
  BY <1>1 DEF NewUI, CreateUI, Sleep, BeginRound, FromStore, Cull, ComputeCutoff, CullTable
<1>2. CASE GetDiskData \/ GetCPUData \/ GetMemoryData \/ GetNetworkData
  BY <1>2 DEF GetDiskData, GetCPUData, GetMemoryData, GetNetworkData, Insert, FromStore
<1>3. CASE Refresh
  BY <1>3 DEF Refresh, QueryPanel, SetLabels, LabelsDone, RedrawChart, NextPanel
<1>4. CASE InsertRejected \/ CloseWindow \/ Crash \/ StatementFails \/ Tick \/ StepBack
           \/ UNCHANGED vars
  BY <1>4 DEF InsertRejected, CloseWindow, Crash, StatementFails, Tick, StepBack, vars
<1> QED
  BY <1>1, <1>2, <1>3, <1>4 DEF Next, MainThread, Startup, Collect, World

LEMMA StepEmpty == TypesInv /\ EmptyInv /\ [Next]_vars => EmptyInv'
<1> SUFFICES ASSUME TypesInv, EmptyInv, [Next]_vars PROVE EmptyInv'
  OBVIOUS
<1> USE DEF At, Goto
<1>1. CASE Restart \/ InitOSHI \/ InitMachine
  BY <1>1 DEF Restart, InitOSHI, InitMachine, EmptyInv, StartsEmpty
<1>2. CASE DropTable
  <2>1. /\ idx \in 1 .. 6
        /\ \A s \in Series : s \in InTable(DropOrder[idx]) => rows'[s] = {}
        /\ \A s \in Series : s \notin InTable(DropOrder[idx]) => rows'[s] = rows[s]
        /\ \A k \in 1 .. idx - 1 : \A s \in InTable(DropOrder[k]) : rows[s] = {}
    <3>1. pc = "drop" /\ idx \in 1 .. 6
      BY <1>2, TableLists DEF DropTable, TypesInv, IdxInv
    <3>2. rows' = [s \in Series |-> IF s \in InTable(DropOrder[idx]) THEN {} ELSE rows[s]]
      BY <1>2 DEF DropTable
    <3>3. \A k \in 1 .. idx - 1 : \A s \in InTable(DropOrder[k]) : rows[s] = {}
      BY <3>1 DEF EmptyInv
    <3> QED
      BY <3>1, <3>2, <3>3
  <2>2. ASSUME NEW k \in 1 .. idx, NEW s \in InTable(DropOrder[k]) PROVE rows'[s] = {}
    <3>1. s \in Series
      BY DEF InTable
    <3>2. CASE s \in InTable(DropOrder[idx])
      BY <2>1, <3>1, <3>2
    <3>3. CASE s \notin InTable(DropOrder[idx])
      <4>1. k \in 1 .. idx - 1
        BY <2>1, <3>3
      <4>2. rows[s] = {}
        BY <2>1, <4>1
      <4> QED
        BY <2>1, <3>1, <3>3, <4>2
    <3> QED
      BY <3>2, <3>3
  <2>3. CASE idx < 6
    BY <1>2, <2>1, <2>2, <2>3, TableLists DEF DropTable, EmptyInv, StartsEmpty, InTable
  <2>4. CASE idx = 6
    <3>1. ASSUME NEW s \in Series PROVE rows'[s] = {}
      <4>1. PICK k \in 1 .. 6 : TableOf(s) = DropOrder[k]
        BY SeriesTables DEF Tables, DropOrder
      <4> QED
        BY <2>2, <2>4, <4>1 DEF InTable
    <3> QED
      BY <1>2, <2>4, <3>1, TableLists DEF DropTable, EmptyInv, StartsEmpty
  <2> QED
    BY <2>1, <2>3, <2>4
<1>3. CASE CreateTable
  BY <1>3 DEF CreateTable, EmptyInv, StartsEmpty
<1>4. CASE UNCHANGED <<pc, idx, rows, stamps>>
  BY <1>4 DEF EmptyInv, StartsEmpty, InTable
<1>5. CASE Monitoring /\ Monitoring'
  BY <1>5 DEF Monitoring, EmptyInv, StartsEmpty
<1> QED
  BY <1>1, <1>2, <1>3, <1>4, <1>5, EmptyFrame

-----------------------------------------------------------------------------
\* The rows of a round

\* The rows of the rounds up to the latest are the older ones and its own row.
LEMMA RoundRowsLast ==
    ASSUME TypeOK, Round >= 1
    PROVE  RoundRows(Round)
               = RoundRows(Round - 1) \union {[round |-> Round, ts |-> RoundStamp]}
<1>1. Round \in Nat /\ RowOf(Round) = [round |-> Round, ts |-> RoundStamp]
  BY RoundTypes DEF RowOf, RoundStamp
<1>2. 1 .. Round = (1 .. Round - 1) \union {Round}
  BY <1>1
<1> QED
  BY <1>1, <1>2 DEF RoundRows

\* As long as the run lasts, earlier rounds keep their rows.
LEMMA RoundRowsAppend ==
    ASSUME TypeOK, stamps' = Append(stamps, clock)
    PROVE  Round' = Round + 1 /\ RoundRows(Round - 1)' = RoundRows(Round)
<1>1. stamps \in Seq(Nat) /\ clock \in Nat
  BY DEF TypeOK
<1>2. Round' = Round + 1 /\ Round \in Nat
  BY <1>1 DEF Round
<1>3. \A k \in 1 .. Round : stamps'[k] = stamps[k]
  BY <1>1 DEF Round
<1>4. RoundRows(Round - 1)' = {[round |-> k, ts |-> stamps'[k]] : k \in 1 .. Round}
  <2>1. RoundRows(Round - 1)' = {[round |-> k, ts |-> stamps'[k]] : k \in 1 .. Round' - 1}
    BY DEF RoundRows, RowOf
  <2>2. Round' - 1 = Round
    BY <1>2
  <2> QED
    BY <2>1, <2>2
<1>5. RoundRows(Round) = {[round |-> k, ts |-> stamps[k]] : k \in 1 .. Round}
  BY DEF RoundRows, RowOf
<1> QED
  BY <1>2, <1>3, <1>4, <1>5

\* The steps of the loop at which every collector has done its work.
AllWritten == pc \notin {"initOSHI", "drop", "create", "initMachine",
                        "disk", "cpu", "ram", "network"}

LEMMA WrittenAll == AllWritten => Monitoring /\ Written = Sampled
BY DEF AllWritten, Monitoring, Written

\* One collector adds its own series to those written, and no other.
LEMMA WrittenDisk ==
    ASSUME NumDisks \in Nat, pc = "disk", idx \in 0 .. NumDisks - 1, FromStore(idx + 1)
    PROVE  /\ Disc(idx) \in Discs /\ Disc(idx) \notin Written
           /\ Written' = Written \union {Disc(idx)}
           /\ Monitoring /\ Monitoring'
<1>1. Written = {Disc(k) : k \in 0 .. idx - 1}
  BY DEF Written
<1>2. Disc(idx) \notin Written
  BY <1>1, SeriesDiffer
<1>3. {Disc(k) : k \in 0 .. idx - 1} \union {Disc(idx)} = {Disc(k) : k \in 0 .. idx}
  <2>1. 0 .. idx = (0 .. idx - 1) \union {idx}
    OBVIOUS
  <2> QED
    BY <2>1
<1>4. Written' = {Disc(k) : k \in 0 .. idx}
  <2>1. CASE idx + 1 < NumDisks
    <3>1. pc' = "disk" /\ idx' = idx + 1 /\ idx' - 1 = idx
      BY <2>1 DEF FromStore, Goto
    <3>2. Written' = {Disc(k) : k \in 0 .. idx' - 1}
      BY <3>1 DEF Written
    <3> QED
      BY <3>1, <3>2
  <2>2. CASE ~ (idx + 1 < NumDisks)
    <3>1. pc' = "cpu" /\ idx = NumDisks - 1
      BY <2>2 DEF FromStore, Goto
    <3>2. Written' = Discs
      BY <3>1 DEF Written
    <3> QED
      BY <3>1, <3>2 DEF Discs
  <2> QED
    BY <2>1, <2>2
<1>5. Monitoring /\ Monitoring'
  BY DEF FromStore, Goto, Monitoring
<1> QED
  BY <1>1, <1>2, <1>3, <1>4, <1>5 DEF Discs

LEMMA WrittenOthers ==
    /\ pc = "cpu" /\ pc' = "ram" =>
           Cpu \notin Written /\ Written' = Written \union {Cpu}
    /\ pc = "ram" /\ pc' = "network" =>
           Ram \notin Written /\ Written' = Written \union {Ram}
    /\ pc = "network" /\ pc' = "cutoff" =>
           Net \notin Written /\ Written' = Written \union {Net}
<1>1. pc = "cpu" /\ pc' = "ram" => Written = Discs /\ Written' = Discs \union {Cpu}
  BY DEF Written
<1>2. pc = "ram" /\ pc' = "network" =>
          Written = Discs \union {Cpu} /\ Written' = Discs \union {Cpu, Ram}
  BY DEF Written
<1>3. pc = "network" /\ pc' = "cutoff" =>
          Written = Discs \union {Cpu, Ram} /\ Written' = Sampled
  BY DEF Written
<1> QED
  BY <1>1, <1>2, <1>3, SeriesDiffer DEF Sampled

-----------------------------------------------------------------------------
\* The rows of the database

\* What an insert of a collector finds and leaves: the rows of the complete
\* rounds, under a time stamp none of them has, and then its own row besides.
LEMMA InsertRows ==
    ASSUME TypeOK, Round >= 1, RowsInv, Monitoring, Monitoring',
           NEW s \in Sampled, s \notin Written, Insert(s), Written' = Written \union {s}
    PROVE  RowsInv' /\ FreshInv'
<1>1. /\ rows' = [rows EXCEPT ![s] = @ \union {[round |-> Round, ts |-> RoundStamp]}]
      /\ stamps' = stamps /\ ~ Rejected(s)
  BY DEF Insert
<1>2. Round' = Round /\ RoundStamp' = RoundStamp
      /\ RoundRows(Round)' = RoundRows(Round)
      /\ RoundRows(Round - 1)' = RoundRows(Round - 1)
  BY <1>1 DEF Round, RoundStamp, RoundRows, RowOf
<1>3. \A q \in Sampled :
          rows[q] = IF q \in Written THEN RoundRows(Round) ELSE RoundRows(Round - 1)
  BY DEF RowsInv
<1>4. rows[s] = RoundRows(Round - 1)
  BY <1>3
<1>5. rows'[s] = RoundRows(Round)
  BY <1>1, <1>4, RoundRowsLast, SeriesTypes DEF TypeOK
<1>6. rows'[Machine] = rows[Machine]
  BY <1>1, SeriesTypes, SeriesDiffer DEF TypeOK
<1>7. ASSUME NEW q \in Sampled
      PROVE  rows'[q] = IF q \in Written' THEN RoundRows(Round)' ELSE RoundRows(Round - 1)'
  <2>1. CASE q = s
    BY <1>2, <1>5, <2>1
  <2>2. CASE q # s
    <3>1. rows'[q] = rows[q]
      BY <1>1, <2>2, SeriesTypes DEF TypeOK
    <3>2. q \in Written' <=> q \in Written
      BY <2>2
    <3> QED
      BY <1>2, <1>3, <3>1, <3>2
  <2> QED
    BY <2>1, <2>2
<1>8. RowsInv'
  BY <1>6, <1>7 DEF RowsInv
<1>9. FreshInv'
  <2>1. ASSUME NEW k \in 1 .. Round - 1 PROVE stamps[k] # RoundStamp
    <3>1. RowOf(k) \in rows[s]
      BY <1>4 DEF RoundRows
    <3> QED
      BY <1>1, <3>1 DEF Rejected, RowOf
  <2> QED
    BY <1>1, <1>2, <2>1 DEF FreshInv
<1> QED
  BY <1>8, <1>9

\* Steps that leave the rows and the stamps alone while all is written.
LEMMA KeepRows ==
    ASSUME RowsInv, FreshInv, AllWritten, AllWritten', UNCHANGED <<rows, stamps>>
    PROVE  RowsInv' /\ FreshInv'
<1>1. Monitoring /\ Monitoring' /\ Written = Sampled /\ Written' = Sampled
  BY WrittenAll DEF AllWritten, Monitoring, Written
<1>2. Round' = Round /\ RoundStamp' = RoundStamp
      /\ RoundRows(Round)' = RoundRows(Round)
  BY DEF Round, RoundStamp, RoundRows, RowOf
<1>3. \A q \in Sampled : rows[q] = RoundRows(Round)
  BY <1>1 DEF RowsInv
<1>4. RowsInv'
  BY <1>1, <1>2, <1>3 DEF RowsInv
<1>5. FreshInv'
  BY <1>1, <1>2 DEF FreshInv
<1> QED
  BY <1>4, <1>5

\* The cull deletes nothing: every time stamp of this run is beyond the numbers
\* SQLite reads as Julian days.
LEMMA CullKeepsRows ==
    TypesInv /\ RowsInv /\ CullTable => UNCHANGED <<rows, stamps>>
<1> SUFFICES ASSUME TypesInv, RowsInv, CullTable PROVE UNCHANGED <<rows, stamps>>
  OBVIOUS
<1>1. /\ rows' = [s \in Series |-> IF s \in InTable(CullOrder[idx])
                                    THEN {r \in rows[s] : ~ Expired(r.ts)}
                                    ELSE rows[s]]
      /\ stamps' = stamps /\ AllWritten
  BY DEF CullTable, At, AllWritten
<1>2. rows \in [Series -> SUBSET Row] /\ Round \in Nat
      /\ \A k \in 1 .. Round : stamps[k] \in Nat /\ stamps[k] >= EarliestClock
  BY RoundTypes DEF TypesInv, TypeOK, StampsInv
<1>3. Monitoring /\ Written = Sampled
  BY <1>1, WrittenAll
<1>4. ASSUME NEW s \in Series, NEW r \in rows[s] PROVE ~ Expired(r.ts)
  <2>1. r \in Row /\ r.ts \in Nat
    BY <1>2, <1>4 DEF Row
  <2>2. r.ts >= EarliestClock
    <3>1. CASE s = Machine
      BY <1>3, <1>4, <3>1 DEF RowsInv
    <3>2. CASE s \in Sampled
      <4>1. rows[s] = RoundRows(Round)
        BY <1>3, <3>2 DEF RowsInv
      <4> QED
        BY <1>2, <1>4, <4>1 DEF RoundRows, RowOf
    <3> QED
      BY <3>1, <3>2 DEF Series
  <2> QED
    BY <2>1, <2>2, ClockAssumption, TimeAssumption DEF Expired
<1>5. \A s \in Series : rows'[s] = rows[s]
  BY <1>1, <1>4
<1> QED
  BY <1>1, <1>2, <1>5

LEMMA StepRows ==
    TypesInv /\ EmptyInv /\ RowsInv /\ FreshInv /\ [Next]_vars => RowsInv' /\ FreshInv'
<1> SUFFICES ASSUME TypesInv, EmptyInv, RowsInv, FreshInv, [Next]_vars
             PROVE  RowsInv' /\ FreshInv'
  OBVIOUS
<1>0. TypeOK /\ TypesInv' /\ NumDisks \in Nat
  BY StepTypesInv, NumDisksAssumption DEF TypesInv
<1> USE DEF At, Goto, dbVars
<1>1. CASE Restart \/ InitOSHI \/ DropTable \/ CreateTable
  <2>1. ~ Monitoring'
    BY <1>1 DEF Restart, InitOSHI, DropTable, CreateTable, Monitoring
  <2> QED
    BY <2>1 DEF RowsInv, FreshInv
<1>2. CASE InitMachine
  <2>1. /\ \A s \in Series : rows[s] = {}
        /\ stamps = <<>> /\ stamps' = <<>>
        /\ rows' = [rows EXCEPT ![Machine] = @ \union {[round |-> 0, ts |-> clock]}]
        /\ AllWritten' /\ clock >= EarliestClock
    BY <1>0, <1>2 DEF InitMachine, EmptyInv, StartsEmpty, TypesInv, StampsInv, StartupSteps,
                      TypeOK, AllWritten
  <2>2. /\ rows'[Machine] = {[round |-> 0, ts |-> clock]}
        /\ \A s \in Sampled : rows'[s] = {}
    BY <1>0, <2>1, SeriesTypes, SeriesDiffer DEF TypeOK
  <2>3. Round' = 0 /\ RoundRows(Round)' = {}
    <3>1. Round' = 0
      BY <2>1 DEF Round
    <3> QED
      BY <3>1 DEF RoundRows
  <2>4. Monitoring' /\ Written' = Sampled
    BY <2>1 DEF AllWritten, Monitoring, Written
  <2>5. \E r \in rows'[Machine] : rows'[Machine] = {r} /\ r.ts >= EarliestClock
    <3> DEFINE m == [round |-> 0, ts |-> clock]
    <3>1. m \in rows'[Machine] /\ rows'[Machine] = {m}
      BY <2>2
    <3>2. m.ts >= EarliestClock
      BY <2>1
    <3> HIDE DEF m
    <3> QED
      BY <3>1, <3>2
  <2> QED
    BY <2>2, <2>3, <2>4, <2>5 DEF RowsInv, FreshInv
<1>3. CASE BeginRound
  <2>1. stamps' = Append(stamps, clock) /\ rows' = rows /\ AllWritten
    BY <1>3 DEF BeginRound, AllWritten
  <2>2. Round' = Round + 1 /\ RoundRows(Round - 1)' = RoundRows(Round)
    BY <1>0, <2>1, RoundRowsAppend
  <2>3. Monitoring /\ Written = Sampled
    BY <2>1, WrittenAll
  <2>4. (pc' = "disk" /\ idx' = 0) \/ (pc' = "cpu" /\ NumDisks = 0)
    BY <1>0, <1>3 DEF BeginRound, FromStore
  <2>5. Monitoring' /\ Written' = {}
    BY <1>0, <2>4 DEF Written, Discs, Monitoring
  <2>6. \A s \in Sampled : rows[s] = RoundRows(Round)
    BY <2>3 DEF RowsInv
  <2>7. RowsInv'
    BY <2>1, <2>2, <2>3, <2>5, <2>6 DEF RowsInv
  <2> QED
    BY <2>5, <2>7 DEF FreshInv
<1>4. CASE GetDiskData
  <2>1. idx \in 0 .. NumDisks - 1 /\ Round >= 1
    BY <1>4 DEF GetDiskData, TypesInv, IdxInv, StampsInv, StartupSteps
  <2> QED
    BY <1>0, <1>4, <2>1, WrittenDisk, InsertRows, SeriesTypes DEF GetDiskData
<1>5. CASE GetCPUData \/ GetMemoryData \/ GetNetworkData
  <2>1. Round >= 1 /\ Monitoring /\ Monitoring'
    BY <1>5 DEF GetCPUData, GetMemoryData, GetNetworkData, TypesInv, StampsInv, StartupSteps,
                Monitoring
  <2>2. Cpu \in Sampled /\ Ram \in Sampled /\ Net \in Sampled
    BY DEF Sampled
  <2> QED
    BY <1>0, <1>5, <2>1, <2>2, WrittenOthers, InsertRows
    DEF GetCPUData, GetMemoryData, GetNetworkData
<1>6. CASE CullTable
  <2>1. AllWritten /\ AllWritten'
    BY <1>6 DEF CullTable, AllWritten
  <2> QED
    BY <1>6, <2>1, CullKeepsRows, KeepRows
<1>7. CASE NewUI \/ CreateUI \/ Sleep \/ ComputeCutoff \/ Refresh
  <2>1. AllWritten /\ AllWritten' /\ UNCHANGED <<rows, stamps>>
    BY <1>7 DEF NewUI, CreateUI, Sleep, ComputeCutoff, Refresh, QueryPanel, SetLabels,
                LabelsDone, RedrawChart, NextPanel, AllWritten
  <2> QED
    BY <2>1, KeepRows
<1>8. CASE InsertRejected \/ CloseWindow \/ Crash \/ StatementFails \/ Tick \/ StepBack
           \/ UNCHANGED vars
  <2>1. UNCHANGED <<pc, idx, rows, stamps>>
    BY <1>8 DEF InsertRejected, CloseWindow, Crash, StatementFails, Tick, StepBack, vars
  <2> QED
    BY <2>1 DEF RowsInv, FreshInv, Monitoring, Written, Round, RoundStamp, RoundRows, RowOf
<1> QED
  BY <1>1, <1>2, <1>3, <1>4, <1>5, <1>6, <1>7, <1>8
  DEF Next, MainThread, Startup, Collect, Cull, World

-----------------------------------------------------------------------------
\* Rejected inserts

\* The steps that insert a sample, each with the series it inserts into.
LEMMA InsertingSteps ==
    ASSUME NumDisks \in Nat, TypesInv, NEW s \in Inserting
    PROVE  /\ s \in Sampled /\ s \notin Written /\ Monitoring /\ Round >= 1
           /\ pc \in {"disk", "cpu", "ram", "network"}
<1>1. \/ pc = "disk" /\ idx \in 0 .. NumDisks - 1 /\ s = Disc(idx)
      \/ pc = "cpu" /\ s = Cpu
      \/ pc = "ram" /\ s = Ram
      \/ pc = "network" /\ s = Net
  BY DEF Inserting, TypesInv, IdxInv
<1>2. Monitoring /\ Round >= 1 /\ pc \in {"disk", "cpu", "ram", "network"}
  BY <1>1 DEF Monitoring, TypesInv, StampsInv, StartupSteps
<1>3. s \in Sampled
  BY <1>1 DEF Sampled, Discs
<1>4. s \notin Written
  BY <1>1, SeriesDiffer DEF Written
<1> QED
  BY <1>2, <1>3, <1>4

\* Behind the first insert of a round no insert is rejected.
LEMMA NotRejected ==
    ASSUME NumDisks \in Nat, TypesInv, SchemaInv, RowsInv, FreshInv,
           NEW s \in Inserting, Written # {}
    PROVE  ~ Rejected(s)
<1>1. s \in Sampled /\ s \notin Written /\ Monitoring
  BY InsertingSteps
<1>2. rows[s] = RoundRows(Round - 1)
  BY <1>1 DEF RowsInv
<1>3. \A k \in 1 .. Round - 1 : stamps[k] # RoundStamp
  BY <1>1 DEF FreshInv
<1>4. TableOf(s) \in schema
  BY <1>1, SeriesTypes, SeriesTables DEF SchemaInv, Monitoring
<1> QED
  BY <1>2, <1>3, <1>4 DEF Rejected, RoundRows, RowOf

LEMMA StepZombie ==
    TypesInv /\ SchemaInv /\ RowsInv /\ FreshInv /\ ZombieOnlyByFault /\ [Next]_vars
        => ZombieOnlyByFault'
<1> SUFFICES ASSUME TypesInv, SchemaInv, RowsInv, FreshInv, ZombieOnlyByFault, [Next]_vars
             PROVE  ZombieOnlyByFault'
  OBVIOUS
<1>0. /\ NumDisks \in Nat /\ TypeOK
      /\ {"tick", "stepBack", "fault", "start"} \subseteq Events
      /\ \A e \in Events : spent[e] \in Nat
  BY NumDisksAssumption DEF TypesInv, TypeOK, Events
<1>1. CASE StatementFails
  <2>1. spent'["fault"] = spent["fault"] + 1
    BY <1>0, <1>1, SpendTypes DEF StatementFails
  <2> QED
    BY <1>0, <2>1 DEF ZombieOnlyByFault
<1>2. CASE InsertRejected
  <2> SUFFICES ASSUME NumDisks > 0 PROVE proc' # "zombie"
    BY DEF ZombieOnlyByFault
  <2>1. PICK s \in Inserting : Rejected(s)
    BY <1>2 DEF InsertRejected
  <2>2. Written = {} /\ pc \in {"disk", "cpu", "ram", "network"}
    BY <1>0, <2>1, NotRejected, InsertingSteps
  <2>3. Disc(0) \in Discs
    BY <1>0 DEF Discs
  <2>4. pc = "disk"
    BY <2>2, <2>3 DEF Written
  <2> QED
    BY <1>2, <2>4 DEF InsertRejected, MainDies, AfterException
<1>3. CASE Restart \/ CloseWindow \/ Crash
  BY <1>3 DEF Restart, CloseWindow, Crash, ZombieOnlyByFault
<1>4. CASE Tick \/ StepBack
  <2>1. spent'["fault"] = spent["fault"] /\ proc' = proc
    BY <1>0, <1>4, SpendTypes DEF Tick, StepBack
  <2> QED
    BY <2>1 DEF ZombieOnlyByFault
<1>5. CASE Startup \/ Cull \/ Refresh \/ Sleep \/ BeginRound \/ UNCHANGED vars
  <2>1. UNCHANGED <<proc, spent>>
    BY <1>5 DEF Startup, InitOSHI, DropTable, CreateTable, InitMachine, NewUI, CreateUI,
                Cull, ComputeCutoff, CullTable, Refresh, QueryPanel, SetLabels, LabelsDone,
                RedrawChart, Sleep, BeginRound, vars, worldVars
  <2> QED
    BY <2>1 DEF ZombieOnlyByFault
<1>6. CASE GetDiskData \/ GetCPUData \/ GetMemoryData \/ GetNetworkData
  <2>1. UNCHANGED <<proc, spent>>
    BY <1>6 DEF GetDiskData, GetCPUData, GetMemoryData, GetNetworkData, Insert, worldVars
  <2> QED
    BY <2>1 DEF ZombieOnlyByFault
<1> QED
  BY <1>1, <1>2, <1>3, <1>4, <1>5, <1>6 DEF Next, MainThread, Collect, World

-----------------------------------------------------------------------------
\* The invariant of the database

LEMMA InitDB == Init => DBInv
<1>1. Init => TypesInv
  BY InitTypesInv
<1>2. Init => SchemaInv /\ EmptyInv /\ RowsInv /\ FreshInv /\ ZombieOnlyByFault
  BY DEF Init, SchemaInv, EmptyInv, StartsEmpty, RowsInv, FreshInv, ZombieOnlyByFault, Monitoring
<1> QED
  BY <1>1, <1>2 DEF DBInv, TypesInv

LEMMA StepDB == DBInv /\ [Next]_vars => DBInv'
BY StepTypesInv, StepSchema, StepEmpty, StepRows, StepZombie DEF DBInv, TypesInv

\* However CRUM is interleaved with its window, its clock, failing statements,
\* crashes and restarts, crum.db holds whole rounds under one time stamp each,
\* the round under way being the only one that may be incomplete.
THEOREM CrumRoundsAligned == Spec => []RoundsAligned
<1>1. DBInv => RoundsAligned
  <2> SUFFICES ASSUME DBInv, Monitoring, NEW s \in Sampled
               PROVE  /\ RoundRows(Round - 1) \subseteq rows[s]
                      /\ rows[s] \subseteq RoundRows(Round)
    BY DEF RoundsAligned
  <2>1. rows[s] = RoundRows(Round) \/ rows[s] = RoundRows(Round - 1)
    BY DEF DBInv, RowsInv
  <2>2. Round \in Nat
    BY RoundTypes DEF DBInv
  <2>3. RoundRows(Round - 1) \subseteq RoundRows(Round)
    BY <2>2 DEF RoundRows
  <2> QED
    BY <2>1, <2>3
<1> QED
  BY InitDB, StepDB, <1>1, PTL DEF Spec

\* A run meets an empty database, wherever the run before it stopped.
THEOREM CrumStartsEmpty == Spec => []StartsEmpty
<1>1. DBInv => StartsEmpty
  BY DEF DBInv, EmptyInv
<1> QED
  BY InitDB, StepDB, <1>1, PTL DEF Spec

\* The machine's row outlives every cull, so no sample refers to a missing one.
THEOREM CrumNoOrphans == Spec => []NoOrphans
<1>1. DBInv => NoOrphans
  BY DEF DBInv, RowsInv, NoOrphans
<1> QED
  BY InitDB, StepDB, <1>1, PTL DEF Spec

\* Whatever the clock does, an insert is rejected only as the first of its round.
THEOREM CrumNoHalfRound == Spec => []NoHalfRound
<1>1. DBInv => NoHalfRound
  <2> SUFFICES ASSUME DBInv, NEW s \in Inserting, Rejected(s), NEW q \in Sampled
               PROVE  RowOf(Round) \notin rows[q]
    BY DEF NoHalfRound
  <2>1. TypesInv /\ NumDisks \in Nat
    BY NumDisksAssumption DEF DBInv, TypesInv
  <2>2. Written = {} /\ Monitoring
    BY <2>1, NotRejected, InsertingSteps DEF DBInv
  <2>3. rows[q] = RoundRows(Round - 1)
    BY <2>2 DEF DBInv, RowsInv
  <2>4. Round \in Nat
    BY RoundTypes DEF DBInv
  <2> SUFFICES ASSUME NEW k \in 1 .. Round - 1, RowOf(Round) = RowOf(k) PROVE FALSE
    BY <2>3 DEF RoundRows
  <2>5. RowOf(Round).round = Round /\ RowOf(k).round = k
    BY DEF RowOf
  <2> QED
    BY <2>4, <2>5
<1> QED
  BY InitDB, StepDB, <1>1, PTL DEF Spec

\* With a disk to sample, a clock set back cannot leave a window that is frozen.
THEOREM CrumZombieOnlyByFault == Spec => []ZombieOnlyByFault
<1>1. DBInv => ZombieOnlyByFault
  BY DEF DBInv
<1> QED
  BY InitDB, StepDB, <1>1, PTL DEF Spec

-----------------------------------------------------------------------------
\* The panels

LEMMA PanelDiffer ==
    \A k, n \in 0 .. LastPanel : PanelAt(k) = PanelAt(n) => k = n
<1>1. NumDisks \in Nat /\ LastPanel = NumDisks + 3
  BY NumDisksAssumption DEF LastPanel
<1>2. /\ PanelAt(0) = Machine
      /\ \A k \in 1 .. NumDisks : PanelAt(k) = Disc(k - 1) /\ Disc(k - 1) \in Discs
      /\ PanelAt(NumDisks + 1) = Cpu
      /\ PanelAt(NumDisks + 2) = Ram
      /\ PanelAt(NumDisks + 3) = Net
  <2>1. ASSUME NEW k \in 1 .. NumDisks
        PROVE  PanelAt(k) = Disc(k - 1) /\ Disc(k - 1) \in Discs
    BY <1>1 DEF PanelAt, Discs
  <2>2. PanelAt(NumDisks + 1) = Cpu
    BY <1>1 DEF PanelAt
  <2>3. PanelAt(NumDisks + 2) = Ram
    BY <1>1 DEF PanelAt
  <2>4. PanelAt(NumDisks + 3) = Net
    BY <1>1 DEF PanelAt
  <2>5. PanelAt(0) = Machine
    BY <1>1 DEF PanelAt
  <2> QED
    BY <2>1, <2>2, <2>3, <2>4, <2>5
<1>3. \A d \in Discs : d # Machine /\ d # Cpu /\ d # Ram /\ d # Net
  BY SeriesDiffer DEF Sampled
<1>4. Machine # Cpu /\ Machine # Ram /\ Machine # Net /\ Cpu # Ram /\ Cpu # Net /\ Ram # Net
  BY SeriesDiffer DEF Sampled
<1> SUFFICES ASSUME NEW k \in 0 .. LastPanel, NEW n \in 0 .. LastPanel,
                    PanelAt(k) = PanelAt(n)
             PROVE  k = n
  OBVIOUS
<1>5. k = 0 \/ k \in 1 .. NumDisks \/ k = NumDisks + 1 \/ k = NumDisks + 2 \/ k = NumDisks + 3
  BY <1>1
<1>6. n = 0 \/ n \in 1 .. NumDisks \/ n = NumDisks + 1 \/ n = NumDisks + 2 \/ n = NumDisks + 3
  BY <1>1
<1>7. CASE k \in 1 .. NumDisks /\ n \in 1 .. NumDisks
  <2>1. k - 1 = n - 1
    BY <1>2, <1>7, SeriesDiffer
  <2> QED
    BY <1>1, <1>7, <2>1
<1> QED
  BY <1>2, <1>3, <1>4, <1>5, <1>6, <1>7

\* Only StepBack counts as setting the clock back, and nothing undoes it.
LEMMA ClockFrame ==
    TypeOK /\ [Next]_vars /\ spent'["stepBack"] = 0 => spent["stepBack"] = 0 /\ ~ StepBack
<1> SUFFICES ASSUME TypeOK, [Next]_vars, spent'["stepBack"] = 0
             PROVE  spent["stepBack"] = 0 /\ ~ StepBack
  OBVIOUS
<1>0. /\ {"tick", "stepBack", "fault", "start"} \subseteq Events
      /\ \A e \in Events : spent[e] \in Nat
  BY DEF TypeOK, Events
<1>1. CASE StepBack
  BY <1>0, <1>1, SpendTypes DEF StepBack
<1>2. CASE Tick \/ StatementFails \/ Restart
  <2>1. spent'["stepBack"] = spent["stepBack"]
    BY <1>0, <1>2, SpendTypes DEF Tick, StatementFails, Restart
  <2> QED
    BY <1>1, <2>1
<1>3. CASE UNCHANGED spent
  BY <1>1, <1>3
<1>4. Startup \/ Cull \/ Refresh \/ Sleep \/ BeginRound \/ UNCHANGED vars => UNCHANGED spent
  BY DEF Startup, InitOSHI, DropTable, CreateTable, InitMachine, NewUI, CreateUI,
         Cull, ComputeCutoff, CullTable, Refresh, QueryPanel, SetLabels, LabelsDone,
         RedrawChart, Sleep, BeginRound, vars, worldVars
<1>5. GetDiskData \/ GetCPUData \/ GetMemoryData \/ GetNetworkData \/ InsertRejected
        \/ CloseWindow \/ Crash => UNCHANGED spent
  BY DEF GetDiskData, GetCPUData, GetMemoryData, GetNetworkData, Insert, InsertRejected,
         CloseWindow, Crash, worldVars
<1> QED
  BY <1>1, <1>2, <1>3, <1>4, <1>5 DEF Next, MainThread, Collect, World

LEMMA StepClock == TypeOK /\ TypeOK' /\ ClockInv /\ [Next]_vars => ClockInv'
<1> SUFFICES ASSUME TypeOK, TypeOK', ClockInv, [Next]_vars, spent'["stepBack"] = 0
             PROVE  \A k \in 1 .. Round' : stamps'[k] =< RoundStamp' /\ stamps'[k] =< clock'
  BY DEF ClockInv
<1>0. ~ StepBack /\ \A k \in 1 .. Round : stamps[k] =< RoundStamp /\ stamps[k] =< clock
  BY ClockFrame DEF ClockInv
<1>1. /\ stamps \in Seq(Nat) /\ clock \in Nat /\ Round \in Nat
      /\ \A k \in 1 .. Round : stamps[k] \in Nat
  BY RoundTypes DEF TypeOK
<1>2. CASE BeginRound
  <2>1. stamps' = Append(stamps, clock) /\ clock' = clock
    BY <1>2 DEF BeginRound, worldVars
  <2>2. Round' = Round + 1 /\ RoundStamp' = clock
        /\ \A k \in 1 .. Round : stamps'[k] = stamps[k]
    BY <1>1, <2>1 DEF Round, RoundStamp
  <2>3. stamps'[Round + 1] = clock
    BY <2>2 DEF RoundStamp
  <2>4. ASSUME NEW k \in 1 .. Round' PROVE stamps'[k] =< clock
    <3>1. k \in 1 .. Round \/ k = Round + 1
      BY <1>1, <2>2
    <3>2. CASE k \in 1 .. Round
      BY <1>0, <2>2, <3>2
    <3>3. CASE k = Round + 1
      BY <1>1, <2>3, <3>3
    <3> QED
      BY <3>1, <3>2, <3>3
  <2> QED
    BY <2>1, <2>2, <2>4
<1>3. CASE Restart
  BY <1>3 DEF Restart, Round
<1>4. CASE UNCHANGED stamps /\ clock' \in {clock, clock + 1}
  <2>1. Round' = Round /\ RoundStamp' = RoundStamp
    BY <1>4 DEF Round, RoundStamp
  <2> QED
    BY <1>0, <1>1, <1>4, <2>1
<1>5. Startup \/ Cull \/ Refresh \/ Sleep \/ UNCHANGED vars
        => UNCHANGED stamps /\ clock' \in {clock, clock + 1}
  BY DEF Startup, InitOSHI, DropTable, CreateTable, InitMachine, NewUI, CreateUI,
         Cull, ComputeCutoff, CullTable, Refresh, QueryPanel, SetLabels, LabelsDone,
         RedrawChart, Sleep, vars, worldVars
<1>6. GetDiskData \/ GetCPUData \/ GetMemoryData \/ GetNetworkData \/ InsertRejected
        => UNCHANGED stamps /\ clock' \in {clock, clock + 1}
  BY DEF GetDiskData, GetCPUData, GetMemoryData, GetNetworkData, Insert, InsertRejected,
         worldVars
<1>7. CloseWindow \/ Crash \/ StatementFails \/ Tick
        => UNCHANGED stamps /\ clock' \in {clock, clock + 1}
  BY DEF CloseWindow, Crash, StatementFails, Tick, worldVars
<1> QED
  BY <1>0, <1>2, <1>3, <1>4, <1>5, <1>6, <1>7 DEF Next, MainThread, Collect, World

\* Once all collectors have written, the row to be shown is in every series.
LEMMA NewestExists ==
    ASSUME TypeOK, RowsInv, AllWritten, Round >= 1, NEW s \in Series
    PROVE  \E r \in rows[s] : Newest(s, r)
<1>1. Monitoring /\ Written = Sampled
  BY WrittenAll
<1>2. CASE s = Machine
  BY <1>1, <1>2 DEF RowsInv, Newest
<1>3. CASE s \in Sampled
  <2>1. rows[s] = RoundRows(Round) /\ Round \in Nat
    BY <1>1, <1>3, RoundTypes DEF RowsInv
  <2>2. RowOf(Round) \in rows[s]
    BY <2>1 DEF RoundRows
  <2> QED
    BY <2>2 DEF Newest
<1> QED
  BY <1>2, <1>3 DEF Series

\* The ResultSet returns the row to be shown last: in rowid order because it was
\* inserted last, in index order because its time stamp is the largest.
LEMMA NewestLast ==
    ASSUME TypeOK, RowsInv, FreshInv, ClockInv, AllWritten, Round >= 1,
           NEW s \in Series, Promised(s), pending \subseteq rows[s],
           NEW q \in pending, Newest(s, q), NEW r \in pending, ReadNext(s, r)
    PROVE  \/ \E p \in pending \ {r} : Newest(s, p)
           \/ pending \ {r} = {} /\ Newest(s, r)
<1>1. CASE r # q
  BY <1>1
<1>2. CASE r = q
  <2> SUFFICES ASSUME NEW p \in pending PROVE p = r
    BY <1>2
  <2>1. Monitoring /\ Written = Sampled
    BY WrittenAll
  <2>2. CASE s = Machine
    BY <2>1, <2>2 DEF RowsInv
  <2>3. CASE s \in Sampled
    <3>1. rows[s] = RoundRows(Round) /\ s # Machine
      BY <2>1, <2>3, SeriesDiffer DEF RowsInv
    <3>2. r = RowOf(Round)
      BY <1>2, <3>1 DEF Newest
    <3>3. PICK k \in 1 .. Round : p = RowOf(k)
      BY <3>1 DEF RoundRows
    <3>4. /\ Round \in Nat /\ RoundStamp \in Nat /\ stamps[k] \in Nat
          /\ r.round = Round /\ r.ts = RoundStamp /\ p.round = k /\ p.ts = stamps[k]
      BY <3>2, <3>3, RoundTypes DEF RowOf, RoundStamp
    <3>5. k = Round
      <4>1. CASE s \in Discs
        <5>1. r.ts =< p.ts
          BY <4>1 DEF ReadNext
        <5>2. stamps[k] =< RoundStamp
          BY <4>1 DEF Promised, ClockInv
        <5>3. Written # {}
          BY <2>1, <2>3
        <5>4. k \in 1 .. Round - 1 => stamps[k] # RoundStamp
          BY <2>1, <5>3 DEF FreshInv
        <5> QED
          BY <3>4, <5>1, <5>2, <5>4
      <4>2. CASE s \notin Discs
        <5>1. r.round =< p.round
          BY <4>2 DEF ReadNext
        <5> QED
          BY <3>4, <5>1
      <4> QED
        BY <4>1, <4>2
    <3> QED
      BY <3>2, <3>3, <3>5
  <2> QED
    BY <2>2, <2>3 DEF Series
<1> QED
  BY <1>1, <1>2

\* Outside refresh and the sleep after it the panels are promised nothing.
LEMMA PanelOutside ==
    pc' \notin PanelSteps \union {"sleep"} \/ (pc' = "query" /\ idx' = 0) => PanelInv'
<1> SUFFICES ASSUME pc' \notin PanelSteps \union {"sleep"} \/ (pc' = "query" /\ idx' = 0)
             PROVE  PanelInv'
  OBVIOUS
<1>1. LastPanel \in Nat
  BY NumDisksAssumption DEF LastPanel
<1>2. LabelsSet' = {} /\ ChartsDrawn' = {}
  BY <1>1 DEF LabelsSet, ChartsDrawn, PanelSteps
<1> QED
  BY <1>2 DEF PanelInv, PanelSteps

\* While database and rounds stand still it is enough that the new labels and
\* charts, and what is left of the ResultSet, keep the promises of before.
LEMMA PanelStep ==
    ASSUME TypeOK, [Next]_vars, UNCHANGED <<rows, stamps>>,
           \A k \in LabelsSet' : Promised(PanelAt(k)) => Newest(PanelAt(k), labels'[PanelAt(k)]),
           \A k \in ChartsDrawn' : charts'[PanelAt(k)] = RoundRows(Round),
           pc' = "labels" =>
               /\ pending' \subseteq rows[PanelAt(idx')]
               /\ Promised(PanelAt(idx')) =>
                     \/ \E r \in pending' : Newest(PanelAt(idx'), r)
                     \/ pending' = {} /\ Newest(PanelAt(idx'), labels'[PanelAt(idx')])
    PROVE  PanelInv'
<1>1. \A s : Promised(s)' => Promised(s)
  BY ClockFrame DEF Promised
<1>2. \A s, r : Newest(s, r)' <=> Newest(s, r)
  BY DEF Newest, RowOf, Round
<1>3. RoundRows(Round)' = RoundRows(Round)
  BY DEF RoundRows, RowOf, Round
<1>4. \A k \in LabelsSet' : (Promised(PanelAt(k)) => Newest(PanelAt(k), labels[PanelAt(k)]))'
  <2> SUFFICES ASSUME NEW k \in LabelsSet', Promised(PanelAt(k))'
               PROVE  Newest(PanelAt(k), labels[PanelAt(k)])'
    OBVIOUS
  <2>1. Promised(PanelAt(k))
    BY <1>1
  <2>2. Newest(PanelAt(k), labels'[PanelAt(k)])
    BY <2>1
  <2> QED
    BY <2>2 DEF Newest, RowOf, Round
<1>5. ASSUME pc' = "labels", Promised(PanelAt(idx))'
      PROVE  (\/ \E r \in pending : Newest(PanelAt(idx), r)
              \/ pending = {} /\ Newest(PanelAt(idx), labels[PanelAt(idx)]))'
  <2>1. Promised(PanelAt(idx'))
    BY <1>5, ClockFrame DEF Promised, PanelAt
  <2>2. \/ \E r \in pending' : Newest(PanelAt(idx'), r)
        \/ pending' = {} /\ Newest(PanelAt(idx'), labels'[PanelAt(idx')])
    BY <1>5, <2>1
  <2> QED
    BY <2>2 DEF Newest, RowOf, Round
<1> QED
  BY <1>3, <1>4, <1>5 DEF PanelInv

\* A step that changes nothing the panels are about.
LEMMA PanelFrame ==
    ASSUME TypeOK, PanelInv, [Next]_vars,
           UNCHANGED <<pc, idx, labels, charts, rows, stamps, pending>>
    PROVE  PanelInv'
<1>1. LabelsSet' = LabelsSet /\ ChartsDrawn' = ChartsDrawn
  BY DEF LabelsSet, ChartsDrawn
<1> QED
  BY <1>1, PanelStep DEF PanelInv

\* Behind the collectors a panel's query returns the row to be shown.
LEMMA StepQuery ==
    ASSUME TypeOK, IdxInv, StampsInv, RowsInv, PanelInv, [Next]_vars, QueryPanel
    PROVE  PanelInv'
<1>1. /\ pc = "query" /\ pc' = "labels" /\ idx' = idx /\ pending' = rows[PanelAt(idx)]
      /\ UNCHANGED <<labels, charts, rows, stamps>>
  BY DEF QueryPanel, dbVars, At, Goto
<1>2. LabelsSet' = LabelsSet /\ ChartsDrawn' = ChartsDrawn
  BY <1>1 DEF LabelsSet, ChartsDrawn, PanelSteps
<1>3. \E r \in rows[PanelAt(idx)] : Newest(PanelAt(idx), r)
  <2>1. AllWritten /\ Round >= 1 /\ PanelAt(idx) \in Series
    BY <1>1, PanelTypes DEF AllWritten, StampsInv, StartupSteps, IdxInv, PanelSteps
  <2> QED
    BY <2>1, NewestExists
<1>4. \A k \in LabelsSet' : Promised(PanelAt(k)) => Newest(PanelAt(k), labels'[PanelAt(k)])
  BY <1>1, <1>2 DEF PanelInv
<1>5. \A k \in ChartsDrawn' : charts'[PanelAt(k)] = RoundRows(Round)
  BY <1>1, <1>2 DEF PanelInv
<1> QED
  BY <1>1, <1>3, <1>4, <1>5, PanelStep

\* Each row of the ResultSet overwrites the labels of its panel and no other.
LEMMA StepLabels ==
    ASSUME TypeOK, IdxInv, StampsInv, RowsInv, FreshInv, ClockInv, PanelInv, [Next]_vars,
           SetLabels
    PROVE  PanelInv'
<1>1. pc = "labels" /\ UNCHANGED <<pc, idx, charts, rows, stamps>>
  BY DEF SetLabels, dbVars, At
<1>2. PICK r \in pending :
           /\ ReadNext(PanelAt(idx), r)
           /\ labels' = [labels EXCEPT ![PanelAt(idx)] = r]
           /\ pending' = pending \ {r}
  BY DEF SetLabels
<1>3. idx \in 0 .. LastPanel /\ PanelAt(idx) \in Series /\ AllWritten /\ Round >= 1
  BY <1>1, PanelTypes DEF AllWritten, StampsInv, StartupSteps, IdxInv, PanelSteps
<1>4. /\ labels'[PanelAt(idx)] = r
      /\ \A k \in 0 .. LastPanel : k # idx => labels'[PanelAt(k)] = labels[PanelAt(k)]
  BY <1>2, <1>3, PanelTypes, PanelDiffer DEF TypeOK
<1>5. LabelsSet' = LabelsSet /\ ChartsDrawn' = ChartsDrawn
  BY <1>1 DEF LabelsSet, ChartsDrawn
<1>6. \A k \in LabelsSet : k \in 0 .. LastPanel /\ k # idx
  BY <1>1, <1>3 DEF LabelsSet
<1>7. \A k \in LabelsSet' : Promised(PanelAt(k)) => Newest(PanelAt(k), labels'[PanelAt(k)])
  BY <1>4, <1>5, <1>6 DEF PanelInv
<1>8. \A k \in ChartsDrawn' : charts'[PanelAt(k)] = RoundRows(Round)
  BY <1>1, <1>5 DEF PanelInv
<1>9. pending' \subseteq rows[PanelAt(idx)]
  BY <1>1, <1>2 DEF PanelInv
<1>10. ASSUME Promised(PanelAt(idx))
       PROVE  \/ \E t \in pending' : Newest(PanelAt(idx), t)
              \/ pending' = {} /\ Newest(PanelAt(idx), labels'[PanelAt(idx)])
  <2>1. pending \subseteq rows[PanelAt(idx)]
    BY <1>1 DEF PanelInv
  <2>2. PICK q \in pending : Newest(PanelAt(idx), q)
    BY <1>1, <1>2, <1>10 DEF PanelInv
  <2>3. \/ \E p \in pending \ {r} : Newest(PanelAt(idx), p)
        \/ pending \ {r} = {} /\ Newest(PanelAt(idx), r)
    BY <1>2, <1>3, <1>10, <2>1, <2>2, NewestLast
  <2> QED
    BY <1>2, <1>4, <2>3
<1> QED
  BY <1>1, <1>7, <1>8, <1>9, <1>10, PanelStep

\* A panel left behind keeps its labels, and its chart is drawn if it has one.
LEMMA StepLabelsDone ==
    ASSUME TypeOK, IdxInv, PanelInv, [Next]_vars, LabelsDone
    PROVE  PanelInv'
<1>1. /\ pc = "labels" /\ pending = {} /\ UNCHANGED <<labels, charts, rows, stamps>>
      /\ \/ PanelAt(idx) \in Charted /\ pc' = "chart" /\ idx' = idx
         \/ PanelAt(idx) \notin Charted /\ pc' = "query" /\ idx' = idx + 1
         \/ PanelAt(idx) \notin Charted /\ pc' = "sleep" /\ ~ (idx < LastPanel)
  BY DEF LabelsDone, NextPanel, dbVars, uiVars, At, Goto
<1>2. idx \in 0 .. LastPanel /\ LastPanel \in Nat
  BY <1>1, NumDisksAssumption DEF IdxInv, PanelSteps, LastPanel
<1>3. \A k \in LabelsSet' : k \in LabelsSet \/ k = idx
  BY <1>1, <1>2 DEF LabelsSet, PanelSteps
<1>4. \A k \in ChartsDrawn' : k \in ChartsDrawn
  BY <1>1, <1>2, <1>3 DEF ChartsDrawn
<1>5. Promised(PanelAt(idx)) => Newest(PanelAt(idx), labels[PanelAt(idx)])
  BY <1>1 DEF PanelInv
<1>6. \A k \in LabelsSet' : Promised(PanelAt(k)) => Newest(PanelAt(k), labels'[PanelAt(k)])
  BY <1>1, <1>3, <1>5 DEF PanelInv
<1>7. \A k \in ChartsDrawn' : charts'[PanelAt(k)] = RoundRows(Round)
  BY <1>1, <1>4 DEF PanelInv
<1> QED
  BY <1>1, <1>6, <1>7, PanelStep

\* The dataset query loads every row of the series, all rounds of the run.
LEMMA StepChart ==
    ASSUME TypeOK, IdxInv, RowsInv, PanelInv, [Next]_vars, RedrawChart
    PROVE  PanelInv'
<1>1. /\ pc = "chart" /\ UNCHANGED <<labels, rows, stamps>>
      /\ charts' = [charts EXCEPT ![PanelAt(idx)] = rows[PanelAt(idx)]]
      /\ \/ pc' = "query" /\ idx' = idx + 1
         \/ pc' = "sleep" /\ ~ (idx < LastPanel)
  BY DEF RedrawChart, NextPanel, dbVars, At, Goto
<1>2. idx \in 0 .. LastPanel /\ LastPanel \in Nat /\ PanelAt(idx) \in Charted
  BY <1>1, NumDisksAssumption DEF IdxInv, PanelSteps, LastPanel
<1>3. \A k \in LabelsSet' : k \in LabelsSet
  BY <1>1, <1>2 DEF LabelsSet, PanelSteps
<1>4. \A k \in ChartsDrawn' : k \in ChartsDrawn \/ k = idx
  BY <1>1, <1>2, <1>3 DEF ChartsDrawn
<1>5. rows[PanelAt(idx)] = RoundRows(Round)
  <2>1. AllWritten /\ PanelAt(idx) \in Sampled
    BY <1>1, <1>2 DEF AllWritten, Charted, Sampled
  <2> QED
    BY <2>1, WrittenAll DEF RowsInv
<1>6. \A k \in 0 .. LastPanel : k # idx => charts'[PanelAt(k)] = charts[PanelAt(k)]
  BY <1>1, <1>2, PanelDiffer DEF TypeOK
<1>7. charts'[PanelAt(idx)] = RoundRows(Round)
  BY <1>1, <1>2, <1>5 DEF TypeOK
<1>8. \A k \in ChartsDrawn' : charts'[PanelAt(k)] = RoundRows(Round)
  <2>1. \A k \in ChartsDrawn : k \in 0 .. LastPanel
    BY DEF ChartsDrawn, LabelsSet
  <2> QED
    BY <1>4, <1>6, <1>7, <2>1 DEF PanelInv
<1>9. \A k \in LabelsSet' : Promised(PanelAt(k)) => Newest(PanelAt(k), labels'[PanelAt(k)])
  BY <1>1, <1>3 DEF PanelInv
<1> QED
  BY <1>1, <1>8, <1>9, PanelStep

LEMMA StepPanel == DBInv /\ DBInv' /\ ClockInv /\ PanelInv /\ [Next]_vars => PanelInv'
<1> SUFFICES ASSUME DBInv, DBInv', ClockInv, PanelInv, [Next]_vars PROVE PanelInv'
  OBVIOUS
<1>0. TypeOK /\ IdxInv /\ StampsInv /\ RowsInv /\ FreshInv
  BY DEF DBInv
<1>1. CASE Startup \/ BeginRound \/ ComputeCutoff \/ CullTable \/ Sleep \/ Restart
  <2>1. pc' \notin PanelSteps \union {"sleep"} \/ (pc' = "query" /\ idx' = 0)
    BY <1>1 DEF Startup, InitOSHI, DropTable, CreateTable, InitMachine, NewUI, CreateUI,
                BeginRound, FromStore, ComputeCutoff, CullTable, Sleep, Restart, PanelSteps, Goto
  <2> QED
    BY <2>1, PanelOutside
<1>2. CASE GetDiskData \/ GetCPUData \/ GetMemoryData \/ GetNetworkData
  <2>1. pc' \in {"disk", "cpu", "ram", "network", "cutoff"}
    BY <1>2 DEF GetDiskData, FromStore, GetCPUData, GetMemoryData, GetNetworkData, Goto
  <2> QED
    BY <2>1, PanelOutside DEF PanelSteps
<1>3. CASE QueryPanel
  BY <1>0, <1>3, StepQuery
<1>4. CASE SetLabels
  BY <1>0, <1>4, StepLabels
<1>5. CASE LabelsDone
  BY <1>0, <1>5, StepLabelsDone
<1>6. CASE RedrawChart
  BY <1>0, <1>6, StepChart
<1>7. CASE InsertRejected \/ CloseWindow \/ Crash \/ StatementFails \/ Tick \/ StepBack
           \/ UNCHANGED vars
  <2>1. UNCHANGED <<pc, idx, labels, charts, rows, stamps, pending>>
    BY <1>7 DEF InsertRejected, CloseWindow, Crash, StatementFails, Tick, StepBack, vars,
                dbVars, uiVars
  <2> QED
    BY <1>0, <2>1, PanelFrame
<1> QED
  BY <1>1, <1>2, <1>3, <1>4, <1>5, <1>6, <1>7
  DEF Next, MainThread, Collect, Cull, Refresh, World

LEMMA InitInv == Init => IInv
<1> SUFFICES ASSUME Init PROVE IInv
  OBVIOUS
<1>1. LabelsSet = {} /\ ChartsDrawn = {}
  BY DEF Init, LabelsSet, ChartsDrawn, PanelSteps
<1>2. PanelInv
  BY <1>1 DEF Init, PanelInv
<1>3. ClockInv
  BY DEF Init, ClockInv, Round
<1> QED
  BY InitDB, <1>2, <1>3 DEF IInv

LEMMA StepInv == IInv /\ [Next]_vars => IInv'
BY StepDB, StepClock, StepPanel DEF IInv, DBInv

\* Database, window, clock and program counter stay in step, for any number of
\* disks, rounds, faults and restarts: the invariant behind the properties.
THEOREM CrumInvariant == Spec => []IInv
BY InitInv, StepInv, PTL DEF Spec

\* When main goes to sleep every promised panel shows the latest round.
LEMMA PanelsAtSleep ==
    ASSUME IInv, pc = "sleep"
    PROVE  /\ \A s \in Series : Promised(s) => Newest(s, labels[s])
           /\ \A s \in Charted : charts[s] = RoundRows(Round)
<1>1. /\ NumDisks \in Nat /\ LastPanel = NumDisks + 3
      /\ LabelsSet = 0 .. LastPanel
  BY NumDisksAssumption DEF LabelsSet, LastPanel
<1>2. /\ \A k \in 0 .. LastPanel : Promised(PanelAt(k)) => Newest(PanelAt(k), labels[PanelAt(k)])
      /\ \A k \in 0 .. LastPanel : PanelAt(k) \in Charted => charts[PanelAt(k)] = RoundRows(Round)
  BY <1>1 DEF IInv, PanelInv, ChartsDrawn
<1>3. \A s \in Charted : \E k \in 0 .. LastPanel : PanelAt(k) = s
  <2>1. PanelAt(NumDisks + 1) = Cpu
    BY <1>1 DEF PanelAt
  <2>2. PanelAt(NumDisks + 2) = Ram
    BY <1>1 DEF PanelAt
  <2>3. PanelAt(NumDisks + 3) = Net
    BY <1>1 DEF PanelAt
  <2> QED
    BY <1>1, <2>1, <2>2, <2>3 DEF Charted
<1>4. \A s \in Discs : \E k \in 0 .. LastPanel : PanelAt(k) = s
  <2> SUFFICES ASSUME NEW i \in 0 .. NumDisks - 1
               PROVE  \E k \in 0 .. LastPanel : PanelAt(k) = Disc(i)
    BY DEF Discs
  <2>1. i + 1 \in 1 .. NumDisks /\ i + 1 \in 0 .. LastPanel /\ (i + 1) - 1 = i
    BY <1>1
  <2>2. PanelAt(i + 1) = Disc(i)
    BY <1>1, <2>1 DEF PanelAt
  <2> QED
    BY <2>1, <2>2
<1>5. PanelAt(0) = Machine /\ 0 \in 0 .. LastPanel
  BY <1>1 DEF PanelAt
<1> QED
  BY <1>2, <1>3, <1>4, <1>5 DEF Series, Sampled, Charted

\* The CPU, RAM and network labels show the round just measured, and the main
\* tab the machine, whatever the clock has done.
THEOREM CrumPanelsCurrent == Spec => []PanelsCurrent
<1>1. IInv => PanelsCurrent
  <2> SUFFICES ASSUME IInv, pc = "sleep"
               PROVE  /\ \A s \in Charted : labels[s] = RowOf(Round)
                      /\ labels[Machine] \in rows[Machine]
    BY DEF PanelsCurrent, At
  <2>1. /\ \A s \in Charted : s \in Series /\ s \notin Discs /\ s # Machine
        /\ Machine \in Series /\ Machine \notin Discs
    BY SeriesDiffer DEF Series, Sampled, Charted
  <2>2. \A s \in Charted \union {Machine} : Newest(s, labels[s])
    BY <2>1, PanelsAtSleep DEF Promised
  <2> QED
    BY <2>1, <2>2 DEF Newest
<1> QED
  BY InitInv, StepInv, <1>1, PTL DEF Spec

\* So do the disk tabs while the clock was never set back: the index order in
\* which SQLite returns a disk's rows then ends with the row inserted last.
THEOREM CrumDiskPanelsCurrent == Spec => []DiskPanelsCurrent
<1>1. IInv => DiskPanelsCurrent
  <2> SUFFICES ASSUME IInv, pc = "sleep", spent["stepBack"] = 0, NEW s \in Discs
               PROVE  labels[s] = RowOf(Round)
    BY DEF DiskPanelsCurrent, At
  <2>1. s \in Series /\ s # Machine
    BY SeriesDiffer DEF Series, Sampled
  <2>2. Newest(s, labels[s])
    BY <2>1, PanelsAtSleep DEF Promised
  <2> QED
    BY <2>1, <2>2 DEF Newest
<1> QED
  BY InitInv, StepInv, <1>1, PTL DEF Spec

\* Each chart shows every round of the run, and no row of an earlier one.
THEOREM CrumChartsWhole == Spec => []ChartsWhole
<1>1. IInv => ChartsWhole
  BY PanelsAtSleep DEF ChartsWhole, At
<1> QED
  BY InitInv, StepInv, <1>1, PTL DEF Spec
=============================================================================
