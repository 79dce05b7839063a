-------------------------------- MODULE Crum --------------------------------
(***************************************************************************)
(* The CRUM process: start-up, the sampling loop of CRUM.main, the SQLite  *)
(* tables it fills, the cull, and the Swing window it refreshes.           *)
(*                                                                         *)
(* Three actors interleave: the main thread (one action per SQL statement, *)
(* ResultSet row or dataset query it executes), the Swing event thread     *)
(* (which may close the window, and paints whatever the labels hold), and  *)
(* the world (the wall clock, failing statements, a killed process).       *)
(*                                                                         *)
(* A row of a table is abstracted to the round that measured it and the    *)
(* time stamp it carries.  SQLite hands out increasing rowids, so the      *)
(* insertion order of a series is the order of the rows' rounds.           *)
(***************************************************************************)
EXTENDS Integers, Sequences

CONSTANTS
    NumDisks,       \* CRUM.numDisks: the number of file stores
    Day,            \* clock units in a day
    JulianLimit,    \* the first number SQLite does not take for a Julian day
    UnixEpochJD,    \* the Julian day on which the clock reads 0
    EarliestClock,  \* the earliest time a machine that runs CRUM may show
    Leftovers,      \* row sets an earlier version of CRUM may have left
    MaxRounds,      \* bound: rounds of the main loop in one run
    Limit           \* bound: how often each event of the world may happen

Events == {"tick", "stepBack", "fault", "start"}

ASSUME NumDisksAssumption == NumDisks \in Nat
ASSUME TimeAssumption ==
    /\ Day \in Nat \ {0}
    /\ JulianLimit \in Nat \ {0}
    /\ UnixEpochJD \in Nat
    /\ EarliestClock \in Nat
ASSUME BoundsAssumption == MaxRounds \in Nat /\ Limit \in [Events -> Nat]
\* JulianLimit is 5373484.5, an hour and a half into 1970 when it is read as
\* milliseconds: no clock that runs this program shows an earlier time.
ASSUME ClockAssumption == JulianLimit =< EarliestClock

Row == [round : Nat, ts : Nat]
Blank == [round |-> 0, ts |-> 0]

ASSUME LeftoversAssumption == Leftovers \subseteq SUBSET Row

-----------------------------------------------------------------------------
\* Series: the rows a panel selects.  The DISC table holds one series per
\* file store, every other table is one series.

Disc(i) == <<"DISC", i>>
Machine == <<"MACHINE", 0>>
Cpu == <<"CPU", 0>>
Ram == <<"RAM", 0>>
Net == <<"NETWORK", 0>>

Discs == {Disc(i) : i \in 0 .. NumDisks - 1}
Sampled == Discs \union {Cpu, Ram, Net}
Series == Sampled \union {Machine}
Charted == {Cpu, Ram, Net}
TableOf(s) == s[1]

Tables == {"MACHINE", "DISC", "CPU", "NETWORK", "RAM"}

\* A faulty variant: initDB forgets to drop a table.
DropOrderNoNetwork == <<"MACHINE", "DISC", "USER", "CPU", "RAM">>

DropOrder == <<"MACHINE", "DISC", "USER", "CPU", "NETWORK", "RAM">>

\* A faulty variant: a CREATE pasted twice in place of the last table.
CreateOrderNoRam == <<"MACHINE", "DISC", "CPU", "NETWORK", "NETWORK">>

CreateOrder == <<"MACHINE", "DISC", "CPU", "NETWORK", "RAM">>
CullOrder == <<"MACHINE", "DISC", "CPU", "RAM", "NETWORK">>

\* The order in which CrumUI.refresh visits the panels.
LastPanel == NumDisks + 3

\* A faulty variant: every disk panel is refreshed as disk 0.
PanelAtFirstDisk(k) ==
    CASE k = 0 -> Machine
      [] k \in 1 .. NumDisks -> Disc(0)
      [] k = NumDisks + 1 -> Cpu
      [] k = NumDisks + 2 -> Ram
      [] k = NumDisks + 3 -> Net

PanelAt(k) ==
    CASE k = 0 -> Machine
      [] k \in 1 .. NumDisks -> Disc(k - 1)
      [] k = NumDisks + 1 -> Cpu
      [] k = NumDisks + 2 -> Ram
      [] k = NumDisks + 3 -> Net

Steps == {"initOSHI", "drop", "create", "initMachine", "newUI", "createUI",
          "round", "disk", "cpu", "ram", "network", "cutoff", "cull",
          "query", "labels", "chart", "sleep"}

VARIABLES
    clock,    \* the wall clock, in time stamp units
    proc,     \* "running"; "zombie": main thread dead, window alive; "exited"
    pc,       \* the statement the main thread executes next, or died at
    idx,      \* index of the loop that statement is in
    stamps,   \* the calendar of each round of this run, the last one current
    cutoff,   \* cullDatabase's lastMonth
    schema,   \* the tables that exist in crum.db
    rows,     \* the rows of every series
    visible,  \* is the window on the screen
    pending,  \* rows the open ResultSet has not yet returned
    labels,   \* the row each panel's labels were last set from
    charts,   \* the rows each JDBCCategoryDataset holds
    spent     \* how often each event of the world has happened

dbVars == <<schema, rows>>
uiVars == <<visible, pending, labels, charts>>
worldVars == <<clock, spent>>
vars == <<clock, proc, pc, idx, stamps, cutoff, schema, rows,
          visible, pending, labels, charts, spent>>

TypeOK ==
    /\ clock \in Nat /\ clock >= EarliestClock
    /\ proc \in {"running", "zombie", "exited"}
    /\ pc \in Steps
    /\ idx \in Nat
    /\ stamps \in Seq(Nat)
    /\ cutoff \in Int
    /\ schema \in SUBSET (Tables \union {"USER"})
    /\ rows \in [Series -> SUBSET Row]
    /\ visible \in BOOLEAN
    /\ pending \in SUBSET Row
    /\ labels \in [Series -> Row]
    /\ charts \in [Charted -> SUBSET Row]
    /\ spent \in [Events -> Nat]

Init ==
    /\ clock = EarliestClock
    /\ proc = "running"
    /\ pc = "initOSHI"
    /\ idx = 0
    /\ stamps = <<>>
    /\ cutoff = 0
    /\ schema \in {{}, Tables \union {"USER"}}
    /\ \E old \in Leftovers :
           rows = [s \in Series |-> IF schema = {} THEN {} ELSE old]
    /\ visible = FALSE
    /\ pending = {}
    /\ labels = [s \in Series |-> Blank]
    /\ charts = [s \in Charted |-> {}]
    /\ spent = [e \in Events |-> 0]

-----------------------------------------------------------------------------
\* Helpers

At(p) == proc = "running" /\ pc = p
Goto(p, k) == pc' = p /\ idx' = k
Spend(e) == spent[e] < Limit[e] /\ spent' = [spent EXCEPT ![e] = @ + 1]

Round == Len(stamps)

\* A faulty variant: every collector takes a calendar of its own.
RoundStampOwn == clock

RoundStamp == stamps[Round]
RowOf(k) == [round |-> k, ts |-> stamps[k]]

\* A statement over a whole table changes the rows of each of its series.
InTable(t) == {s \in Series : TableOf(s) = t}

\* A faulty variant: getDiskData passes its exceptions on to main.
AfterExceptionPassedOn ==
    IF pc \in {"disk", "cpu", "ram", "network", "cull", "query", "labels", "chart"}
    THEN "zombie"
    ELSE "exited"

\* What main's unwinding leaves when the statement at pc throws: initDB and
\* getDiskData end the JVM themselves; before CrumUI's pack() no window keeps
\* the JVM alive; afterwards the event thread outlives the main thread.
AfterException ==
    IF pc \in {"cpu", "ram", "network", "cull", "query", "labels", "chart"}
    THEN "zombie"
    ELSE "exited"

MainDies ==
    /\ proc' = AfterException
    /\ visible' = (visible /\ AfterException = "zombie")

-----------------------------------------------------------------------------
\* Start-up: CRUM.initOSHI, initDB, initMachine, new CrumUI, createUI

InitOSHI ==
    /\ At("initOSHI")
    /\ Goto("drop", 1)
    /\ UNCHANGED <<proc, stamps, cutoff, dbVars, uiVars, worldVars>>

DropTable ==
    /\ At("drop")
    /\ schema' = schema \ {DropOrder[idx]}
    /\ rows' = [s \in Series |->
                   IF s \in InTable(DropOrder[idx]) THEN {} ELSE rows[s]]
    /\ IF idx < Len(DropOrder) THEN Goto("drop", idx + 1) ELSE Goto("create", 1)
    /\ UNCHANGED <<proc, stamps, cutoff, uiVars, worldVars>>

CreateTable ==
    /\ At("create")
    /\ schema' = schema \union {CreateOrder[idx]}
    /\ IF idx < Len(CreateOrder) THEN Goto("create", idx + 1) ELSE Goto("initMachine", 0)
    /\ UNCHANGED <<proc, stamps, cutoff, rows, uiVars, worldVars>>

\* The MACHINE table gets its only row here, under a calendar of its own.
InitMachine ==
    /\ At("initMachine")
    /\ rows' = [rows EXCEPT ![Machine] = @ \union {[round |-> 0, ts |-> clock]}]
    /\ Goto("newUI", 0)
    /\ UNCHANGED <<proc, stamps, cutoff, schema, uiVars, worldVars>>

\* The constructor queries the three datasets once, before the first sample.
NewUI ==
    /\ At("newUI")
    /\ charts' = [s \in Charted |-> rows[s]]
    /\ Goto("createUI", 0)
    /\ UNCHANGED <<proc, stamps, cutoff, dbVars, visible, pending, labels, worldVars>>

\* A faulty variant: setVisible is not called.
CreateUINotShown ==
    /\ At("createUI")
    /\ Goto("round", 0)
    /\ UNCHANGED <<proc, stamps, cutoff, dbVars, visible, pending, labels, charts, worldVars>>

CreateUI ==
    /\ At("createUI")
    /\ visible' = TRUE
    /\ Goto("round", 0)
    /\ UNCHANGED <<proc, stamps, cutoff, dbVars, pending, labels, charts, worldVars>>

-----------------------------------------------------------------------------
\* The loop of CRUM.main: one calendar, then the four collectors

\* A faulty variant: the stores are numbered from one, the arrays from zero.
FromStoreOffByOne(k) == IF k < NumDisks THEN Goto("disk", k - 1) ELSE Goto("cpu", 0)

\* getDiskData's loop over the file stores, from store k on.
FromStore(k) == IF k < NumDisks THEN Goto("disk", k) ELSE Goto("cpu", 0)

BeginRound ==
    /\ At("round")
    /\ Round < MaxRounds
    /\ stamps' = Append(stamps, clock)
    /\ FromStore(0)
    /\ UNCHANGED <<proc, cutoff, dbVars, uiVars, worldVars>>

\* INSERT INTO the table of s fails when the table is missing or a row of the
\* same primary key is there: within a series the key varies by time stamp.
Rejected(s) == TableOf(s) \notin schema \/ \E r \in rows[s] : r.ts = RoundStamp

Insert(s) ==
    /\ ~ Rejected(s)
    /\ rows' = [rows EXCEPT ![s] = @ \union {[round |-> Round, ts |-> RoundStamp]}]
    /\ UNCHANGED <<proc, stamps, cutoff, schema, uiVars, worldVars>>

GetDiskData == At("disk") /\ Insert(Disc(idx)) /\ FromStore(idx + 1)
GetCPUData == At("cpu") /\ Insert(Cpu) /\ Goto("ram", 0)
GetMemoryData == At("ram") /\ Insert(Ram) /\ Goto("network", 0)
GetNetworkData == At("network") /\ Insert(Net) /\ Goto("cutoff", 0)

\* The series the main thread inserts into next, when it inserts next.
Inserting ==
    CASE pc = "disk" -> {Disc(idx)}
      [] pc = "cpu" -> {Cpu}
      [] pc = "ram" -> {Ram}
      [] pc = "network" -> {Net}
      [] OTHER -> {}

InsertRejected ==
    /\ proc = "running"
    /\ \E s \in Inserting : Rejected(s)
    /\ MainDies
    /\ UNCHANGED <<pc, idx, stamps, cutoff, dbVars, pending, labels, charts, worldVars>>

-----------------------------------------------------------------------------
\* CRUM.cullDatabase

\* lastMonth is the clock a calendar day earlier.
ComputeCutoff ==
    /\ At("cutoff")
    /\ cutoff' = clock - Day
    /\ Goto("cull", 1)
    /\ UNCHANGED <<proc, stamps, dbVars, uiVars, worldVars>>

\* A faulty variant: the comparison cullDatabase seems to make.
ExpiredByDate(ts) == ts =< cutoff

\* DATETIME(TIMESTAMP) <= cutoff.  The driver stores a java.sql.Timestamp as an
\* integer, and SQLite's DATETIME reads a bare number as a Julian day: one that
\* is out of range gives NULL, and NULL <= x selects no row.
Expired(ts) == ts < JulianLimit /\ (ts - UnixEpochJD) * Day =< cutoff

CullTable ==
    /\ At("cull")
    /\ rows' = [s \in Series |->
                   IF s \in InTable(CullOrder[idx])
                   THEN {r \in rows[s] : ~ Expired(r.ts)}
                   ELSE rows[s]]
    /\ IF idx < Len(CullOrder) THEN Goto("cull", idx + 1) ELSE Goto("query", 0)
    /\ UNCHANGED <<proc, stamps, cutoff, schema, uiVars, worldVars>>

-----------------------------------------------------------------------------
\* CrumUI.refresh: per panel a query, its rows one by one, then the chart

QueryPanel ==
    /\ At("query")
    /\ pending' = rows[PanelAt(idx)]
    /\ Goto("labels", idx)
    /\ UNCHANGED <<proc, stamps, cutoff, dbVars, visible, labels, charts, worldVars>>

\* SQLite answers a SELECT without WHERE in rowid order; for DISC_ID = i it
\* walks the primary key's index, whose next column that varies is TIMESTAMP.
ReadNext(s, r) ==
    /\ r \in pending
    /\ \A q \in pending : IF s \in Discs THEN r.ts =< q.ts ELSE r.round =< q.round

\* A faulty variant: if (rs.next()) for while (rs.next()).
SetLabelsOnce ==
    /\ At("labels")
    /\ \E r \in pending :
           /\ ReadNext(PanelAt(idx), r)
           /\ labels' = [labels EXCEPT ![PanelAt(idx)] = r]
           /\ pending' = {}
    /\ UNCHANGED <<proc, pc, idx, stamps, cutoff, dbVars, visible, charts, worldVars>>

SetLabels ==
    /\ At("labels")
    /\ \E r \in pending :
           /\ ReadNext(PanelAt(idx), r)
           /\ labels' = [labels EXCEPT ![PanelAt(idx)] = r]
           /\ pending' = pending \ {r}
    /\ UNCHANGED <<proc, pc, idx, stamps, cutoff, dbVars, visible, charts, worldVars>>

NextPanel == IF idx < LastPanel THEN Goto("query", idx + 1) ELSE Goto("sleep", 0)

\* A faulty variant: refreshNetwork does not execute the dataset's query again.
LabelsDoneNoNetChart ==
    /\ At("labels") /\ pending = {}
    /\ IF PanelAt(idx) \in {Cpu, Ram} THEN Goto("chart", idx) ELSE NextPanel
    /\ UNCHANGED <<proc, stamps, cutoff, dbVars, uiVars, worldVars>>

LabelsDone ==
    /\ At("labels") /\ pending = {}
    /\ IF PanelAt(idx) \in Charted THEN Goto("chart", idx) ELSE NextPanel
    /\ UNCHANGED <<proc, stamps, cutoff, dbVars, uiVars, worldVars>>

\* A faulty variant: the chart is redrawn from the dataset it already has.
RedrawChartStale ==
    /\ At("chart")
    /\ NextPanel
    /\ UNCHANGED <<proc, stamps, cutoff, dbVars, uiVars, worldVars>>

RedrawChart ==
    /\ At("chart")
    /\ charts' = [charts EXCEPT ![PanelAt(idx)] = rows[PanelAt(idx)]]
    /\ NextPanel
    /\ UNCHANGED <<proc, stamps, cutoff, dbVars, visible, pending, labels, worldVars>>

\* TimeUnit.SECONDS.sleep(1) takes at least one unit of the clock.
Sleep ==
    /\ At("sleep")
    /\ clock' = clock + 1
    /\ Goto("round", 0)
    /\ UNCHANGED <<proc, stamps, cutoff, dbVars, uiVars, spent>>

-----------------------------------------------------------------------------
\* The event thread and the world

\* EXIT_ON_CLOSE: the event thread ends the JVM, wherever the main thread is.
CloseWindow ==
    /\ visible
    /\ proc' = "exited" /\ visible' = FALSE
    /\ UNCHANGED <<pc, idx, stamps, cutoff, dbVars, pending, labels, charts, worldVars>>

\* A kill or a power failure, between two statements: each one is a transaction.
Crash ==
    /\ proc # "exited"
    /\ proc' = "exited" /\ visible' = FALSE
    /\ UNCHANGED <<pc, idx, stamps, cutoff, dbVars, pending, labels, charts, worldVars>>

Statements == {"initOSHI", "drop", "create", "initMachine", "newUI", "disk", "cpu", "ram",
               "network", "cull", "query", "labels", "chart"}

\* The statement at pc throws: disk full, I/O error, a file another process
\* locks for longer than the driver waits, or a reading OSHI cannot take.
StatementFails ==
    /\ proc = "running" /\ pc \in Statements
    /\ Spend("fault")
    /\ MainDies
    /\ UNCHANGED <<clock, pc, idx, stamps, cutoff, dbVars, pending, labels, charts>>

\* The user starts CRUM again on the database the last run left.
Restart ==
    /\ proc = "exited"
    /\ Spend("start")
    /\ proc' = "running" /\ Goto("initOSHI", 0)
    /\ stamps' = <<>> /\ cutoff' = 0
    /\ pending' = {}
    /\ labels' = [s \in Series |-> Blank]
    /\ charts' = [s \in Charted |-> {}]
    /\ UNCHANGED <<clock, dbVars, visible>>

Tick ==
    /\ Spend("tick")
    /\ clock' = clock + 1
    /\ UNCHANGED <<proc, pc, idx, stamps, cutoff, dbVars, uiVars>>

\* The user or the time service sets the clock back.
StepBack ==
    /\ Spend("stepBack")
    /\ clock' \in EarliestClock .. clock - 1
    /\ UNCHANGED <<proc, pc, idx, stamps, cutoff, dbVars, uiVars>>

-----------------------------------------------------------------------------
Startup == InitOSHI \/ DropTable \/ CreateTable \/ InitMachine \/ NewUI \/ CreateUI
Collect == BeginRound \/ GetDiskData \/ GetCPUData \/ GetMemoryData
           \/ GetNetworkData \/ InsertRejected
Cull == ComputeCutoff \/ CullTable
Refresh == QueryPanel \/ SetLabels \/ LabelsDone \/ RedrawChart

MainThread == Startup \/ Collect \/ Cull \/ Refresh \/ Sleep
World == CloseWindow \/ Crash \/ StatementFails \/ Restart \/ Tick \/ StepBack

Next == MainThread \/ World

Spec == Init /\ [][Next]_vars

\* The JVM schedules the main thread, and nothing it waits for is held by
\* another thread: a step of it that stays possible is taken.
FairSpec == Spec /\ WF_vars(MainThread)

-----------------------------------------------------------------------------
\* Properties

\* crum.db belongs to this run: its tables were emptied, and MACHINE filled.
Monitoring == pc \notin {"initOSHI", "drop", "create", "initMachine"}

RoundRows(n) == {RowOf(k) : k \in 1 .. n}

\* However the process is interleaved, stopped or restarted, every series holds
\* every complete round of this run, at most the round under way besides, and
\* no other row; and all series carry the same time stamp for the same round
\* (the one calendar main passes to the four collectors).
RoundsAligned ==
    Monitoring =>
        \A s \in Sampled :
            /\ RoundRows(Round - 1) \subseteq rows[s]
            /\ rows[s] \subseteq RoundRows(Round)

\* Once initDB has dropped the tables no row of an earlier run is left, at
\* whatever statement that run died: the MACHINE insert meets an empty database.
StartsEmpty ==
    pc \in {"create", "initMachine"} => \A s \in Series : rows[s] = {}

\* The rows the collectors wrote refer to a MACHINE row that exists.  SQLite does
\* not enforce the foreign keys initDB declares; cullDatabase could break them,
\* for the machine's one row is the oldest row of the database.
NoOrphans ==
    Monitoring => \A s \in Sampled : rows[s] # {} => rows[Machine] # {}

\* An insert can be rejected only before anything of its round is written: a
\* clock set back onto an old time stamp never leaves half a round behind.
NoHalfRound ==
    (proc = "running" /\ \E s \in Inserting : Rejected(s)) =>
        \A s \in Sampled : RowOf(Round) \notin rows[s]

\* On a machine with a disk only a failing statement can leave the window open
\* over a dead main thread: a rejected time stamp ends the JVM instead.
ZombieOnlyByFault == (proc = "zombie" /\ NumDisks > 0) => spent["fault"] > 0

\* When main goes to sleep the CPU, RAM and network labels show the round just
\* measured and the main tab shows the machine, whatever the clock has done.
PanelsCurrent ==
    At("sleep") =>
        /\ \A s \in Charted : labels[s] = RowOf(Round)
        /\ labels[Machine] \in rows[Machine]

\* So do the disk tabs, as long as the clock has never been set back.
DiskPanelsCurrent ==
    (At("sleep") /\ spent["stepBack"] = 0) =>
        \A s \in Discs : labels[s] = RowOf(Round)

\* When main goes to sleep each chart shows every round of the run, no other.
ChartsWhole == At("sleep") => \A s \in Charted : charts[s] = RoundRows(Round)

\* Every round main begins reaches the labels and the charts, unless the main
\* thread dies or the process ends.
SampleShown ==
    \A k \in 1 .. MaxRounds :
        (proc = "running" /\ Round = k)
            ~> (\/ proc # "running"
                \/ \A s \in Charted : labels[s].round = k /\ labels[s] \in charts[s])

\* A started process gets its window on the screen, unless it dies before.
WindowOpens == At("initOSHI") ~> (visible \/ proc # "running")

\* README.md: CRUM gathers usage statistics every second, that is, as long as
\* its window is there a further round follows.  (The bound: no round after
\* MaxRounds.)
KeepsGathering ==
    \A k \in 1 .. MaxRounds - 1 : (visible /\ Round = k) ~> (~ visible \/ Round = k + 1)

\* CrumTest and DiskTest compare DATETIME(TIMESTAMP) with a date; cullDatabase
\* relies on it: after the cull no row is as old as the cutoff.
CullRemovesOld ==
    (proc = "running" /\ pc = "query" /\ idx = 0) =>
        \A s \in Series : \A r \in rows[s] : r.ts > cutoff

-----------------------------------------------------------------------------
\* The inductive invariant behind the safety properties, one part per concern.

\* The series whose insert of the latest round has been executed.
Written ==
    CASE pc = "disk" -> {Disc(k) : k \in 0 .. idx - 1}
      [] pc = "cpu" -> Discs
      [] pc = "ram" -> Discs \union {Cpu}
      [] pc = "network" -> Discs \union {Cpu, Ram}
      [] OTHER -> Sampled

StartupSteps == {"initOSHI", "drop", "create", "initMachine", "newUI", "createUI"}
PanelSteps == {"query", "labels", "chart"}

\* Every loop index stays inside the list it walks.
IdxInv ==
    /\ pc = "drop" => idx \in 1 .. Len(DropOrder)
    /\ pc = "create" => idx \in 1 .. Len(CreateOrder)
    /\ pc = "disk" => idx \in 0 .. NumDisks - 1
    /\ pc = "cull" => idx \in 1 .. Len(CullOrder)
    /\ pc \in PanelSteps => idx \in 0 .. LastPanel
    /\ pc = "chart" => PanelAt(idx) \in Charted

\* Rounds begin with the loop, and carry times a clock may show.
StampsInv ==
    /\ pc \in StartupSteps => stamps = <<>>
    /\ pc \notin StartupSteps \union {"round"} => Round >= 1
    /\ \A k \in 1 .. Round : stamps[k] >= EarliestClock

\* No statement after initDB meets a missing table.
SchemaInv ==
    /\ pc = "create" => \A k \in 1 .. idx - 1 : CreateOrder[k] \in schema
    /\ pc \notin {"initOSHI", "drop", "create"} => Tables \subseteq schema

\* The drops empty one table after the other.
EmptyInv ==
    /\ pc = "drop" =>
           \A k \in 1 .. idx - 1 : \A s \in InTable(DropOrder[k]) : rows[s] = {}
    /\ StartsEmpty

\* The tables hold exactly what the statements executed so far have inserted.
RowsInv ==
    Monitoring =>
        /\ \E r \in rows[Machine] : rows[Machine] = {r} /\ r.ts >= EarliestClock
        /\ \A s \in Sampled :
               rows[s] = IF s \in Written THEN RoundRows(Round) ELSE RoundRows(Round - 1)

\* Once the first insert of a round was accepted its time stamp is a new one.
FreshInv ==
    (Monitoring /\ Written # {}) => \A k \in 1 .. Round - 1 : stamps[k] # RoundStamp

DBInv ==
    /\ TypeOK /\ IdxInv /\ StampsInv /\ SchemaInv
    /\ EmptyInv /\ RowsInv /\ FreshInv /\ ZombieOnlyByFault

\* While the clock was never set back the latest time stamp is the largest.
ClockInv ==
    spent["stepBack"] = 0 =>
        \A k \in 1 .. Round : stamps[k] =< RoundStamp /\ stamps[k] =< clock

\* r is what the labels of s should come to show: the machine's row, or the row
\* of the latest round.  A disk's index order promises it for a steady clock.
Newest(s, r) == r \in rows[s] /\ (s # Machine => r = RowOf(Round))
Promised(s) == s \in Discs => spent["stepBack"] = 0

\* The panels whose labels refresh has been through, and those with a chart.
LabelsSet == {k \in 0 .. LastPanel :
                 \/ pc = "sleep"
                 \/ pc \in PanelSteps /\ k < idx
                 \/ pc = "chart" /\ k = idx}
ChartsDrawn == {k \in LabelsSet : PanelAt(k) \in Charted /\ ~ (pc = "chart" /\ k = idx)}

\* A panel's ResultSet still holds the row to be shown, or it is the last one set.
PanelInv ==
    /\ \A k \in LabelsSet :
           Promised(PanelAt(k)) => Newest(PanelAt(k), labels[PanelAt(k)])
    /\ \A k \in ChartsDrawn : charts[PanelAt(k)] = RoundRows(Round)
    /\ pc = "labels" =>
           /\ pending \subseteq rows[PanelAt(idx)]
           /\ Promised(PanelAt(idx)) =>
                 \/ \E r \in pending : Newest(PanelAt(idx), r)
                 \/ pending = {} /\ Newest(PanelAt(idx), labels[PanelAt(idx)])

IInv == DBInv /\ ClockInv /\ PanelInv
=============================================================================
