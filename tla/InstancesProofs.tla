--------------------------- MODULE InstancesProofs ---------------------------
(***************************************************************************)
(* For any number of CRUM processes on one database: a table is missing    *)
(* only while some initDB is on its way to create it; outside of the       *)
(* start-ups the rows of one time stamp are of one process, and a round    *)
(* that ran to its end is in every table.                                  *)
(***************************************************************************)
EXTENDS Instances, SequenceTheorems, TLAPS

Statement == [op : {"drop", "create", "insert", "use", "calendar"},
              table : Tables \cup {"USER", "none"}]

\* The shape of the program, and where initDB is in it.
LEMMA ProgramParts ==
    /\ InitDB \in Seq(Statement) /\ Len(InitDB) = 11
    /\ Opening \in Seq(Statement) /\ Len(Opening) = 5
    /\ Collect \in Seq(Statement) /\ Len(Collect) = 5
    /\ Tidy \in Seq(Statement) /\ Len(Tidy) = 5
    /\ Refresh \in Seq(Statement) /\ Len(Refresh) = 5
<1> USE DEF Statement, Tables, Drop, Create, InsertInto, Use, Calendar
<1>1. InitDB \in Seq(Statement) /\ Len(InitDB) = 11
  BY DEF InitDB
<1>2. Opening \in Seq(Statement) /\ Len(Opening) = 5
  BY DEF Opening
<1>3. Collect \in Seq(Statement) /\ Len(Collect) = 5
  BY DEF Collect
<1>4. Tidy \in Seq(Statement) /\ Len(Tidy) = 5
  BY DEF Tidy
<1>5. Refresh \in Seq(Statement) /\ Len(Refresh) = 5
  BY DEF Refresh
<1> QED
  BY <1>1, <1>2, <1>3, <1>4, <1>5

\* Neither drops nor creates from place k on.
Quiet(s, k) == \A m \in k .. Len(s) : s[m].op \notin {"drop", "create"}

LEMMA RestIsQuiet == Quiet(Opening, 1) /\ Quiet(Collect, 1) /\ Quiet(Tidy, 1) /\ Quiet(Refresh, 1)
<1> USE DEF InsertInto, Use, Calendar
<1>1. \A m \in 1 .. 5 : Opening[m].op \notin {"drop", "create"}
  BY DEF Opening
<1>2. \A m \in 1 .. 5 : Collect[m].op \notin {"drop", "create"}
  BY DEF Collect
<1>3. \A m \in 1 .. 5 : Tidy[m].op \notin {"drop", "create"}
  BY DEF Tidy
<1>4. \A m \in 1 .. 5 : Refresh[m].op \notin {"drop", "create"}
  BY DEF Refresh
<1> QED
  BY ProgramParts, <1>1, <1>2, <1>3, <1>4 DEF Quiet

\* A sequence keeps its elements when a quiet one is put behind it.
LEMMA Appended ==
    ASSUME NEW s \in Seq(Statement), NEW t \in Seq(Statement),
           Len(s) >= 11, Quiet(s, 12), Quiet(t, 1)
    PROVE  /\ s \o t \in Seq(Statement) /\ Len(s \o t) = Len(s) + Len(t)
           /\ \A k \in 1 .. 11 : (s \o t)[k] = s[k]
           /\ Quiet(s \o t, 12)
<1>1. s \o t \in Seq(Statement) /\ Len(s \o t) = Len(s) + Len(t)
  OBVIOUS
<1>2. \A k \in 1 .. 11 : (s \o t)[k] = s[k]
  OBVIOUS
<1>3. ASSUME NEW m \in 12 .. Len(s \o t) PROVE (s \o t)[m].op \notin {"drop", "create"}
  <2>1. CASE m <= Len(s)
    BY <1>1, <2>1 DEF Quiet
  <2>2. CASE m > Len(s)
    <3>1. m - Len(s) \in 1 .. Len(t) /\ (s \o t)[m] = t[m - Len(s)]
      BY <1>1, <2>2
    <3> QED
      BY <3>1 DEF Quiet
  <2> QED
    BY <2>1, <2>2
<1> QED
  BY <1>1, <1>2, <1>3 DEF Quiet

\* What stays so as the quiet parts of the program are put behind initDB.
Begun(s, n) ==
    /\ s \in Seq(Statement) /\ Len(s) = n /\ Quiet(s, 12)
    /\ \A k \in 1 .. 11 : s[k] = InitDB[k]

LEMMA Continued ==
    ASSUME NEW s, NEW n \in Nat, n >= 11, Begun(s, n),
           NEW t \in Seq(Statement), Len(t) = 5, Quiet(t, 1)
    PROVE  Begun(s \o t, n + 5)
<1>1. s \in Seq(Statement) /\ Len(s) = n /\ Quiet(s, 12) /\ Len(s) >= 11
  BY DEF Begun
<1>2. /\ s \o t \in Seq(Statement) /\ Len(s \o t) = Len(s) + Len(t) /\ Quiet(s \o t, 12)
      /\ \A k \in 1 .. 11 : (s \o t)[k] = s[k]
  BY <1>1, Appended
<1>3. Len(s \o t) = n + 5
  BY <1>1, <1>2
<1>4. \A k \in 1 .. 11 : (s \o t)[k] = InitDB[k]
  BY <1>2 DEF Begun
<1> QED
  BY <1>2, <1>3, <1>4, Zenon DEF Begun

LEMMA ProgramShape == Begun(Program, 31)
<1> DEFINE P1 == InitDB \o Opening
           P2 == P1 \o Collect
           P3 == P2 \o Tidy
<1>0. Begun(InitDB, 11)
  BY ProgramParts DEF Begun, Quiet
<1>1. Begun(P1, 11 + 5)
  BY <1>0, Continued, ProgramParts, RestIsQuiet
<1>p. Program = P3 \o Refresh
  BY DEF Program
<1> HIDE DEF P1
<1>2. Begun(P2, 16 + 5)
  BY <1>1, Continued, ProgramParts, RestIsQuiet
<1> HIDE DEF P2
<1>3. Begun(P3, 21 + 5)
  BY <1>2, Continued, ProgramParts, RestIsQuiet
<1> HIDE DEF P3
<1>4. Begun(P3 \o Refresh, 26 + 5)
  BY <1>3, Continued, ProgramParts, RestIsQuiet
<1> QED
  BY <1>p, <1>4

LEMMA ProgramLength == Len(Program) = 31 /\ LoopFrom = 17 /\ Len(InitDB) = 11
<1>1. Len(Program) = 31
  BY ProgramShape DEF Begun
<1>2. LoopFrom = 17 /\ Len(InitDB) = 11
  BY ProgramParts DEF LoopFrom
<1> QED
  BY <1>1, <1>2

\* initDB creates every table, and after it has dropped it.
LEMMA DropsThenCreates ==
    \A t \in Tables : \E k \in 7 .. 11 :
        InitDB[k] = Create(t) /\ \A m \in 1 .. 11 : InitDB[m] = Drop(t) => m < k
<1> SUFFICES ASSUME NEW t \in Tables
             PROVE  \E k \in 7 .. 11 :
                        InitDB[k] = Create(t) /\ \A m \in 1 .. 11 : InitDB[m] = Drop(t) => m < k
  OBVIOUS
<1>1. \A m \in 7 .. 11 : InitDB[m].op = "create"
  BY DEF InitDB, Create
<1>2. \A m \in 1 .. 11 : InitDB[m] = Drop(t) => m < 7
  BY <1>1 DEF Drop
<1>3. \E k \in 7 .. 11 : InitDB[k] = Create(t)
  <2>1. /\ InitDB[7] = Create("MACHINE") /\ InitDB[8] = Create("DISC")
        /\ InitDB[9] = Create("CPU") /\ InitDB[10] = Create("NETWORK")
        /\ InitDB[11] = Create("RAM")
    BY DEF InitDB
  <2> QED
    BY <2>1 DEF Tables
<1> QED
  BY <1>2, <1>3

\* The statements that drop or create are all in initDB, and what it creates are
\* the tables.
LEMMA OnlyInitDB ==
    ASSUME NEW k \in 1 .. 31, Program[k].op \in {"drop", "create"}
    PROVE  /\ k \in 1 .. 11 /\ Program[k] = InitDB[k]
           /\ Program[k].op = "drop" => InitDB[k] = Drop(Program[k].table)
           /\ Program[k].op = "create" => Program[k].table \in Tables
<1>1. k \in 1 .. 11 /\ Program[k] = InitDB[k]
  <2>1. Quiet(Program, 12) /\ \A m \in 1 .. 11 : Program[m] = InitDB[m]
    BY ProgramShape, Zenon DEF Begun
  <2>2. \A m \in 12 .. 31 : Program[m].op \notin {"drop", "create"}
    BY <2>1, ProgramLength DEF Quiet
  <2> QED
    BY <2>1, <2>2
<1>2. InitDB[k].op = "drop" => InitDB[k] = Drop(InitDB[k].table)
  BY <1>1 DEF InitDB, Drop, Create
<1>3. InitDB[k].op = "create" => InitDB[k].table \in Tables
  BY <1>1 DEF InitDB, Drop, Create, Tables
<1> QED
  BY <1>1, <1>2, <1>3

-----------------------------------------------------------------------------
Types ==
    /\ proc \in [Instances -> {"off", "running", "zombie", "exited"}]
    /\ at \in [Instances -> 1 .. 32]
    /\ schema \in SUBSET Tables /\ cut \in BOOLEAN /\ starts \in Nat

\* The types of what the start-ups do not depend on.
Row == [run : Nat, round : Nat, ts : Nat]

RowTypes ==
    /\ clock \in Nat
    /\ round \in [Instances -> Nat] /\ stamp \in [Instances -> Nat] /\ run \in [Instances -> Nat]
    /\ rows \in [Tables -> SUBSET Row]
    /\ clean \in SUBSET (Nat \X Nat)

Move(p) ==
    \/ Start(p) \/ DropTable(p) \/ CreateTable(p) \/ Insert(p) \/ UseTable(p)
    \/ TakeCalendar(p) \/ Sleep(p) \/ Rejected(p) \/ Fault(p) \/ Stop(p)

\* A process that executes a statement is at one.
LEMMA AtStatement ==
    ASSUME Types, NEW p \in Instances, NEW op, Executes(p, op)
    PROVE  proc[p] = "running" /\ at[p] \in 1 .. 31 /\ Program[at[p]].op = op
<1>1. proc[p] = "running" /\ at[p] <= 31 /\ Program[at[p]].op = op
  BY ProgramLength DEF Executes
<1>2. at[p] \in 1 .. 32
  BY DEF Types
<1> QED
  BY <1>1, <1>2

LEMMA InitTypes == Init => Types
<1> SUFFICES ASSUME Init PROVE Types
  OBVIOUS
<1>1. schema \in SUBSET Tables /\ starts \in Nat
  BY DEF Init
<1>2. proc \in [Instances -> {"off", "running", "zombie", "exited"}]
  BY DEF Init
<1>3. at \in [Instances -> 1 .. 32]
  BY DEF Init
<1>4. cut \in BOOLEAN
  BY Zenon DEF Init
<1> QED
  BY <1>1, <1>2, <1>3, <1>4, Zenon DEF Types

\* The place in the program stays inside it.
LEMMA StepTypes == Types /\ [Next]_vars => Types'
<1> SUFFICES ASSUME Types, [Next]_vars PROVE Types'
  OBVIOUS
<1> USE DEF Types
<1>1. ASSUME NEW p \in Instances, Move(p) PROVE Types'
  <2>0. ASSUME at[p] \in 1 .. 31, Advance(p) PROVE at' \in [Instances -> 1 .. 32]
    BY <2>0 DEF Advance
  <2>1. CASE Start(p)
    BY <2>1 DEF Start
  <2>2. CASE DropTable(p)
    <3>1. at[p] \in 1 .. 31
      BY <2>2, AtStatement DEF DropTable
    <3>2. UNCHANGED <<proc, starts, cut>> /\ schema' \in SUBSET Tables /\ Advance(p)
      BY <2>2 DEF DropTable
    <3> QED
      BY <2>0, <3>1, <3>2
  <2>3. CASE CreateTable(p)
    <3>1. Program[at[p]].op = "create" /\ at[p] \in 1 .. 31
      BY <2>3, AtStatement DEF CreateTable
    <3>2. Program[at[p]].table \in Tables
      BY <3>1, OnlyInitDB
    <3>3. UNCHANGED <<proc, starts, cut>> /\ schema' = schema \cup {Table(p)} /\ Advance(p)
      BY <2>3 DEF CreateTable
    <3> QED
      BY <2>0, <3>1, <3>2, <3>3 DEF Table
  <2>4. CASE Insert(p) \/ UseTable(p) \/ TakeCalendar(p)
    <3>1. at[p] \in 1 .. 31
      BY <2>4, AtStatement DEF Insert, UseTable, TakeCalendar
    <3>2. UNCHANGED <<proc, starts, cut, schema>> /\ Advance(p)
      BY <2>4 DEF Insert, UseTable, TakeCalendar
    <3> QED
      BY <2>0, <3>1, <3>2
  <2>5. CASE Sleep(p)
    BY <2>5, ProgramLength DEF Sleep
  <2>6. CASE Rejected(p) \/ Fault(p) \/ Stop(p)
    BY <2>6 DEF Rejected, Fault, Stop, Dies
  <2> QED
    BY <1>1, <2>1, <2>2, <2>3, <2>4, <2>5, <2>6 DEF Move
<1>2. CASE Tick \/ UNCHANGED vars
  BY <1>2 DEF Tick, vars
<1> QED
  BY <1>1, <1>2 DEF Next, Move

LEMMA InitRowTypes == Init => RowTypes
BY DEF Init, RowTypes

LEMMA StepRowTypes == Types /\ RowTypes /\ [Next]_vars => RowTypes'
<1> SUFFICES ASSUME Types, RowTypes, [Next]_vars PROVE RowTypes'
  OBVIOUS
<1> USE DEF RowTypes
<1>1. ASSUME NEW p \in Instances, Move(p) PROVE RowTypes'
  <2>1. CASE Start(p)
    BY <2>1 DEF Start, Types
  <2>2. CASE DropTable(p)
    BY <2>2 DEF DropTable
  <2>3. CASE CreateTable(p) \/ UseTable(p) \/ Sleep(p)
    BY <2>3 DEF CreateTable, UseTable, Sleep
  <2>4. CASE Insert(p)
    <3> DEFINE r == [run |-> run[p], round |-> round[p], ts |-> stamp[p]]
    <3>1. r \in Row
      BY DEF Row
    <3>2. /\ rows' = [rows EXCEPT ![Table(p)] = @ \cup {r}]
          /\ UNCHANGED <<clock, round, stamp, run, clean>>
      BY <2>4 DEF Insert
    <3> HIDE DEF r
    <3>3. rows' \in [Tables -> SUBSET Row]
      BY <3>1, <3>2
    <3> QED
      BY <3>2, <3>3
  <2>5. CASE TakeCalendar(p)
    <3>1. clean' \in SUBSET (Nat \X Nat)
      BY <2>5 DEF TakeCalendar
    <3>2. round' \in [Instances -> Nat] /\ stamp' \in [Instances -> Nat]
      BY <2>5 DEF TakeCalendar
    <3> QED
      BY <2>5, <3>1, <3>2 DEF TakeCalendar
  <2>6. CASE Rejected(p) \/ Fault(p) \/ Stop(p)
    BY <2>6 DEF Rejected, Fault, Stop, Dies
  <2> QED
    BY <1>1, <2>1, <2>2, <2>3, <2>4, <2>5, <2>6 DEF Move
<1>2. CASE Tick \/ UNCHANGED vars
  BY <1>2 DEF Tick, vars
<1> QED
  BY <1>1, <1>2 DEF Next, Move

\* Every variable keeps its type; in particular no process runs out of its program.
THEOREM InstancesTypes == Spec => []TypeOK
<1>1. Types /\ RowTypes => TypeOK
  <2>1. ASSUME Types PROVE at \in [Instances -> 1 .. Len(Program) + 1]
    BY <2>1, ProgramLength DEF Types
  <2> QED
    BY <2>1 DEF Types, RowTypes, Row, TypeOK
<1> QED
  BY <1>1, InitTypes, StepTypes, InitRowTypes, StepRowTypes, PTL DEF Spec

-----------------------------------------------------------------------------
\* p creates t at place k.
LEMMA Ahead ==
    ASSUME NEW p, NEW t
    PROVE  WillCreate(p, t) <=>
               proc[p] = "running" /\ at[p] <= 11 /\ \E k \in at[p] .. 11 : InitDB[k] = Create(t)
BY ProgramParts DEF WillCreate, InInitDB

LEMMA StepMissing == Types /\ MissingIsComing /\ [Next]_vars => MissingIsComing'
<1> SUFFICES ASSUME Types, MissingIsComing, [Next]_vars, starts' > 0, ~ cut',
                    NEW t \in Tables, t \notin schema'
             PROVE  \E p \in Instances : WillCreate(p, t)'
  BY DEF MissingIsComing
<1>0. \A p : WillCreate(p, t)' <=>
          proc'[p] = "running" /\ at'[p] <= 11 /\ \E k \in at'[p] .. 11 : InitDB[k] = Create(t)
  BY ProgramParts DEF WillCreate, InInitDB
<1> USE DEF Types
<1>1. ASSUME NEW p \in Instances, Start(p) PROVE WillCreate(p, t)'
  <2>1. proc'[p] = "running" /\ at'[p] = 1
    BY <1>1 DEF Start
  <2> QED
    BY <1>0, <2>1, DropsThenCreates
<1>2. ASSUME NEW p \in Instances, DropTable(p), Table(p) = t PROVE WillCreate(p, t)'
  <2>1. at[p] \in 1 .. 31 /\ Program[at[p]].op = "drop" /\ proc[p] = "running"
    BY <1>2, AtStatement DEF DropTable
  <2>2. at[p] \in 1 .. 11 /\ InitDB[at[p]] = Drop(t)
    BY <1>2, <2>1, OnlyInitDB DEF Table
  <2>3. PICK k \in 7 .. 11 : InitDB[k] = Create(t) /\ at[p] < k
    BY <2>2, DropsThenCreates
  <2>4. at'[p] = at[p] + 1 /\ proc'[p] = "running"
    BY <1>2, <2>1 DEF DropTable, Advance
  <2> QED
    BY <1>0, <2>2, <2>3, <2>4
\* Otherwise t was missing before, and whoever was to create it still is.
<1>3. ASSUME t \notin schema, starts > 0, ~ cut,
             NEW q \in Instances, Move(q) \/ Tick \/ UNCHANGED vars,
             \A p \in Instances \ {q} : proc'[p] = proc[p] /\ at'[p] = at[p],
             \/ proc'[q] = proc[q] /\ at'[q] = at[q]
             \/ ~ InInitDB(q)
             \/ proc'[q] = proc[q] /\ at'[q] = at[q] + 1 /\ InitDB[at[q]] # Create(t)
      PROVE  \E p \in Instances : WillCreate(p, t)'
  <2>1. PICK p \in Instances : WillCreate(p, t)
    BY <1>3 DEF MissingIsComing
  <2>2. proc[p] = "running" /\ at[p] <= 11 /\ \E k \in at[p] .. 11 : InitDB[k] = Create(t)
    BY <2>1, Ahead
  <2>3. InInitDB(p)
    BY <2>2, ProgramParts DEF InInitDB
  <2> QED
    BY <1>0, <1>3, <2>2, <2>3
<1>4. CASE \E p \in Instances : Move(p)
  <2> SUFFICES ASSUME NEW q \in Instances, Move(q)
               PROVE  \E p \in Instances : WillCreate(p, t)'
    BY <1>4
  <2>1. CASE Start(q)
    BY <1>1, <2>1
  <2>2. CASE DropTable(q) /\ Table(q) = t
    BY <1>2, <2>2
  <2>3. CASE DropTable(q) /\ Table(q) # t
    <3>1. at[q] \in 1 .. 31 /\ Program[at[q]].op = "drop"
      BY <2>3, AtStatement DEF DropTable
    <3>2. at[q] \in 1 .. 11 /\ InitDB[at[q]].op = "drop"
      BY <3>1, OnlyInitDB
    <3>3. InitDB[at[q]] # Create(t)
      BY <3>2 DEF Create
    <3>4. /\ UNCHANGED <<proc, starts, cut>> /\ schema' = schema \ {Table(q)}
          /\ at' = [at EXCEPT ![q] = @ + 1]
      BY <2>3 DEF DropTable, Advance
    <3>5. t \notin schema /\ starts > 0 /\ ~ cut
      BY <2>3, <3>4
    <3> QED
      BY <1>3, <3>3, <3>4, <3>5
  <2>4. CASE CreateTable(q)
    <3>1. at[q] \in 1 .. 31 /\ Program[at[q]].op = "create"
      BY <2>4, AtStatement DEF CreateTable
    <3>2. /\ UNCHANGED <<proc, starts, cut>> /\ schema' = schema \cup {Table(q)}
          /\ at' = [at EXCEPT ![q] = @ + 1]
      BY <2>4 DEF CreateTable, Advance
    <3>3. InitDB[at[q]] # Create(t)
      <4>1. InitDB[at[q]].table = Table(q)
        BY <3>1, OnlyInitDB DEF Table
      <4> QED
        BY <3>2, <4>1 DEF Create
    <3>4. t \notin schema /\ starts > 0 /\ ~ cut
      BY <3>2
    <3> QED
      BY <1>3, <3>2, <3>3, <3>4
  <2>5. CASE Insert(q) \/ UseTable(q) \/ TakeCalendar(q)
    <3>1. at[q] \in 1 .. 31 /\ Program[at[q]].op \in {"insert", "use", "calendar"}
      BY <2>5, AtStatement DEF Insert, UseTable, TakeCalendar
    <3>2. UNCHANGED <<proc, starts, cut, schema>> /\ at' = [at EXCEPT ![q] = @ + 1]
      BY <2>5 DEF Insert, UseTable, TakeCalendar, Advance
    <3>3. InInitDB(q) => InitDB[at[q]] # Create(t)
      <4>1. at[q] \in 1 .. 11 => Program[at[q]] = InitDB[at[q]]
        BY ProgramShape, Zenon DEF Begun
      <4> QED
        BY <3>1, <4>1, ProgramLength DEF Create, InInitDB
    <3> QED
      BY <1>3, <3>2, <3>3
  <2>6. CASE Sleep(q)
    <3>1. ~ InInitDB(q)
      BY <2>6, ProgramLength DEF Sleep, InInitDB
    <3> QED
      BY <1>3, <2>6, <3>1 DEF Sleep
  <2>7. CASE Rejected(q) \/ Fault(q) \/ Stop(q)
    <3>1. ~ InInitDB(q) /\ ~ cut
      BY <2>7 DEF Rejected, Fault, Stop, Dies
    <3> QED
      BY <1>3, <2>7, <3>1 DEF Rejected, Fault, Stop, Dies
  <2> QED
    BY <2>1, <2>2, <2>3, <2>4, <2>5, <2>6, <2>7 DEF Move
<1>5. CASE Tick \/ UNCHANGED vars
  <2>1. UNCHANGED <<proc, at, schema, starts, cut>>
    BY <1>5 DEF Tick, vars
  <2>2. PICK p \in Instances : WillCreate(p, t)
    BY <2>1 DEF MissingIsComing
  <2> QED
    BY <1>0, <2>1, <2>2, Ahead
<1> QED
  BY <1>4, <1>5 DEF Next, Move

\* However the start-ups of any number of processes mix, a table that is missing is
\* about to be created, unless a process was stopped in its initDB: no process that
\* comes after meets a database that stays without a table.
THEOREM MissingTablesAreComing == Spec => []MissingIsComing
<1>1. Init => MissingIsComing
  BY DEF Init, MissingIsComing
<1> QED
  BY <1>1, InitTypes, StepTypes, StepMissing, PTL DEF Spec
-----------------------------------------------------------------------------
\* What comes where in the main loop.
JoinedTo(u, s, t) ==
    /\ u \in Seq(Statement) /\ Len(u) = Len(s) + 5
    /\ \A k \in 1 .. Len(s) : u[k] = s[k]
    /\ \A k \in 1 .. 5 : u[Len(s) + k] = t[k]

LEMMA Joined ==
    ASSUME NEW s \in Seq(Statement), NEW t \in Seq(Statement), Len(t) = 5
    PROVE  JoinedTo(s \o t, s, t)
<1>1. /\ s \o t \in Seq(Statement) /\ Len(s \o t) = Len(s) + Len(t)
      /\ \A k \in 1 .. Len(s) + Len(t) :
             (s \o t)[k] = IF k <= Len(s) THEN s[k] ELSE t[k - Len(s)]
  BY ConcatProperties, Zenon
<1>2. Len(s) \in Nat
  OBVIOUS
<1> DEFINE u == s \o t
           n == Len(s)
<1> HIDE DEF u, n
<1>3. /\ u \in Seq(Statement) /\ Len(u) = n + 5 /\ n \in Nat
      /\ \A k \in 1 .. n + 5 : u[k] = IF k <= n THEN s[k] ELSE t[k - n]
  BY <1>1, <1>2 DEF u, n
<1>4. \A k \in 1 .. n : u[k] = s[k]
  BY <1>3
<1>5. ASSUME NEW k \in 1 .. 5 PROVE u[n + k] = t[k]
  <2>1. n + k \in 1 .. n + 5 /\ ~ (n + k <= n) /\ (n + k) - n = k
    BY <1>3
  <2> QED
    BY <1>3, <2>1
<1>6. JoinedTo(u, s, t)
  BY <1>3, <1>4, <1>5 DEF JoinedTo, n
<1> QED
  BY <1>6 DEF u

LEMMA ProgramSteps ==
    \A k \in 1 .. 5 : /\ Program[11 + k] = Opening[k] /\ Program[16 + k] = Collect[k]
                      /\ Program[21 + k] = Tidy[k] /\ Program[26 + k] = Refresh[k]
<1> DEFINE P1 == InitDB \o Opening
           P2 == P1 \o Collect
           P3 == P2 \o Tidy
<1>a. JoinedTo(P1, InitDB, Opening)
  BY Joined, ProgramParts, Zenon
<1>b. JoinedTo(P2, P1, Collect)
  <2>1. P1 \in Seq(Statement)
    BY <1>a, Zenon DEF JoinedTo
  <2> HIDE DEF P1
  <2> QED
    BY <2>1, Joined, ProgramParts, Zenon
<1>c. JoinedTo(P3, P2, Tidy)
  <2>1. P2 \in Seq(Statement)
    BY <1>b, Zenon DEF JoinedTo
  <2> HIDE DEF P2
  <2> QED
    BY <2>1, Joined, ProgramParts, Zenon
<1>d. JoinedTo(Program, P3, Refresh)
  <2>1. P3 \in Seq(Statement)
    BY <1>c, Zenon DEF JoinedTo
  <2>2. Program = P3 \o Refresh
    BY DEF Program
  <2> HIDE DEF P3
  <2> QED
    BY <2>1, <2>2, Joined, ProgramParts, Zenon
<1> HIDE DEF P1, P2, P3
<1>1. /\ Len(P1) = 16
      /\ \A k \in 1 .. 5 : P1[11 + k] = Opening[k]
  BY <1>a, ProgramParts DEF JoinedTo
<1>2. /\ Len(P2) = 21
      /\ \A k \in 1 .. 16 : P2[k] = P1[k]
      /\ \A k \in 1 .. 5 : P2[16 + k] = Collect[k]
  BY <1>1, <1>b DEF JoinedTo
<1>3. /\ Len(P3) = 26
      /\ \A k \in 1 .. 21 : P3[k] = P2[k]
      /\ \A k \in 1 .. 5 : P3[21 + k] = Tidy[k]
  BY <1>2, <1>c DEF JoinedTo
<1>4. /\ \A k \in 1 .. 26 : Program[k] = P3[k]
      /\ \A k \in 1 .. 5 : Program[26 + k] = Refresh[k]
  BY <1>3, <1>d DEF JoinedTo
<1> SUFFICES ASSUME NEW k \in 1 .. 5
             PROVE  /\ Program[11 + k] = Opening[k] /\ Program[16 + k] = Collect[k]
                    /\ Program[21 + k] = Tidy[k] /\ Program[26 + k] = Refresh[k]
  OBVIOUS
<1>5. /\ 11 + k \in 1 .. 16 /\ 11 + k \in 1 .. 21 /\ 11 + k \in 1 .. 26
      /\ 16 + k \in 1 .. 21 /\ 16 + k \in 1 .. 26 /\ 21 + k \in 1 .. 26
  OBVIOUS
<1>6. Program[11 + k] = Opening[k]
  <2>1. Program[11 + k] = P3[11 + k]
    BY <1>4, <1>5
  <2>2. P3[11 + k] = P2[11 + k]
    BY <1>3, <1>5
  <2> QED
    BY <1>1, <1>2, <1>5, <2>1, <2>2
<1>7. Program[16 + k] = Collect[k]
  BY <1>2, <1>3, <1>4, <1>5
<1>8. Program[21 + k] = Tidy[k] /\ Program[26 + k] = Refresh[k]
  BY <1>3, <1>4, <1>5
<1> QED
  BY <1>6, <1>7, <1>8

\* The statements of a round, by their places.
LEMMA LoopSteps ==
    /\ Program[12] = Calendar /\ Program[13] = InsertInto("MACHINE")
    /\ \A k \in 14 .. 16 : Program[k].op = "use"
    /\ Program[17] = Calendar
    /\ Program[18] = InsertInto("DISC") /\ Program[19] = InsertInto("CPU")
    /\ Program[20] = InsertInto("RAM") /\ Program[21] = InsertInto("NETWORK")
    /\ \A k \in 22 .. 31 : Program[k].op = "use"
<1>1. /\ Program[12] = Opening[1] /\ Program[13] = Opening[2] /\ Program[14] = Opening[3]
      /\ Program[15] = Opening[4] /\ Program[16] = Opening[5]
  <2>1. \A k \in 1 .. 5 : Program[11 + k] = Opening[k]
    BY ProgramSteps
  <2> QED
    BY <2>1
<1>2. /\ Program[17] = Collect[1] /\ Program[18] = Collect[2] /\ Program[19] = Collect[3]
      /\ Program[20] = Collect[4] /\ Program[21] = Collect[5]
  <2>1. \A k \in 1 .. 5 : Program[16 + k] = Collect[k]
    BY ProgramSteps
  <2> QED
    BY <2>1
<1>3. \A k \in 22 .. 26 : Program[k].op = "use"
  <2>1. \A k \in 1 .. 5 : Program[21 + k].op = "use"
    <3>1. \A k \in 1 .. 5 : Tidy[k].op = "use"
      BY DEF Tidy, Use
    <3> QED
      BY <3>1, ProgramSteps
  <2> QED
    BY <2>1
<1>4. \A k \in 27 .. 31 : Program[k].op = "use"
  <2>1. \A k \in 1 .. 5 : Program[26 + k].op = "use"
    <3>1. \A k \in 1 .. 5 : Refresh[k].op = "use"
      BY DEF Refresh, Use
    <3> QED
      BY <3>1, ProgramSteps
  <2> QED
    BY <2>1
<1>5. /\ Program[12] = Calendar /\ Program[13] = InsertInto("MACHINE")
      /\ Program[14].op = "use" /\ Program[15].op = "use" /\ Program[16].op = "use"
  BY <1>1 DEF Opening, Use
<1>6. /\ Program[17] = Calendar
      /\ Program[18] = InsertInto("DISC") /\ Program[19] = InsertInto("CPU")
      /\ Program[20] = InsertInto("RAM") /\ Program[21] = InsertInto("NETWORK")
  BY <1>2 DEF Collect
<1>7. \A k \in 14 .. 16 : Program[k].op = "use"
  BY <1>5
<1>8. \A k \in 22 .. 31 : Program[k].op = "use"
  BY <1>3, <1>4
<1> QED
  BY <1>5, <1>6, <1>7, <1>8, Zenon

\* Where the statements of each kind are.
LEMMA Places ==
    ASSUME NEW k \in 1 .. 31
    PROVE  /\ Program[k].op \in {"drop", "create"} => k <= 11
           /\ Program[k].op = "calendar" => k \in {12, 17}
           /\ Program[k].op = "insert" => k = 13 \/ k \in 18 .. 21
           /\ Program[k].op = "use" => k \in 14 .. 16 \/ k \in 22 .. 31
<1>1. k <= 11 => Program[k].op \in {"drop", "create"}
  <2>1. \A m \in 1 .. 11 : InitDB[m].op \in {"drop", "create"}
    BY DEF InitDB, Drop, Create
  <2>2. \A m \in 1 .. 11 : Program[m] = InitDB[m]
    BY ProgramShape, Zenon DEF Begun
  <2> QED
    BY <2>1, <2>2
<1>2. k \in {12, 17} => Program[k].op = "calendar"
  BY LoopSteps DEF Calendar
<1>3. k = 13 \/ k \in 18 .. 21 => Program[k].op = "insert"
  BY LoopSteps DEF InsertInto
<1>4. k \in 14 .. 16 \/ k \in 22 .. 31 => Program[k].op = "use"
  BY LoopSteps
<1>5. \/ k <= 11 \/ k \in {12, 17} \/ k = 13 \/ k \in 18 .. 21
      \/ k \in 14 .. 16 \/ k \in 22 .. 31
  OBVIOUS
<1> QED
  BY <1>1, <1>2, <1>3, <1>4, <1>5

\* A round has passed no insert at its calendar, and all of them after the last; on
\* the way one more with each.
LEMMA PastInserts ==
    /\ \A t \in Sampled : ~ Past(t, 17) /\ ~ Past(t, 18)
    /\ \A t \in Sampled : \A n \in 22 .. 32 : Past(t, n)
    /\ \A n \in 19 .. 32 : Past("DISC", n)
    /\ \A t \in Sampled : \A n \in 1 .. 31 :
           Past(t, n + 1) => Past(t, n) \/ Program[n] = InsertInto(t)
<1> USE ProgramLength
<1>1. ASSUME NEW t \in Sampled PROVE ~ Past(t, 17) /\ ~ Past(t, 18)
  <2>1. Program[17].op # InsertInto(t).op
    BY LoopSteps DEF Calendar, InsertInto
  <2> QED
    BY <2>1 DEF Past
<1>2. ASSUME NEW t \in Sampled, NEW n \in 22 .. 32 PROVE Past(t, n)
  <2>1. \E k \in 18 .. 21 : Program[k] = InsertInto(t)
    BY LoopSteps DEF Sampled, Tables
  <2> QED
    BY <2>1 DEF Past
<1>3. ASSUME NEW n \in 19 .. 32 PROVE Past("DISC", n)
  <2>1. 18 \in LoopFrom .. n - 1
    OBVIOUS
  <2> QED
    BY <2>1, LoopSteps DEF Past
<1>4. ASSUME NEW t \in Sampled, NEW n \in 1 .. 31, Past(t, n + 1)
      PROVE  Past(t, n) \/ Program[n] = InsertInto(t)
  BY <1>4 DEF Past
<1> QED
  BY <1>1, <1>2, <1>3, <1>4

-----------------------------------------------------------------------------
\* The inductive invariant.
LEMMA InitIInv == Init => IInv
<1> SUFFICES ASSUME Init PROVE IInv
  OBVIOUS
<1> USE DEF Init
<1>1. \A t \in Sampled : rows[t] = {}
  BY DEF Sampled
<1>2. RunsInv
  BY DEF RunsInv
<1>3. RowsInv /\ DiscFirst
  BY <1>1 DEF RowsInv, DiscFirst
<1>4. RoundsInv
  <2>1. clean = {} /\ \A p \in Instances : round[p] = 0 /\ at[p] = 1
    OBVIOUS
  <2> HIDE DEF Init
  <2>2. ASSUME NEW p \in Instances PROVE ~ (round[p] > 0) /\ ~ (at[p] > LoopFrom)
    <3>1. round[p] = 0 /\ at[p] = 1 /\ LoopFrom = 17
      BY <2>1, ProgramLength
    <3> QED
      BY <3>1
  <2>3. \A x : x \notin clean
    BY <2>1
  <2> QED
    BY <2>2, <2>3, Zenon DEF RoundsInv
<1> QED
  BY <1>2, <1>3, <1>4, Zenon DEF IInv

\* What RoundsInv says of one process.
LEMMA RoundPlaces ==
    IInv => \A q \in Instances : /\ round[q] > 0 => at[q] >= 17
                                 /\ at[q] > 17 => round[q] > 0
<1> SUFFICES ASSUME IInv, NEW q \in Instances
             PROVE  (round[q] > 0 => at[q] >= LoopFrom) /\ (at[q] > LoopFrom => round[q] > 0)
  BY ProgramLength
<1> QED
  BY Zenon DEF IInv, RoundsInv

LEMMA RoundRows ==
    ASSUME IInv, NEW q \in Instances, NEW t \in Sampled, NEW k \in 1 .. round[q] - 1,
           <<run[q], k>> \in clean
    PROVE  \E r \in rows[t] : r.run = run[q] /\ r.round = k
BY Zenon DEF IInv, RoundsInv

Typed == Types /\ RowTypes

\* Run numbers are dealt out by Start alone, and only Start sets a process running.
LEMMA StepRuns == Typed /\ RunsInv /\ [Next]_vars => RunsInv'
<1> SUFFICES ASSUME Typed, RunsInv, [Next]_vars PROVE RunsInv'
  OBVIOUS
<1> USE DEF Typed, Types, RowTypes
<1>1. ASSUME NEW p \in Instances, Start(p) PROVE RunsInv'
  BY <1>1 DEF Start, RunsInv
<1>2. ASSUME UNCHANGED <<run, starts>>, \A q \in Instances : proc'[q] = "running" => proc[q] = "running"
      PROVE  RunsInv'
  BY <1>2 DEF RunsInv
<1>3. ASSUME NEW p \in Instances, Move(p) PROVE RunsInv'
  <2>1. CASE DropTable(p) \/ CreateTable(p) \/ Insert(p) \/ UseTable(p)
    BY <1>2, <2>1 DEF DropTable, CreateTable, Insert, UseTable
  <2>2. CASE TakeCalendar(p) \/ Sleep(p)
    BY <1>2, <2>2 DEF TakeCalendar, Sleep
  <2>3. CASE Rejected(p) \/ Fault(p) \/ Stop(p)
    BY <1>2, <2>3 DEF Rejected, Fault, Stop, Dies
  <2> QED
    BY <1>1, <1>3, <2>1, <2>2, <2>3 DEF Move
<1>4. CASE Tick \/ UNCHANGED vars
  BY <1>2, <1>4 DEF Tick, vars
<1> QED
  BY <1>3, <1>4 DEF Next, Move

\* A step that leaves what the rounds are made of alone.
LEMMA StepCalm ==
    IInv /\ UNCHANGED <<at, round, stamp, rows, starts, run, clean>> =>
        RowsInv' /\ RoundsInv' /\ DiscFirst'
<1> SUFFICES ASSUME IInv, UNCHANGED <<at, round, stamp, rows, starts, run, clean>>
             PROVE  RowsInv' /\ RoundsInv' /\ DiscFirst'
  OBVIOUS
<1>1. RowsInv'
  BY DEF IInv, RowsInv
<1>2. RoundsInv'
  BY DEF IInv, RoundsInv, ThisRound, Past
<1>3. DiscFirst'
  BY DEF IInv, DiscFirst
<1> QED
  BY <1>1, <1>2, <1>3

\* A new run has no row and no round.
LEMMA StepStart ==
    ASSUME Typed, IInv, NEW p \in Instances, Start(p)
    PROVE  RowsInv' /\ RoundsInv' /\ DiscFirst'
<1> USE DEF Typed, Types, RowTypes
<1>0. /\ starts' = starts + 1 /\ run' = [run EXCEPT ![p] = starts + 1]
      /\ at' = [at EXCEPT ![p] = 1] /\ round' = [round EXCEPT ![p] = 0]
      /\ UNCHANGED <<stamp, rows, clean>>
  BY DEF Start
<1>1. RowsInv'
  <2> SUFFICES ASSUME NEW t \in Sampled, NEW r \in rows[t]
               PROVE  /\ r.run \in 1 .. starts'
                      /\ \A q \in Instances : run'[q] = r.run => r.round <= round'[q]
                      /\ \A s \in rows[t] : r.ts = s.ts => r = s
    BY <1>0 DEF RowsInv
  <2>1. /\ r.run \in 1 .. starts
        /\ \A q \in Instances : run[q] = r.run => r.round <= round[q]
        /\ \A s \in rows[t] : r.ts = s.ts => r = s
    BY DEF IInv, RowsInv
  <2> QED
    BY <1>0, <2>1
<1>2. RoundsInv'
  <2> SUFFICES ASSUME NEW q \in Instances
               PROVE  /\ round'[q] > 0 => at'[q] >= LoopFrom
                      /\ at'[q] > LoopFrom => round'[q] > 0
                      /\ \A t \in Sampled :
                             /\ <<run'[q], round'[q]>> \in clean' => ThisRound(q, t)'
                             /\ \A k \in 1 .. round'[q] - 1 :
                                    <<run'[q], k>> \in clean' =>
                                        \E r \in rows'[t] : r.run = run'[q] /\ r.round = k
    BY DEF RoundsInv
  <2>1. CASE q = p
    BY <1>0, <2>1, ProgramLength DEF ThisRound
  <2>2. CASE q # p
    <3>1. /\ run'[q] = run[q] /\ at'[q] = at[q] /\ round'[q] = round[q]
          /\ UNCHANGED <<stamp, rows, clean>>
      BY <1>0, <2>2
    <3> QED
      BY <3>1 DEF IInv, RoundsInv, ThisRound, Past
  <2> QED
    BY <2>1, <2>2
<1>3. DiscFirst'
  BY <1>0 DEF IInv, DiscFirst
<1> QED
  BY <1>1, <1>2, <1>3

\* The step of one process through its program, as the others see it.
LEMMA OtherRounds ==
    ASSUME Typed, IInv, NEW p \in Instances, NEW q \in Instances,
           run'[q] = run[q], at'[q] = at[q], round'[q] = round[q], stamp'[q] = stamp[q],
           \A k \in 1 .. round[q] : <<run[q], k>> \in clean' => <<run[q], k>> \in clean,
           \A t \in Sampled : rows[t] \subseteq rows'[t]
    PROVE  /\ round'[q] > 0 => at'[q] >= LoopFrom
           /\ at'[q] > LoopFrom => round'[q] > 0
           /\ \A t \in Sampled :
                  /\ <<run'[q], round'[q]>> \in clean' => ThisRound(q, t)'
                  /\ \A k \in 1 .. round'[q] - 1 :
                         <<run'[q], k>> \in clean' =>
                             \E r \in rows'[t] : r.run = run'[q] /\ r.round = k
<1> USE DEF Typed, Types, RowTypes
<1>1. /\ round[q] > 0 => at[q] >= LoopFrom
      /\ at[q] > LoopFrom => round[q] > 0
  BY DEF IInv, RoundsInv
<1>2. ASSUME NEW t \in Sampled, <<run[q], round[q]>> \in clean' PROVE ThisRound(q, t)'
  <2>1. round[q] > 0 => ThisRound(q, t)
    BY <1>2 DEF IInv, RoundsInv
  <2> QED
    BY <2>1 DEF ThisRound, Past
<1>3. ASSUME NEW t \in Sampled, NEW k \in 1 .. round[q] - 1, <<run[q], k>> \in clean'
      PROVE  \E r \in rows'[t] : r.run = run[q] /\ r.round = k
  <2>1. <<run[q], k>> \in clean
    BY <1>3
  <2>2. \E r \in rows[t] : r.run = run[q] /\ r.round = k
    BY <2>1, RoundRows
  <2> QED
    BY <2>2
<1> QED
  BY <1>1, <1>2, <1>3

\* initDB empties the tables, and no round is clean any more.
LEMMA StepDrop ==
    ASSUME Typed, IInv, NEW p \in Instances, DropTable(p)
    PROVE  RowsInv' /\ RoundsInv' /\ DiscFirst'
<1> USE DEF Typed, Types, RowTypes
<1>0. /\ at' = [at EXCEPT ![p] = @ + 1] /\ clean' = {}
      /\ UNCHANGED <<round, stamp, starts, run>>
      /\ \A t \in Sampled : rows'[t] \subseteq rows[t]
  BY DEF DropTable, Advance, Sampled
<1>1. RowsInv'
  BY <1>0 DEF IInv, RowsInv
<1>2. RoundsInv'
  <2>1. at[p] \in 1 .. 31 /\ at[p] <= 11
    <3>1. at[p] \in 1 .. 31 /\ Program[at[p]].op = "drop"
      BY AtStatement DEF DropTable
    <3> QED
      BY <3>1, Places
  <2>2. \A q \in Instances : /\ round'[q] > 0 => at'[q] >= LoopFrom
                             /\ at'[q] > LoopFrom => round'[q] > 0
    <3>1. \A q \in Instances : /\ round[q] > 0 => at[q] >= 17
                               /\ at[q] > 17 => round[q] > 0
      BY RoundPlaces
    <3> QED
      BY <1>0, <2>1, <3>1, ProgramLength
  <2> QED
    BY <1>0, <2>2 DEF RoundsInv
<1>3. DiscFirst'
  BY <1>0 DEF DiscFirst
<1> QED
  BY <1>1, <1>2, <1>3

\* p goes on to the next statement, without a row.
LEMMA StepOn ==
    ASSUME Typed, IInv, NEW p \in Instances, at[p] \in 1 .. 31,
           at[p] <= 11 \/ at[p] \in 14 .. 16 \/ at[p] \in 22 .. 31,
           Program[at[p]].op # "insert",
           at' = [at EXCEPT ![p] = @ + 1], UNCHANGED <<round, stamp, rows, starts, run, clean>>
    PROVE  RowsInv' /\ RoundsInv' /\ DiscFirst'
<1> USE DEF Typed, Types, RowTypes
<1>1. RowsInv' /\ DiscFirst'
  BY DEF IInv, RowsInv, DiscFirst
<1>2. RoundsInv'
  <2> SUFFICES ASSUME NEW q \in Instances
               PROVE  /\ round'[q] > 0 => at'[q] >= LoopFrom
                      /\ at'[q] > LoopFrom => round'[q] > 0
                      /\ \A t \in Sampled :
                             /\ <<run'[q], round'[q]>> \in clean' => ThisRound(q, t)'
                             /\ \A k \in 1 .. round'[q] - 1 :
                                    <<run'[q], k>> \in clean' =>
                                        \E r \in rows'[t] : r.run = run'[q] /\ r.round = k
    BY DEF RoundsInv
  <2>1. CASE q # p
    <3>1. at'[q] = at[q]
      BY <2>1
    <3> QED
      BY <3>1, OtherRounds
  <2>2. CASE q = p
    <3>1. /\ round[p] > 0 => at[p] >= 17
          /\ at[p] > 17 => round[p] > 0
      BY RoundPlaces
    <3>2. /\ round'[p] > 0 => at'[p] >= 17
          /\ at'[p] > 17 => round'[p] > 0
      BY <3>1
    <3>3. ASSUME NEW t \in Sampled, <<run[p], round[p]>> \in clean PROVE ThisRound(p, t)'
      <4>1. CASE round[p] = 0
        BY <4>1 DEF ThisRound
      <4>2. CASE round[p] > 0
        <5>1. at[p] \in 22 .. 31
          BY <3>1, <4>2
        <5>2. ThisRound(p, t) /\ Past(t, at[p])
          BY <3>3, <5>1, PastInserts DEF IInv, RoundsInv
        <5> QED
          BY <4>2, <5>2 DEF ThisRound
      <4> QED
        BY <4>1, <4>2
    <3>4. \A t \in Sampled : \A k \in 1 .. round[p] - 1 :
              <<run[p], k>> \in clean => \E r \in rows[t] : r.run = run[p] /\ r.round = k
      BY DEF IInv, RoundsInv
    <3> QED
      BY <2>2, <3>2, <3>3, <3>4, ProgramLength
  <2> QED
    BY <2>1, <2>2
<1> QED
  BY <1>1, <1>2

\* A round starts: no table has a row of it, and the one before is in all of them.
LEMMA StepCalendar ==
    ASSUME Typed, IInv, NEW p \in Instances, TakeCalendar(p)
    PROVE  RowsInv' /\ RoundsInv' /\ DiscFirst'
<1> USE DEF Typed, Types, RowTypes
<1>1. /\ at[p] \in {12, 17} /\ at' = [at EXCEPT ![p] = @ + 1]
      /\ stamp' = [stamp EXCEPT ![p] = clock] /\ UNCHANGED <<rows, starts, run>>
      /\ run[p] > 0
  <2>1. proc[p] = "running" /\ at[p] \in 1 .. 31 /\ Program[at[p]].op = "calendar"
    BY AtStatement DEF TakeCalendar
  <2>2. run[p] > 0
    BY <2>1 DEF IInv, RunsInv
  <2>3. at[p] \in {12, 17}
    BY <2>1, Places
  <2> QED
    BY <2>2, <2>3 DEF TakeCalendar, Advance
<1>2. \/ at[p] = 12 /\ UNCHANGED <<round, clean>>
      \/ /\ at[p] = 17 /\ round' = [round EXCEPT ![p] = @ + 1]
         /\ clean' \subseteq clean \cup {<<run[p], round[p] + 1>>}
  BY <1>1, ProgramLength DEF TakeCalendar, InLoop
<1>3. \A q \in Instances : run[q] = run[p] => q = p
  BY <1>1 DEF IInv, RunsInv
<1>4. RowsInv'
  <2> SUFFICES ASSUME NEW t \in Sampled, NEW r \in rows[t]
               PROVE  /\ r.run \in 1 .. starts
                      /\ \A q \in Instances : run[q] = r.run => r.round <= round'[q]
                      /\ \A s \in rows[t] : r.ts = s.ts => r = s
    BY <1>1 DEF RowsInv
  <2>1. /\ r.run \in 1 .. starts
        /\ \A q \in Instances : run[q] = r.run => r.round <= round[q]
        /\ \A s \in rows[t] : r.ts = s.ts => r = s
    BY DEF IInv, RowsInv
  <2>2. r.round \in Nat
    BY DEF Row, Sampled
  <2>3. \A q \in Instances : round'[q] >= round[q] /\ round[q] \in Nat /\ round'[q] \in Nat
    BY <1>2
  <2> QED
    BY <2>1, <2>2, <2>3
<1>5. DiscFirst'
  <2> SUFFICES ASSUME NEW t \in Sampled, NEW r \in rows[t], <<r.run, r.round>> \in clean'
               PROVE  \E d \in rows["DISC"] : d.run = r.run /\ d.ts = r.ts
    BY <1>1 DEF DiscFirst
  <2>1. run[p] = r.run => r.round <= round[p]
    BY DEF IInv, RowsInv
  <2>2. <<r.run, r.round>> \in clean
    BY <1>2, <2>1
  <2> QED
    BY <2>2 DEF IInv, DiscFirst
<1>6. RoundsInv'
  <2> SUFFICES ASSUME NEW q \in Instances
               PROVE  /\ round'[q] > 0 => at'[q] >= LoopFrom
                      /\ at'[q] > LoopFrom => round'[q] > 0
                      /\ \A t \in Sampled :
                             /\ <<run'[q], round'[q]>> \in clean' => ThisRound(q, t)'
                             /\ \A k \in 1 .. round'[q] - 1 :
                                    <<run'[q], k>> \in clean' =>
                                        \E r \in rows'[t] : r.run = run'[q] /\ r.round = k
    BY DEF RoundsInv
  <2>1. CASE q # p
    <3>1. run'[q] = run[q] /\ at'[q] = at[q] /\ round'[q] = round[q] /\ stamp'[q] = stamp[q]
      BY <1>1, <1>2, <2>1
    <3>2. \A k \in 1 .. round[q] : <<run[q], k>> \in clean' => <<run[q], k>> \in clean
      BY <1>2, <1>3, <2>1
    <3> QED
      BY <1>1, <3>1, <3>2, OtherRounds
  <2>2. CASE q = p /\ at[p] = 12
    <3>1. round[p] = 0
      BY <2>2, RoundPlaces
    <3> QED
      BY <1>1, <1>2, <2>2, <3>1, ProgramLength DEF ThisRound
  <2>3. CASE q = p /\ at[p] = 17
    <3>1. at'[p] = 18 /\ round'[p] = round[p] + 1 /\ run'[p] = run[p]
      BY <1>1, <1>2, <2>3
    <3>2. ASSUME NEW t \in Sampled PROVE ThisRound(p, t)'
      <4>1. ~ Past(t, at[p])'
        BY <3>1, PastInserts DEF Past
      <4> QED
        BY <3>1, <4>1, ProgramLength DEF ThisRound
    <3>3. ASSUME NEW t \in Sampled, NEW k \in 1 .. round[p], <<run[p], k>> \in clean'
          PROVE  \E r \in rows[t] : r.run = run[p] /\ r.round = k
      <4>1. <<run[p], k>> \in clean
        BY <1>2, <2>3, <3>3
      <4>2. CASE k \in 1 .. round[p] - 1
        BY <4>1, <4>2, RoundRows
      <4>3. CASE k = round[p]
        <5>1. ThisRound(p, t)
          BY <4>1, <4>3, Zenon DEF IInv, RoundsInv
        <5> DEFINE w == [run |-> run[p], round |-> round[p], ts |-> stamp[p]]
        <5>2. w \in rows[t]
          BY <2>3, <3>3, <4>3, <5>1, ProgramLength DEF ThisRound
        <5>3. w.run = run[p] /\ w.round = k
          BY <4>3
        <5> QED
          BY <5>2, <5>3, Zenon
      <4> QED
        BY <4>2, <4>3
    <3> QED
      BY <1>1, <2>3, <3>1, <3>2, <3>3, ProgramLength
  <2> QED
    BY <1>1, <2>1, <2>2, <2>3
<1> QED
  BY <1>4, <1>5, <1>6

\* Back to the top of the loop, when the round has passed all of its inserts.
LEMMA StepSleep ==
    ASSUME Typed, IInv, NEW p \in Instances, Sleep(p)
    PROVE  RowsInv' /\ RoundsInv' /\ DiscFirst'
<1> USE DEF Typed, Types, RowTypes
<1>1. /\ at[p] = 32 /\ at' = [at EXCEPT ![p] = 17]
      /\ UNCHANGED <<round, stamp, rows, starts, run, clean>>
  BY ProgramLength DEF Sleep
<1>2. RowsInv' /\ DiscFirst'
  BY <1>1 DEF IInv, RowsInv, DiscFirst
<1>3. RoundsInv'
  <2> SUFFICES ASSUME NEW q \in Instances
               PROVE  /\ round'[q] > 0 => at'[q] >= LoopFrom
                      /\ at'[q] > LoopFrom => round'[q] > 0
                      /\ \A t \in Sampled :
                             /\ <<run'[q], round'[q]>> \in clean' => ThisRound(q, t)'
                             /\ \A k \in 1 .. round'[q] - 1 :
                                    <<run'[q], k>> \in clean' =>
                                        \E r \in rows'[t] : r.run = run'[q] /\ r.round = k
    BY DEF RoundsInv
  <2>1. CASE q # p
    <3>1. at'[q] = at[q]
      BY <1>1, <2>1
    <3> QED
      BY <1>1, <3>1, OtherRounds
  <2>2. CASE q = p
    <3>1. at'[p] = 17
      BY <1>1
    <3>2. ASSUME NEW t \in Sampled, <<run[p], round[p]>> \in clean PROVE ThisRound(p, t)'
      <4>1. ThisRound(p, t) /\ Past(t, at[p])
        BY <1>1, <3>2, PastInserts DEF IInv, RoundsInv
      <4> QED
        BY <1>1, <4>1 DEF ThisRound
    <3>3. \A t \in Sampled : \A k \in 1 .. round[p] - 1 :
              <<run[p], k>> \in clean => \E r \in rows[t] : r.run = run[p] /\ r.round = k
      BY RoundRows
    <3> QED
      BY <1>1, <2>2, <3>1, <3>2, <3>3, ProgramLength
  <2> QED
    BY <2>1, <2>2
<1> QED
  BY <1>2, <1>3

\* The insert of a time stamp no row has; in a round the rows of DISC come before
\* those of the other tables.
LEMMA StepInsert ==
    ASSUME Typed, IInv, NEW p \in Instances, Insert(p)
    PROVE  RowsInv' /\ RoundsInv' /\ DiscFirst'
<1> USE DEF Typed, Types, RowTypes
<1> DEFINE u == Table(p)
           w == [run |-> run[p], round |-> round[p], ts |-> stamp[p]]
<1>1. /\ at[p] = 13 \/ at[p] \in 18 .. 21
      /\ Program[at[p]] = InsertInto(u) /\ run[p] > 0
  <2>1. proc[p] = "running" /\ at[p] \in 1 .. 31 /\ Program[at[p]].op = "insert"
    BY AtStatement DEF Insert
  <2>2. run[p] > 0
    BY <2>1 DEF IInv, RunsInv
  <2>3. at[p] = 13 \/ at[p] \in 18 .. 21
    BY <2>1, Places
  <2>4. Program[at[p]] = InsertInto(u)
    <3>1. /\ Program[13] = InsertInto(Program[13].table) /\ Program[18] = InsertInto(Program[18].table)
          /\ Program[19] = InsertInto(Program[19].table) /\ Program[20] = InsertInto(Program[20].table)
          /\ Program[21] = InsertInto(Program[21].table)
      BY LoopSteps DEF InsertInto
    <3> QED
      BY <2>3, <3>1 DEF Table
  <2> QED
    BY <2>2, <2>3, <2>4
<1>2. /\ at' = [at EXCEPT ![p] = @ + 1] /\ UNCHANGED <<round, stamp, starts, run, clean>>
      /\ rows' = [rows EXCEPT ![u] = @ \cup {w}]
      /\ \A r \in rows[u] : r.ts # stamp[p]
  BY DEF Insert, Advance, Taken
<1>3. \A q \in Instances : run[q] = run[p] => q = p
  BY <1>1 DEF IInv, RunsInv
<1>4. w.run = run[p] /\ w.round = round[p] /\ w.ts = stamp[p]
  OBVIOUS
<1>5. \A t \in Sampled : /\ t = u => rows'[t] = rows[t] \cup {w}
                         /\ t # u => rows'[t] = rows[t]
  BY <1>2 DEF Sampled
<1>6. at[p] \in 18 .. 21 => round[p] > 0
  BY RoundPlaces
<1>7. at[p] = 13 => u \notin Sampled
  <2>1. InsertInto("MACHINE") = InsertInto(u) => u = "MACHINE"
    BY DEF InsertInto
  <2> QED
    BY <1>1, <2>1, LoopSteps DEF Sampled
<1> HIDE DEF u, w
<1>8. RowsInv'
  <2> SUFFICES ASSUME NEW t \in Sampled, NEW r \in rows'[t]
               PROVE  /\ r.run \in 1 .. starts
                      /\ \A q \in Instances : run[q] = r.run => r.round <= round[q]
                      /\ \A s \in rows'[t] : r.ts = s.ts => r = s
    BY <1>2 DEF RowsInv
  <2>1. \A s \in rows[t] : /\ s.run \in 1 .. starts
                           /\ \A q \in Instances : run[q] = s.run => s.round <= round[q]
                           /\ \A v \in rows[t] : s.ts = v.ts => s = v
    BY DEF IInv, RowsInv
  <2>2. run[p] \in 1 .. starts
    BY <1>1 DEF IInv, RunsInv
  <2>3. CASE r \in rows[t]
    BY <1>2, <1>4, <1>5, <2>1, <2>3
  <2>4. CASE t = u /\ r = w
    BY <1>2, <1>3, <1>4, <1>5, <2>2, <2>4
  <2> QED
    BY <1>5, <2>3, <2>4
<1>9. DiscFirst'
  <2> SUFFICES ASSUME NEW t \in Sampled, NEW r \in rows'[t], <<r.run, r.round>> \in clean
               PROVE  \E d \in rows'["DISC"] : d.run = r.run /\ d.ts = r.ts
    BY <1>2 DEF DiscFirst
  <2>0. "DISC" \in Sampled /\ rows["DISC"] \subseteq rows'["DISC"]
    BY <1>5 DEF Sampled, Tables
  <2>1. CASE r \in rows[t]
    <3>1. \E d \in rows["DISC"] : d.run = r.run /\ d.ts = r.ts
      BY <2>1 DEF IInv, DiscFirst
    <3> QED
      BY <2>0, <3>1
  <2>2. CASE t = u /\ r = w /\ u = "DISC"
    BY <2>2
  <2>3. CASE t = u /\ r = w /\ u # "DISC"
    <3>1. at[p] # 18 /\ at[p] \in 18 .. 21
      <4>1. Program[18] = InsertInto(u) => u = "DISC"
        BY LoopSteps DEF InsertInto
      <4> QED
        BY <1>1, <1>7, <2>3, <4>1
    <3>2. Past("DISC", at[p]) /\ round[p] > 0
      BY <1>6, <3>1, PastInserts
    <3>3. ThisRound(p, "DISC")
      BY <1>4, <2>0, <2>3 DEF IInv, RoundsInv
    <3>4. w \in rows["DISC"]
      BY <3>2, <3>3 DEF ThisRound, w
    <3> QED
      BY <2>0, <2>3, <3>4
  <2> QED
    BY <1>5, <2>1, <2>2, <2>3
<1>10. RoundsInv'
  <2> SUFFICES ASSUME NEW q \in Instances
               PROVE  /\ round'[q] > 0 => at'[q] >= LoopFrom
                      /\ at'[q] > LoopFrom => round'[q] > 0
                      /\ \A t \in Sampled :
                             /\ <<run'[q], round'[q]>> \in clean' => ThisRound(q, t)'
                             /\ \A k \in 1 .. round'[q] - 1 :
                                    <<run'[q], k>> \in clean' =>
                                        \E r \in rows'[t] : r.run = run'[q] /\ r.round = k
    BY DEF RoundsInv
  <2>0. \A t \in Sampled : rows[t] \subseteq rows'[t]
    BY <1>5
  <2>1. CASE q # p
    <3>1. at'[q] = at[q]
      BY <1>2, <2>1
    <3> QED
      BY <1>2, <2>0, <3>1, OtherRounds
  <2>2. CASE q = p
    <3>1. at'[p] = at[p] + 1
      BY <1>2
    <3>2. /\ round[p] > 0 => at'[p] >= 17
          /\ at'[p] > 17 => round[p] > 0
      BY <1>1, <3>1, RoundPlaces
    <3>3. ASSUME NEW t \in Sampled, <<run[p], round[p]>> \in clean PROVE ThisRound(p, t)'
      <4> SUFFICES ASSUME round[p] > 0, at'[p] = LoopFrom \/ Past(t, at'[p])
                   PROVE  w \in rows'[t]
        BY <1>2 DEF ThisRound, Past, w
      <4>1. Past(t, at[p] + 1) /\ at[p] \in 1 .. 31
        BY <1>1, <3>1, ProgramLength
      <4>2. CASE Past(t, at[p])
        <5>1. ThisRound(p, t)
          BY <3>3, Zenon DEF IInv, RoundsInv
        <5>2. w \in rows[t]
          BY <4>2, <5>1 DEF ThisRound, w
        <5> QED
          BY <2>0, <5>2
      <4>3. CASE Program[at[p]] = InsertInto(t)
        <5>1. t = u
          BY <1>1, <4>3 DEF InsertInto
        <5> QED
          BY <1>5, <5>1
      <4> QED
        BY <4>1, <4>2, <4>3, PastInserts
    <3>4. \A t \in Sampled : \A k \in 1 .. round[p] - 1 :
              <<run[p], k>> \in clean => \E r \in rows'[t] : r.run = run[p] /\ r.round = k
      BY <2>0, RoundRows
    <3> QED
      BY <1>2, <2>2, <3>2, <3>3, <3>4, ProgramLength
  <2> QED
    BY <2>1, <2>2
<1> QED
  BY <1>8, <1>9, <1>10

LEMMA StepIInv == Typed /\ IInv /\ [Next]_vars => IInv'
<1> SUFFICES ASSUME Typed, IInv, [Next]_vars PROVE RowsInv' /\ RoundsInv' /\ DiscFirst'
  BY StepRuns DEF IInv
<1>1. ASSUME NEW p \in Instances, Move(p) PROVE RowsInv' /\ RoundsInv' /\ DiscFirst'
  <2>1. CASE Start(p)
    BY <2>1, StepStart
  <2>2. CASE DropTable(p)
    BY <2>2, StepDrop
  <2>3. CASE CreateTable(p) \/ UseTable(p)
    <3>1. at[p] \in 1 .. 31 /\ Program[at[p]].op \in {"create", "use"}
      BY <2>3, AtStatement DEF CreateTable, UseTable, Typed
    <3>2. at[p] <= 11 \/ at[p] \in 14 .. 16 \/ at[p] \in 22 .. 31
      BY <3>1, Places
    <3>3. at' = [at EXCEPT ![p] = @ + 1] /\ UNCHANGED <<round, stamp, rows, starts, run, clean>>
      BY <2>3 DEF CreateTable, UseTable, Advance
    <3> QED
      BY <3>1, <3>2, <3>3, StepOn
  <2>4. CASE Insert(p)
    BY <2>4, StepInsert
  <2>5. CASE TakeCalendar(p)
    BY <2>5, StepCalendar
  <2>6. CASE Sleep(p)
    BY <2>6, StepSleep
  <2>7. CASE Rejected(p) \/ Fault(p) \/ Stop(p)
    BY <2>7, StepCalm DEF Rejected, Fault, Stop, Dies
  <2> QED
    BY <1>1, <2>1, <2>2, <2>3, <2>4, <2>5, <2>6, <2>7 DEF Move
<1>2. CASE Tick \/ UNCHANGED vars
  BY <1>2, StepCalm DEF Tick, vars
<1> QED
  BY <1>1, <1>2 DEF Next, Move

\* The invariant behind the two theorems that follow: rows are of runs and rounds that
\* have begun and differ in their time stamp, DISC comes first in a round, and a clean
\* round has the rows of the inserts it has passed.
THEOREM InstancesInductive == Spec => []IInv
<1>1. Init => Typed
  BY InitTypes, InitRowTypes DEF Typed
<1>2. Typed /\ [Next]_vars => Typed'
  BY StepTypes, StepRowTypes DEF Typed
<1> QED
  BY <1>1, <1>2, InitIInv, StepIInv, PTL DEF Spec

\* Whatever number of processes samples, the rows of one time stamp are of one process
\* in every table, as far as they are of rounds begun outside of any initDB and since
\* the last one: the primary key of DISC, the first insert, keeps the other one out.
THEOREM StampsAreOfOneProcess == Spec => []OneProcessPerStamp
<1>1. IInv => OneProcessPerStamp
  <2> SUFFICES ASSUME IInv, NEW t \in Sampled, NEW u \in Sampled,
                      NEW r \in rows[t], NEW s \in rows[u], r.ts = s.ts,
                      <<r.run, r.round>> \in clean, <<s.run, s.round>> \in clean
               PROVE  r.run = s.run
    BY DEF OneProcessPerStamp
  <2>1. PICK d \in rows["DISC"] : d.run = r.run /\ d.ts = r.ts
    BY DEF IInv, DiscFirst
  <2>2. PICK e \in rows["DISC"] : e.run = s.run /\ e.ts = s.ts
    BY DEF IInv, DiscFirst
  <2>3. d = e
    BY <2>1, <2>2 DEF IInv, RowsInv, Sampled, Tables
  <2> QED
    BY <2>1, <2>2, <2>3
<1> QED
  BY <1>1, InstancesInductive, PTL

LEMMA RoundWhole ==
    ASSUME Typed, IInv, NEW p \in Instances, NEW k \in 1 .. round[p], NEW t \in Sampled,
           <<run[p], k>> \in clean, k < round[p] \/ at[p] > 21
    PROVE  \E r \in rows[t] : r.run = run[p] /\ r.round = k
<1> USE DEF Typed, Types, RowTypes
<1>1. CASE k < round[p]
  BY <1>1, RoundRows
<1>2. CASE k = round[p] /\ at[p] > 21
  <2> DEFINE w == [run |-> run[p], round |-> round[p], ts |-> stamp[p]]
  <2>1. at[p] \in 22 .. 32
    BY <1>2
  <2>2. Past(t, at[p])
    BY <2>1, PastInserts, Zenon
  <2>3. ThisRound(p, t)
    BY <1>2, Zenon DEF IInv, RoundsInv
  <2>4. w \in rows[t]
    BY <1>2, <2>2, <2>3 DEF ThisRound
  <2>5. w.run = run[p] /\ w.round = k
    BY <1>2
  <2> QED
    BY <2>4, <2>5, Zenon
<1> QED
  BY <1>1, <1>2

\* A round begun outside of any initDB and run to its end is whole, until the next
\* initDB: no other process, by its inserts or by dying, takes a row from it.
THEOREM CleanRoundsAreWhole == Spec => []CleanRoundsWhole
<1>0. LoopFrom + Len(Collect) - 1 = 21
  BY ProgramLength, ProgramParts
<1>1. Typed /\ IInv => CleanRoundsWhole
  <2> SUFFICES ASSUME Typed, IInv, NEW p \in Instances, NEW k \in 1 .. round[p],
                      <<run[p], k>> \in clean,
                      k < round[p] \/ at[p] > LoopFrom + Len(Collect) - 1,
                      NEW t \in Sampled
               PROVE  \E r \in rows[t] : r.run = run[p] /\ r.round = k
    BY Zenon DEF CleanRoundsWhole
  <2> DEFINE n == LoopFrom + Len(Collect) - 1
  <2>1. n = 21
    BY <1>0
  <2>2. k < round[p] \/ at[p] > n
    OBVIOUS
  <2> HIDE DEF n
  <2>3. k < round[p] \/ at[p] > 21
    BY <2>1, <2>2
  <2> QED
    BY <2>3, RoundWhole, Zenon
<1>2. Init => Typed
  BY InitTypes, InitRowTypes DEF Typed
<1>3. Typed /\ [Next]_vars => Typed'
  BY StepTypes, StepRowTypes DEF Typed
<1> QED
  BY <1>1, <1>2, <1>3, InstancesInductive, PTL DEF Spec
=============================================================================
