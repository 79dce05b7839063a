----------------------------- MODULE Instances -----------------------------
(***************************************************************************)
(* Several CRUM processes on one C:/tmp/crum.db.  Nothing keeps a second   *)
(* one from being started, and initDB of the second drops the tables the   *)
(* first is writing to.                                                    *)
(*                                                                         *)
(* A process is the list of its SQL statements, each of which is atomic    *)
(* (AtomicDb, which Pager implements) and may fail.  What Crum says of one *)
(* process, its window and its charts, is left out here; the clock does    *)
(* not go back.                                                            *)
(***************************************************************************)
EXTENDS Integers, Sequences

CONSTANTS
    Instances,  \* the processes
    MaxStarts,  \* bound: how often CRUM is started
    MaxRounds,  \* bound: rounds of the main loop in one run
    MaxClock    \* bound: the clock, in units of a time stamp

ASSUME InstancesBounds == MaxStarts \in Nat /\ MaxRounds \in Nat /\ MaxClock \in Nat

Tables == {"MACHINE", "DISC", "CPU", "NETWORK", "RAM"}
Sampled == Tables \ {"MACHINE"}

Drop(t) == [op |-> "drop", table |-> t]
Create(t) == [op |-> "create", table |-> t]
InsertInto(t) == [op |-> "insert", table |-> t]
Use(t) == [op |-> "use", table |-> t]       \* a SELECT, or a DELETE of no row

\* A faulty variant: each table is created before the leftover one is dropped.
InitDBCreatesFirst ==
    <<Create("MACHINE"), Create("DISC"), Create("CPU"), Create("NETWORK"), Create("RAM"),
      Drop("MACHINE"), Drop("DISC"), Drop("USER"), Drop("CPU"), Drop("NETWORK"), Drop("RAM")>>

InitDB ==
    <<Drop("MACHINE"), Drop("DISC"), Drop("USER"), Drop("CPU"), Drop("NETWORK"), Drop("RAM"),
      Create("MACHINE"), Create("DISC"), Create("CPU"), Create("NETWORK"), Create("RAM")>>

\* Calendar.getInstance, the time stamp of the inserts that follow.
Calendar == [op |-> "calendar", table |-> "none"]

\* initMachine, and the three datasets that new CrumUI fills.
Opening == <<Calendar, InsertInto("MACHINE"), Use("CPU"), Use("RAM"), Use("NETWORK")>>

Collect ==
    <<Calendar, InsertInto("DISC"), InsertInto("CPU"), InsertInto("RAM"), InsertInto("NETWORK")>>

\* cullDatabase and refresh.
Tidy == <<Use("MACHINE"), Use("DISC"), Use("CPU"), Use("RAM"), Use("NETWORK")>>
Refresh == <<Use("MACHINE"), Use("DISC"), Use("CPU"), Use("RAM"), Use("NETWORK")>>

Program == InitDB \o Opening \o Collect \o Tidy \o Refresh
LoopFrom == Len(InitDB) + Len(Opening) + 1

VARIABLES
    clock,   \* the wall clock
    proc,    \* "off", "running", "zombie" (main dead, window open) or "exited"
    at,      \* the statement a process executes next, by its place in Program
    round,   \* the rounds of this run a process has begun
    stamp,   \* the calendar of that round, or of initMachine
    schema,  \* the tables of crum.db
    rows,    \* their rows: the process, its run and round, and the time stamp
    starts,  \* how often CRUM was started
    run,     \* a process's run, by number
    cut,     \* history: has a process ended in the middle of initDB
    clean    \* history: the rounds <<run, round>> begun outside of any initDB
             \* and since the last one

vars == <<clock, proc, at, round, stamp, schema, rows, starts, run, cut, clean>>

TypeOK ==
    /\ clock \in Nat /\ starts \in Nat
    /\ proc \in [Instances -> {"off", "running", "zombie", "exited"}]
    /\ at \in [Instances -> 1 .. Len(Program) + 1]
    /\ round \in [Instances -> Nat] /\ stamp \in [Instances -> Nat]
    /\ run \in [Instances -> Nat]
    /\ schema \in SUBSET Tables
    /\ rows \in [Tables -> SUBSET [run : Nat, round : Nat, ts : Nat]]
    /\ cut \in BOOLEAN
    /\ clean \in SUBSET (Nat \X Nat)

\* An older version may have left any of the tables, and rows that go with them.
Init ==
    /\ clock = 0
    /\ proc = [p \in Instances |-> "off"]
    /\ at = [p \in Instances |-> 1]
    /\ round = [p \in Instances |-> 0]
    /\ stamp = [p \in Instances |-> 0]
    /\ schema \in {{}, Tables}
    /\ rows = [t \in Tables |-> {}]
    /\ starts = 0
    /\ run = [p \in Instances |-> 0]
    /\ cut = FALSE
    /\ clean = {}

-----------------------------------------------------------------------------
InInitDB(p) == proc[p] = "running" /\ at[p] <= Len(InitDB)

Start(p) ==
    /\ proc[p] \in {"off", "exited"}
    /\ starts < MaxStarts
    /\ starts' = starts + 1
    /\ run' = [run EXCEPT ![p] = starts + 1]
    /\ proc' = [proc EXCEPT ![p] = "running"]
    /\ at' = [at EXCEPT ![p] = 1]
    /\ round' = [round EXCEPT ![p] = 0]
    /\ UNCHANGED <<clock, stamp, schema, rows, cut, clean>>

\* The statement p is at, if main is in one.
Executes(p, op) == proc[p] = "running" /\ at[p] <= Len(Program) /\ Program[at[p]].op = op
Table(p) == Program[at[p]].table
Advance(p) == at' = [at EXCEPT ![p] = @ + 1]

DropTable(p) ==
    /\ Executes(p, "drop")
    /\ schema' = schema \ {Table(p)}
    /\ rows' = [t \in Tables |-> IF t = Table(p) THEN {} ELSE rows[t]]
    /\ clean' = {}
    /\ Advance(p)
    /\ UNCHANGED <<clock, proc, round, stamp, starts, run, cut>>

CreateTable(p) ==
    /\ Executes(p, "create")
    /\ schema' = schema \cup {Table(p)}
    /\ Advance(p)
    /\ UNCHANGED <<clock, proc, round, stamp, rows, starts, run, cut, clean>>

\* The rows of a table differ in TIMESTAMP alone, as all come from one machine.
Taken(p) == \E r \in rows[Table(p)] : r.ts = stamp[p]

\* A faulty variant: the run is part of the primary key.
InsertPerRun(p) ==
    /\ Executes(p, "insert")
    /\ Table(p) \in schema
    /\ rows' = [rows EXCEPT ![Table(p)] =
                    @ \cup {[run |-> run[p], round |-> round[p], ts |-> stamp[p]]}]
    /\ Advance(p)
    /\ UNCHANGED <<clock, proc, round, stamp, schema, starts, run, cut, clean>>

\* A faulty variant: INSERT OR IGNORE.
InsertOrIgnore(p) ==
    /\ Executes(p, "insert")
    /\ Table(p) \in schema
    /\ rows' = IF Taken(p) THEN rows
               ELSE [rows EXCEPT ![Table(p)] =
                        @ \cup {[run |-> run[p], round |-> round[p], ts |-> stamp[p]]}]
    /\ Advance(p)
    /\ UNCHANGED <<clock, proc, round, stamp, schema, starts, run, cut, clean>>

Insert(p) ==
    /\ Executes(p, "insert")
    /\ Table(p) \in schema /\ ~ Taken(p)
    /\ rows' = [rows EXCEPT ![Table(p)] =
                    @ \cup {[run |-> run[p], round |-> round[p], ts |-> stamp[p]]}]
    /\ Advance(p)
    /\ UNCHANGED <<clock, proc, round, stamp, schema, starts, run, cut, clean>>

UseTable(p) ==
    /\ Executes(p, "use")
    /\ Table(p) \in schema
    /\ Advance(p)
    /\ UNCHANGED <<clock, proc, round, stamp, schema, rows, starts, run, cut, clean>>

InLoop(p) == at[p] >= LoopFrom

\* A round is a calendar main takes in its loop.
TakeCalendar(p) ==
    /\ Executes(p, "calendar")
    /\ stamp' = [stamp EXCEPT ![p] = clock]
    /\ IF InLoop(p)
       THEN /\ round[p] < MaxRounds
            /\ round' = [round EXCEPT ![p] = @ + 1]
            /\ clean' = IF \E q \in Instances : InInitDB(q) THEN clean
                        ELSE clean \cup {<<run[p], round[p] + 1>>}
       ELSE UNCHANGED <<round, clean>>
    /\ Advance(p)
    /\ UNCHANGED <<clock, proc, schema, rows, starts, run, cut>>

\* The clock moves on while main sleeps.
Sleep(p) ==
    /\ proc[p] = "running" /\ at[p] = Len(Program) + 1
    /\ clock > stamp[p]
    /\ at' = [at EXCEPT ![p] = LoopFrom]
    /\ UNCHANGED <<clock, proc, round, stamp, schema, rows, starts, run, cut, clean>>

\* initDB and getDiskData end the JVM; so does any exception before the window is
\* there.  After that the window outlives main.
Dies(p) ==
    /\ proc' = [proc EXCEPT ![p] = IF InLoop(p) /\ Program[at[p]] # InsertInto("DISC")
                                   THEN "zombie" ELSE "exited"]
    /\ cut' = (cut \/ InInitDB(p))
    /\ UNCHANGED <<clock, at, round, stamp, schema, rows, starts, run, clean>>

\* No such table, or the primary key is taken.
Rejected(p) ==
    /\ Executes(p, "insert") \/ Executes(p, "use")
    /\ Table(p) \notin schema \/ (Executes(p, "insert") /\ Taken(p))
    /\ Dies(p)

\* SQLITE_BUSY after three seconds, or an error.
Fault(p) ==
    /\ proc[p] = "running" /\ at[p] <= Len(Program)
    /\ Dies(p)

\* The process is killed, or its window closed.
Stop(p) ==
    /\ proc[p] \in {"running", "zombie"}
    /\ proc' = [proc EXCEPT ![p] = "exited"]
    /\ cut' = (cut \/ InInitDB(p))
    /\ UNCHANGED <<clock, at, round, stamp, schema, rows, starts, run, clean>>

Tick ==
    /\ clock < MaxClock
    /\ clock' = clock + 1
    /\ UNCHANGED <<proc, at, round, stamp, schema, rows, starts, run, cut, clean>>

Next ==
    \/ \E p \in Instances :
           \/ Start(p) \/ DropTable(p) \/ CreateTable(p) \/ Insert(p) \/ UseTable(p)
           \/ TakeCalendar(p) \/ Sleep(p) \/ Rejected(p) \/ Fault(p) \/ Stop(p)
    \/ Tick

Spec == Init /\ [][Next]_vars

-----------------------------------------------------------------------------
\* Properties

\* A table that is missing once CRUM has been started is about to be made, however
\* the initDBs of several processes mix: whoever dropped it last creates it, unless
\* that process was stopped in between.
WillCreate(p, t) == InInitDB(p) /\ \E k \in at[p] .. Len(InitDB) : InitDB[k] = Create(t)

MissingIsComing ==
    starts > 0 /\ ~ cut => \A t \in Tables \ schema : \E p \in Instances : WillCreate(p, t)

\* Two processes may come to sample at the same instant.  The rows of that time
\* stamp are of one of them in every table, unless an initDB came after one of them
\* had begun.
OneProcessPerStamp ==
    \A t, u \in Sampled : \A r \in rows[t], s \in rows[u] :
        r.ts = s.ts /\ {<<r.run, r.round>>, <<s.run, s.round>>} \subseteq clean => r.run = s.run

\* A round that was begun outside of any initDB and ran to its end is in every
\* table, until the next initDB, whatever the other processes do.
CleanRoundsWhole ==
    \A p \in Instances : \A k \in 1 .. round[p] :
        /\ <<run[p], k>> \in clean
        /\ k < round[p] \/ at[p] > LoopFrom + Len(Collect) - 1
        => \A t \in Sampled : \E r \in rows[t] : r.run = run[p] /\ r.round = k

-----------------------------------------------------------------------------
\* The inductive invariant behind OneProcessPerStamp and CleanRoundsWhole

\* Runs are numbered, and a number is given to one process.
RunsInv ==
    /\ \A p \in Instances : run[p] \in 0 .. starts /\ (proc[p] = "running" => run[p] > 0)
    /\ \A p, q \in Instances : p # q /\ run[p] > 0 => run[p] # run[q]

\* A row is of a run, and of a round that has begun; no two have the same key.
RowsInv ==
    \A t \in Sampled : \A r \in rows[t] :
        /\ r.run \in 1 .. starts
        /\ \A p \in Instances : run[p] = r.run => r.round <= round[p]
        /\ \A s \in rows[t] : r.ts = s.ts => r = s

\* A main that comes to statement n has been past the round's insert into t.
Past(t, n) == \E k \in LoopFrom .. n - 1 : Program[k] = InsertInto(t)

\* In a clean round a table has the round's row from its insert on, and still when
\* main is back where it takes the next calendar.
ThisRound(p, t) ==
    round[p] > 0 /\ (at[p] = LoopFrom \/ Past(t, at[p])) =>
        [run |-> run[p], round |-> round[p], ts |-> stamp[p]] \in rows[t]

RoundsInv ==
    \A p \in Instances :
        /\ round[p] > 0 => at[p] >= LoopFrom
        /\ at[p] > LoopFrom => round[p] > 0
        /\ \A t \in Sampled :
               /\ <<run[p], round[p]>> \in clean => ThisRound(p, t)
               /\ \A k \in 1 .. round[p] - 1 :
                      <<run[p], k>> \in clean =>
                          \E r \in rows[t] : r.run = run[p] /\ r.round = k

\* DISC comes first in a round: whoever has a row elsewhere has the one of that time
\* stamp there, and it is the only one.
DiscFirst ==
    \A t \in Sampled : \A r \in rows[t] :
        <<r.run, r.round>> \in clean => \E d \in rows["DISC"] : d.run = r.run /\ d.ts = r.ts

IInv == RunsInv /\ RowsInv /\ RoundsInv /\ DiscFirst
=============================================================================
