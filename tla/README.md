# Verification of CRUM

CRUM (Computer Resource Usage Monitor) samples the computer once a second
through OSHI, writes the samples into an SQLite file and shows them in a Swing
window. This directory holds TLA+ models of it, the TLC runs that check them and
proofs about them. Paths below are relative to the repository; `CRUM/` stands for
`src/main/java/CRUM/`.

    tlc -config MCCrum.cfg MCCrum          tlapm CrumProofs.tla

## The system

| Part | State | Operations |
|---|---|---|
| `CRUM.main`, `initOSHI`, `initMachine` | the calendar of the round, the connection `c`, one shared `Statement` | start-up, then for ever: disk, CPU, memory, network, cull, refresh, sleep one second |
| `CRUM.initDB`, `crum.db` | five tables; a sixth, `USER`, left by an older version is dropped | open, six DROPs, five CREATEs, each its own transaction |
| `CRUM.cullDatabase` | - | five DELETEs by age |
| `CrumUI`, `DiskPanel` | labels, three `JDBCCategoryDataset`s, one `DiskPanel` per file store | constructor, `createUI`, `refresh` (main, disks, CPU, RAM, network) |
| `Disk` | map from stores to disks, the `prev` arrays | `initDisk`, `getDiskData` |
| `Network` | `baselineBytesIn`, `baselineBytesOut` | `initNetwork`, `getNetworkData` |
| `CPU` | `prevLoadTicks` | `initCPU`, `getCPUData` |
| `Memory` | `numMemModules` | `initMemory`, `getMemoryData` |
| SQLite's dates (`date.c`) | - | `DATETIME` of what the cull compares |
| SQLite's pager (`pager.c`, with the begin and commit of `btree.c` and `vdbeaux.c`) | database file, journal, page cache, `dbFileVers` | shared lock and hot journals, read, write, commit, rollback, busy handler |
| SQLite's file locks (`os_win.c`) | byte ranges of the file, `locktype` | `winLock`, `winUnlock`, `winCheckReservedLock` |
| OSHI, sqlite-jdbc, JFreeChart, Swing | counters as last updated; datasets; the event thread | external: modelled from how CRUM uses them |

SQLite is in the repository as an amalgamation, `sqlite3.c`; file names such as
`pager.c` are those of its parts. Each process has one connection
(`CRUM/CRUM.java` line 50) in autocommit mode and never calls a PRAGMA, so what is
modelled is the default: a rollback journal that is deleted on commit,
`synchronous` FULL, and sqlite-jdbc's busy timeout of three seconds. The driver
brings its own SQLite, 3.34.0 (`pom.xml` line 64); the code read here is the
repository's 3.35.4. CRUM runs on Windows (`C:/tmp/crum.db`).

Everything in CRUM is called from the main thread. Main passes one `Calendar` to the four
collectors, so that the rows of a round share a time stamp. The window reads
the database back: `refresh` runs a query per panel, sets the panel's labels from
every row in turn, so that the last row stays, and reloads the panel's chart.
The Swing event thread runs beside main; it paints, and it ends the process when
the window is closed (`EXIT_ON_CLOSE`).

What is hard:

* **Failure.** `initDB` and `getDiskData` end the process when a statement fails.
  Every other exception unwinds `main`; before `CrumUI`'s `pack()` that ends the
  process, afterwards the event thread keeps it alive with a window that is never
  refreshed again. The model calls this process a zombie.
* **Atomicity.** A round is NumDisks + 3 autocommitted inserts. Closing the window,
  a kill or an exception may fall between any two.
* **Time.** The time stamp is part of every primary key and comes from the wall
  clock, which can be set back. The order in which SQLite returns a disk's rows
  follows the time stamps; every other panel's follows insertion.
* **Restart.** Each run finds what the run before left.
* **Cached counters.** OSHI's objects answer from their last `updateAttributes()`.
  `Disk` reads before it updates and updates twice; `Network` updates first.
* **Carried state.** `Network` does not clear `currentIn` between interfaces;
  `Disk` fills `prev` by disk and reads it by store.

* **Several processes.** Nothing keeps a second CRUM from being started on the same
  file. Its `initDB` drops the tables the first is writing to. Below the SQL, the
  processes meet in byte-range locks, in a journal either may have to play back,
  and in caches that must notice what the other did.
* **Crashes below the SQL.** A process is killed, or the power fails, between any
  two system calls of a commit, or of a rollback after such an end.

Correctness, per part: the tables agree on the rounds they hold and hold nothing
else (database); a rejected insert neither leaves half a round nor a frozen window
(main); the cull removes what is old and orphans nothing (cull); labels and
charts show the round just measured (window); reported bytes add up (disk,
network); processes do not mix their rows (instances); a statement happens as a
whole or not at all, and ends (pager); levels of lock exclude what they should
(locks); a date is the day it is (dates). `PROJECT.json` lists the hazards behind each with the line.

## Modules

### Crum

The process, its database and its window. The main thread's `pc` names the
statement it executes next and `idx` the index of the loop around it, so an
action is one SQL statement, one row of a ResultSet or one dataset query: between
any two of them another actor may act.

A row is abstracted to `[round, ts]`: the round of the main loop that measured it
and the time stamp it was given. That is what the properties tell apart; column
values are the business of `Disk` and `Network`. The `DISC` table is one series of
rows per file store, each other table one series. SQLite hands out increasing
rowids within a run, so insertion order is the order of `round`.

| Action | Code |
|---|---|
| `InitOSHI`, `DropTable`, `CreateTable`, `InitMachine`, `NewUI`, `CreateUI` | the calls of `main` before its loop, one step per statement of `initDB` |
| `BeginRound` | the new `Calendar`; its time stamp is appended to `stamps` |
| `GetDiskData`, `GetCPUData`, `GetMemoryData`, `GetNetworkData` | the insert of each collector, per file store for `Disk` |
| `InsertRejected` | the same insert when the primary key (or the table) is in the way |
| `ComputeCutoff`, `CullTable` | `cullDatabase`: the cutoff, then each DELETE |
| `QueryPanel`, `SetLabels`, `LabelsDone`, `RedrawChart` | one panel of `refresh`: the query, `while (rs.next())`, its end, `dataset.executeQuery` |
| `Sleep` | `TimeUnit.SECONDS.sleep(1)` |
| `CloseWindow`, `Crash`, `StatementFails`, `Restart`, `Tick`, `StepBack` | the event thread, the operating system, the user, the clock |

`Expired` is what `DATETIME(TIMESTAMP) <= '...'` computes. sqlite-jdbc stores a
`java.sql.Timestamp` as an integer of milliseconds since 1970. SQLite's `datetime`
takes a bare number for a Julian day, and gives NULL for one of 5373484.5 or more;
a NULL comparison selects no row. Milliseconds pass that limit an hour and a half
into 1970. `ClockAssumption` says that no clock running CRUM shows an earlier time.

### Network, Disk

The arithmetic of the two stateful collectors, interface by interface and store
by store, with traffic at any time. Each keeps history variables that the code
does not have (named so where they are declared): what an interface really moved,
what a store has reported so far. Inbound and outbound traffic, and reads and
writes, go through the same statements, so one of each pair is modelled. An
`updateAttributes()` that fails leaves the counter as it was, as OSHI's do.
`Disk` assumes counters that never run backwards; `Network` lets them start over.

### Instances

Any number of CRUM processes on one database. A process is the list of its SQL
statements, `Program`: `initDB`, what is between it and the loop, and the body of the
loop. Each statement is atomic and may fail, by a lock (three seconds are over) or
an error. The rows of a table carry the run and the round they are from. What one
process does is `Crum`'s business; here the window is one bit, "zombie".
`clean` and `cut` are history: rounds begun outside of any `initDB`, and whether an `initDB`
was cut short. The clock does not go back, and every process has one file store.

### DbLock, WinLock

`DbLock` is the contract on `sqlite3OsLock`: who may hold which level beside whom, and
that the test for RESERVED is exact. `WinLock` is what `os_win.c` does about it, one
action per `LockFileEx` or `UnlockFile`: PENDING, RESERVED and SHARED byte ranges,
Windows' rule that a write lock tolerates no read lock of its own process, and so
the read lock that is dropped and taken again on the way to EXCLUSIVE and back.
`eLock` is the pager's idea of its lock, from which its next call follows; a process
may be killed between two calls. `WinLock` implements `DbLock` (`Contract`) with

    lock <- the level a process has, EXCLUSIVE only once the write lock is granted

and PENDING hidden. Locking errors other than a taken range, Windows 9x and CE
are left out.

### AtomicDb, Pager

`AtomicDb` is what CRUM relies on: a statement reads one committed state or replaces
it by the next; a power failure may cost the last commit and no more. (`winDelete`
does not sync the directory, so a journal may come back.)

`Pager` is a statement from `sqlite3PagerSharedLock` to its end, one action per look
at, or change of, a file:

| Actions | Code |
|---|---|
| `Shared`, `Access`, `Check`, `NPage`, `Stale`, `DeleteStale`, `FirstByte` | the lock, and `hasHotJournal`, which asks its questions one after another |
| `HotLock`, `HotOpen`, `HotSync`, `Truncate`, `PlayPage`, `EndPlay`, `Unreserve` | playing back a hot journal, or finding that it is gone |
| `Version`, `Page1`, `Read`, `EndRead`, `End` | validating the cache, reading, `pager_unlock` |
| `Reserve`, `PagerWrite`, `Finish`, `Exclusive`, `Counter`, `JournalSync`, `Header`, `WritePage`, `DbSync`, `Delete`, `Unlock` | a write transaction |
| `FailRead`, `Fail`, `FailWrite`, `Abandon` | I/O errors, and rollback in the cache or from the journal |
| `BusyWait`, `BusyGiveUp` | the busy handler, where it waits with its lock and where it gives it up first |
| `Kill`, `PowerLoss` | faults |

A page is the set of transactions that wrote it, and page 1 has the change
counter and the size besides: what the cache is validated by. The journal has a
header, which is zero until its records are synced, and records of what pages were.
After a power failure any page, and any journal record, that was not synced may be
torn; torn is worse than old or new, as its checksum, or a set that no transaction
wrote, gives it away. The locks are `DbLock`'s. `Pager` implements `AtomicDb`
(`Atomic`) with

    db   <- the file with a hot journal played back      prev <- the same, with the journal as last synced
    seen <- what a reading statement has read, when it is through

So the levels fit together: `WinLock` implements the locks `Pager` uses, `Pager`
implements the atomic statements that `Crum` and `Instances` consist of. `Crum` is not
composed with `Disk` or `Network`: a failed insert ends the process or main, so a
counter that moved on before it is never used again.

Left out of `Pager`, as CRUM does not come there: savepoints, statement and
super-journals, WAL, other journal modes, memory mapping, ATTACH. Left out as a
simplification: a cache that spills or evicts clean pages (CRUM's database has few),
and two flags that only save a read, or a write, of the file (`hasHeldSharedLock`,
`changeCountDone`). The sector of a journal header is written at once.

### DateTime

The dates that the cull compares, by the arithmetic of the code: `computeJD`,
`computeYMD`, `computeHMS`, `DATETIME` of a number and of a text with or without a time
zone, and `cullDatabase`'s way from today to yesterday over `DAY_OF_YEAR`. The reference
is a calendar that turns one day at a time and counts days. A text is the tuple of
its numbers. The quotients of doubles are written with operands multiplied up.
`java.util.Calendar` is external and lenient: day 0 of a year is the last of the year
before. That the driver stores no texts at all is `Crum`'s `Expired`.
`Calendars` says for which days the module speaks: the years 1970 to 9999, which a clock
shows and which SQLite has dates for, beginning at the first day of any of them with its
number, at any millisecond, in any zone of less than fifteen hours, as `parseTimezone` has it.

### MC modules and proof modules

`MCCrum`, `MCNetwork`, `MCDisk`, `MCInstances`, `MCWinLock`, `MCPager` and `MCDateTime` give the
constants values; `CrumProofs`, `NetworkProofs`, `DiskProofs`, `InstancesProofs`,
`WinLockProofs`, `PagerProofs`, `PagerDataProofs` and `DateTimeProofs` hold the theorems.
`PagerInv` is the invariant of the pager's data, in a module of its own so that a run and the
proofs share it. The definitions commented as a
faulty variant (`SetLabelsOnce`, `ExpiredByDate`, ...) stand beside the definition
they get wrong. Nothing uses them: put in its place, each makes TLC report the
property that `PROJECT.json` pairs it with, which shows that the property
depends on the code.

## Runs

| Run | Instance | Result |
|---|---|---|
| crum | 2 disks, 3 rounds, 1 tick, 2 steps back, 1 fault, 1 restart, fair main thread | 0.4 million states, all invariants, `SampleShown` and `WindowOpens` hold |
| crum_frozen | 1 disk, 2 rounds, 1 fault | `KeepsGathering` is violated |
| crum_cull | 1 disk, 2 rounds, nothing goes wrong | `CullRemovesOld` is violated |
| network | 3 interfaces, counters to 3, 3 rounds, 1 reset | 3.0 million states, all invariants hold |
| network_total | 2 interfaces, 2 rounds | `TotalIsSum` is violated |
| disk | 2 stores, up to 3 disks, counters to 3, 3 rounds, 1 failed update | 1.7 million states, all invariants hold |
| disk_speed | 2 stores, 1 disk, 1 round | `SpeedIsOfDisk` is violated |
| instances | 2 processes, 3 starts, 2 rounds each, 1 tick | 1.9 million states, all invariants hold |
| winlock | 3 processes, fair | 0.3 million states, all invariants, `Contract`, `NoNewReaders` and `PendingWins` hold |
| pager | 2 processes, an existing database, 2 pages, 2 transactions, errors and power failures | 0.7 million states, all invariants, the inductive one among them, `Atomic` and `Undisturbed` hold |
| pager_new | 2 processes, a new file, 1 page, 2 transactions, 1 wait per statement, fair | 0.3 million states, `Atomic` and `StatementEnds` hold |
| datetime | every day of 1970 to 2101 and 9870 to 9999, 4 times of the day, 4 time zones | 95693 states, all invariants hold |

Why the bounds are enough. Two disks make a loop over stores that can be cut in the
middle. Three rounds let a step back land on a round before the last and be
followed by a round of its own. The sleep moves the clock on in every round; a
tick and two steps back besides let it repeat, overtake and undercut time stamps. One fault and one restart reach every
statement a run can die at, with every leftover. The initial database is empty, or
has all tables with or without rows of which some collide with this run's keys.
Three interfaces are the fewest among which a carried error takes two rounds to die
out. With two stores and up to three disks each array is both too short and too
long. Two processes and a third start let an `initDB` fall into every place of a
round, and of another `initDB`, twice. Three lockers are one at each of SHARED, RESERVED
and asking; the pager needs the third no more, as `DbLock` stands for the calls. Two
pages are the fewest of which one can be written and the other not, and two
transactions the fewest of which the second can meet what the first left; the pager
may then be killed, or lose power, any number of times. A new file is checked without
errors and power failures, see below. The years of run datetime contain a leap
century, two that are none, and the last day SQLite has a date for.
`CHECK_DEADLOCK FALSE` everywhere: a process that was closed has stopped, and the
bounds stop the others.

What the properties say:

* `RoundsAligned`: every series holds all complete rounds of the run, at most the
  one under way besides, and no other row, each under the stamp of its round.
* `StartsEmpty`: after the drops nothing of an earlier run is left.
* `NoOrphans`: samples never outlive the machine's row. This holds because the cull
  removes nothing. With the comparison the statement seems to make
  (`ExpiredByDate`) it fails after a day: MACHINE gets its one row at start-up.
  Whoever repairs the cull has to exempt that table.
* `NoHalfRound`, `ZombieOnlyByFault`: a clock set back onto an old time stamp is
  met by the first insert of a round or by none; with at least one disk that insert
  is `getDiskData`'s, which ends the process. Without disks it is the CPU's, and the
  window freezes.
* `PanelsCurrent`, `DiskPanelsCurrent`, `ChartsWhole`: what the window shows when main
  goes to sleep. Only the disk tabs need a clock that was never set back.
* `SampleShown`, `WindowOpens`: rounds reach the window; the window opens.
* `SteadyExact`: the error of the carried `currentIn` is a difference of traffic
  between rounds, and is gone once traffic was the same for as many further rounds
  as there are further interfaces. An idle machine does come to read zero.
* `RowsAddUp`, `LagBounded`, `NeverRunsBackwards`, `MapFindsDisk`: no byte is reported
  twice to a store or lost; a row lags by less than two rounds; a speed is negative
  at most in a store's first row; stores are matched with the right disks.

* `MissingIsComing`: however several `initDB`s mix, a missing table is about to be
  created, unless an `initDB` was cut short: all six drops come before the first create.
* `OneProcessPerStamp`: processes that sample at the same instant do not mix their rows
  under one time stamp: the loser is rejected at `DISC`, its first insert, and ends.
* `CleanRoundsWhole`: a round that no `initDB` came upon is in every table.
* `LevelsExclude`, `ReadersKeepLock`: the levels mean what they should at every point of a
  call, and the read lock that was given up for a write lock is always to be had again.
* `NoNewReaders`, `PendingWins`: nobody gets SHARED beside PENDING, and so a writer is not
  starved by readers that come and go. The processes are alike, so the liveness
  property is checked of one of them.
* `Atomic`, `NoneHot`, `Undisturbed`, `CacheCurrent`: statements are atomic and isolated; no
  process works beside a hot journal; no file changes under a reader; a cache that
  passed the version check is the database. With `Atomic` stand the order of the
  journal's two syncs and the test for RESERVED before a journal is played back.
* `StatementEnds`: every statement ends, with its rows, a commit or `SQLITE_BUSY`.
* `ZonesCancel`, `NumbersAreNoons`, `DayOldAreSelected`: SQLite's dates are the calendar's,
  and the cutoff is a day earlier on every day, the first of January included, where
  the branch written for it (`CRUM/CRUM.java` line 186) is not the one that is taken.

Four statements of the documentation do not hold; the findings in
`PROJECT.json` quote them:

* `KeepsGathering` (README.md line 11): an exception in a collector other than `Disk`, in
  the cull or in a refresh leaves the window open over a main thread that is gone.
* `CullRemovesOld` (`CRUM/CRUM.java` line 201): the cull never removes a row.
* `TotalIsSum` (README.md line 34): the network total is not the sum over interfaces.
* `SpeedIsOfDisk` (README.md line 38): a store's first row is computed from the counter of
  the disk that happens to have the store's index.

Three more came up while modelling and have no run of their own:

* `CRUM/DiskPanel.java` line 89 says that the labels change to "the correct/updated
  database value". The query has no ORDER BY and is answered from the primary key's
  index; after the clock was set back a disk tab shows the row with the largest time
  stamp, not the latest. `DiskPanelsCurrent` is stated accordingly.
* `CRUM/CRUM.java` line 163 says that the values of MACHINE need to be passed once. A
  second CRUM drops the table with the first one's row; if it stops before it has
  inserted its own, the first one's main tab stays empty.
* When the first transaction of a new file fails after page 1 was written,
  `dbFileVers` keeps the version that was rolled back, and page 1 stays in the cache,
  zeroed. If another process then creates the database with the same counter and
  size, the comparison at `sqlite3.c` line 57496 finds no change.
  `MCPager.cfg` with `OldPages = 0` and `PowerFails = FALSE` shows it, as a violation of
  `CacheCurrent`.
  CRUM itself ends when a statement of `initDB` fails.

A new file and a power failure are not claimed to go together either: whether the
file and its journal are in the directory afterwards depends on the order in which
the file system writes its metadata (the comment at `sqlite3.c` line 57248).

**Fairness.** `Crum`: weak fairness of the main thread's steps, and of nothing else. The
JVM schedules a runnable thread, no lock is shared with the event thread, and a
database that another process locks makes the driver give up after three seconds
with an exception, which is `StatementFails`. Nothing requires a tick, a fault, a closed
window or a restart to happen. `WinLock`: a call under way is finished; the holder of
PENDING repeats its request, as `pager_wait_on_lock` does; and a reader ends its
statement, which takes strong fairness, as it may ask for another level in
between and fail. `Pager`: weak fairness of each process's steps for its statement.
Here errors and kills may happen but need not, and nobody has to begin a statement.

## Proofs

TLAPS checks the theorems below for all values of the constants, from the named
assumptions only: numbers are naturals, `LeftoversAssumption` (leftovers are rows),
`ClockAssumption` (see `Expired`), `PagerBounds` (the bounds are naturals, and the file is not
larger than the largest) and `Calendars` (see `DateTime`). `Procs` and `Instances` may be
any sets.

`CrumProofs`: `CrumTypes`, `CrumRoundsAligned`, `CrumStartsEmpty`, `CrumNoOrphans`,
`CrumNoHalfRound`, `CrumZombieOnlyByFault`, `CrumPanelsCurrent`,
`CrumDiskPanelsCurrent`, `CrumChartsWhole`. None of these properties is inductive.
Their strengthening `IInv` (checked by run crum as well) has three parts:

1. `DBInv` describes the database at each `pc`. `RowsInv` says exactly which series
   hold the round under way (`Written`), `EmptyInv` which are empty already while
   the tables are dropped, `SchemaInv` which tables exist. The heart is `FreshInv`:
   once one insert of a round was accepted, the time stamp of the round is new.
   As every series holds the same earlier rounds, the other inserts cannot be
   rejected: that is `NoHalfRound`, and as the first insert is a disk's,
   `ZombieOnlyByFault`. `StampsInv` with `ClockAssumption` shows that no row is
   `Expired`, so `RowsInv` survives the cull.
2. `ClockInv`: while the clock was never set back the latest stamp is the largest.
3. `PanelInv` follows a panel through its query. The row to be shown is in the
   ResultSet until it is read, and it is read last: in rowid order because it was
   inserted last, in index order because of `ClockInv` and `FreshInv`.

`NetworkProofs`: `NetworkTypes` and `NetworkSettles`. The invariant says by what each
baseline is off: interface `n`'s by what interface `n - 1` contributed at its turn.
Among the first `steady + 1` interfaces that was the traffic itself.

`DiskProofs`: `DiskTypes`, `DiskRowsAddUp`, `DiskMapFindsDisk`, `DiskLagBounded`,
`DiskNeverRunsBackwards`. What a store has reported is what its `prev` has gained on its
first baseline, and no call of `getDiskData` begins before `initDisk` is through. Between the
counter itself, OSHI's copy of it and `prev` the invariant keeps the order: `prev` is never
ahead of the copy once a store has had a row; and it says how old copy and `prev` may be
at each point of a call.

`InstancesProofs`: `MissingTablesAreComing`, and `InstancesTypes`, by which no process leaves its
program. The invariant: a table that is missing was dropped by a process that is
still in `initDB` before the table's create, as every drop comes before every create.
`StampsAreOfOneProcess` and `CleanRoundsAreWhole` rest on `InstancesInductive`, which says whose
rows a table holds: they are of runs and rounds that have begun, and no two of a table have
one time stamp, by the primary key; whoever has a row of a clean round (one begun outside of
any `initDB`, with none since) in some table has one under the same stamp in `DISC`, the first
insert; and a clean round has the rows of all the inserts its process has passed.

`WinLockProofs`: `RangesMatchLevels` is the inductive invariant: which byte ranges stand
behind each level at each point of each call. `LevelsExcludeEachOther`,
`ReadersKeepTheirLock` and `NoNewReadersBesidePending` follow from what Windows lets
two processes hold of a range. `CallsImplementContract` is the refinement: each step is
a step of `DbLock` or leaves its state alone; the mapping needs the invariant where the
write lock is granted and where RESERVED is tested.

`PagerProofs`: `LocksAndJournalsMatch`, `NoneWorksBesideHotJournal`, `ReadersAreUndisturbed`.
The invariant says which lock goes with each step, and what each step knows: a
process that went on past `hasHotJournal` may rely on there being no hot journal, because
a valid header is only ever written under EXCLUSIVE, which its SHARED excludes, and a
journal it left behind is found by the next.

`PagerDataProofs`: `DataIsSafe`, `CachesAreCurrent`, `StatementsAreAtomic`. The invariant,
`Inductive`, adds to the locks what is in the files and the caches. It has three arguments:

1. *The journal comes first.* `FilesInv`: while the journal is hot, each page of the old
   database has a record in it, or is untouched and on the disk; and what was last synced of
   the journal has the same records. So whatever a power failure keeps of the pages
   and of the journal, playing it back gives a committed state: the last one, or, if the
   journal's deletion is lost, the one before. Unless the journal is hot
   as it stands and as it was last synced, the file is the database, and synced.
2. *The counter tells.* `Keeps`: a process without a lock has in its cache the
   pages of the database, or a version that is not the file's. It holds because
   every commit writes a counter larger than any cache has seen, and a rollback of a counter
   takes the version in the cache back with it.
3. *Each step of a writer.* `PreparingInv`, `WritingInv`, `UndoingInv` and `DoneInv` say what a
   writer has reached: the journal has what its changed pages were; the cache is
   what the file is to be; each page that was played back is the old one; the file is
   all new or all old.

With them every step of `Pager` is a step of `AtomicDb` or leaves its state alone: `EndRead`
reads the committed state, `Close` or an end forgets what was read, the deletion
of the journal commits, the next sync of a journal settles it, and a power failure keeps the last commit or takes it back.
All of this is about an existing database: the last two theorems assume `OldPages > 0`, and so
does the part of `Inductive` that is about data. For a new file
`CacheCurrent` does not hold after every error (see the third of the points above), as page 1,
which carries the counter, is itself new.

`DateTimeProofs`: `CalendarTurns`, and from it `ZonesDoCancel`, `NumbersAreDays` and
`CullSelectsDayOld`, for every day of the years 1970 to 9999, every time and every zone.
The invariant `Turned` says that today is the day after yesterday, and gives today's
number in closed form: the days of the years before, counted from the first of March, and
of the months since. `computeJD` computes this form;
`computeYMD` inverts it, as in each of its steps the remainder stays below one
year or one month; a zone of less than a day leads to yesterday, today or tomorrow; and a day
of the year has one month and one day. The products in these steps are with constants, or
with a year that is split into centuries and years of a century, so that what is left is
linear and within the solver's reach.

Only model-checked:

* the liveness properties (`SampleShown`, `WindowOpens`, `PendingWins`, `StatementEnds`), which are
  beyond this prover;
* `Atomic` for a new file, by run pager_new, without errors and power failures.

## Not modelled

* CPU load and memory figures: values of a row, abstracted away in `Crum`. `CPU` keeps one
  vector of ticks between rounds, which it hands to OSHI; the arithmetic is in there.
* Painting and the tab buttons: Swing defines no state for a half-painted label
  (`CRUM/CrumUI.java` line 255), and a click on the disk button without file stores
  (line 177) throws in the event thread and changes nothing.
* The time a refresh takes on a growing table.
* `prevFreeSpace`, `prevTransferTime`, `IPs` and `Macs`: never read again or constant.
* Time zones between Java's local calendar and the texts of the cull: `DateTime` compares
  both in one zone.
* SQLite above the pager (parser, code generator, virtual machine, b-tree, full text
  search, JSON), its shell, and everything CRUM's connection does not switch on. The
  amalgamation is vendored third-party code and 99% of the repository's lines;
  what CRUM relies on is that a statement is atomic, isolated, ends, and compares dates
  as it does, and the code behind that is what `WinLock`, `Pager` and `DateTime` model. A
  model of the rest at a useful level of detail would say nothing about CRUM. For
  the same reason the share of all lines that the models translate stays small.
* The tests: they exercise the same statements as the code.
