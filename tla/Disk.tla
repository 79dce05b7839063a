-------------------------------- MODULE Disk --------------------------------
(***************************************************************************)
(* Disk.initDisk and Disk.getDiskData: file stores are matched with the    *)
(* physical disks by the identifiers of their partitions, and the transfer *)
(* counters of a store's disk become the DISC_SPEED of the store's row.    *)
(*                                                                         *)
(* Reads and writes go through the same statements and are added up, so    *)
(* one counter stands for both.  OSHI is external: a disk answers from the *)
(* counter its last updateAttributes() read, and an update that fails      *)
(* leaves it as it was.  Stores and disks are numbered from 0, as in the   *)
(* code's arrays and lists.                                                *)
(***************************************************************************)
EXTENDS Integers

CONSTANTS
    NumStores,   \* fileStores.size(), also the length of the prev arrays
    MaxDrives,   \* bound: disks.size()
    MaxStart,    \* bound: the counter of a disk when CRUM starts
    MaxBytes,    \* bound: the counter of a disk
    MaxRounds,   \* bound: calls of getDiskData
    MaxMisses    \* bound: updates that fail

ASSUME NumStoresAssumption == NumStores \in Nat
ASSUME DiskBoundsAssumption ==
    /\ MaxDrives \in Nat /\ MaxStart \in Nat /\ MaxBytes \in Nat
    /\ MaxRounds \in Nat /\ MaxMisses \in Nat

Stores == 0 .. NumStores - 1
Drives == 0 .. MaxDrives - 1
Unmapped == -1

VARIABLES
    drives,    \* disks.size()
    holds,     \* <<d, s>>: a partition of disk d carries the UUID of store s
    proc,      \* "running"; "exited": an exception ended the JVM
    os,        \* the operating system's transfer counter of each disk
    counter,   \* the counter as getReadBytes() and getWriteBytes() return it
    j,         \* initDisk: the disk examined next
    storeDisk, \* FileStoresToDisks
    prev,      \* prevBytesRead and prevBytesWritten, by array index
    i,         \* getDiskData: the store sampled next; NumStores: between calls
    speed,     \* DISC_SPEED of each store's last row, not yet divided into KB
    rounds,    \* calls of getDiskData completed
    misses,    \* updates that failed
    start,     \* history: the counter initDisk read of each disk
    reported,  \* history: the sum of a store's speeds
    begun,     \* history: os when the latest call of getDiskData began
    before     \* history: os when the call before it began

arrays == <<counter, storeDisk, prev>>
history == <<start, reported, begun, before>>
vars == <<drives, holds, proc, os, arrays, j, i, speed, rounds, misses, history>>

TypeOK ==
    /\ drives \in 0 .. MaxDrives
    /\ holds \in SUBSET (Drives \X Stores)
    /\ proc \in {"running", "exited"}
    /\ os \in [Drives -> Nat]
    /\ counter \in [Drives -> Nat]
    /\ j \in 0 .. drives
    /\ storeDisk \in [Stores -> Drives \union {Unmapped}]
    /\ prev \in [Stores -> Nat]
    /\ i \in 0 .. NumStores
    /\ speed \in [Stores -> Int]
    /\ rounds \in Nat /\ misses \in Nat
    /\ start \in [Drives -> Nat]
    /\ reported \in [Stores -> Int]
    /\ begun \in [Drives -> Nat] /\ before \in [Drives -> Nat]

Init ==
    /\ drives \in 0 .. MaxDrives
    /\ holds \in SUBSET ((0 .. drives - 1) \X Stores)
    /\ proc = "running"
    /\ os \in [Drives -> 0 .. MaxStart]
    /\ counter = os
    /\ j = 0
    /\ storeDisk = [s \in Stores |-> Unmapped]
    /\ prev = [s \in Stores |-> 0]
    /\ i = NumStores
    /\ speed = [s \in Stores |-> 0]
    /\ rounds = 0 /\ misses = 0
    /\ start = [d \in Drives |-> 0]
    /\ reported = [s \in Stores |-> 0]
    /\ begun = [d \in Drives |-> 0] /\ before = begun

-----------------------------------------------------------------------------
\* initDisk

\* A faulty variant: put(j, l) for put(l, j).
WithDiskSwapped(d) ==
    [s \in Stores |-> IF s = d /\ \E l \in Stores : <<d, l>> \in holds
                      THEN CHOOSE l \in Stores : <<d, l>> \in holds
                      ELSE storeDisk[s]]

\* FileStoresToDisks.put(l, j) for the stores whose UUID a partition of j has.
WithDisk(d) == [s \in Stores |-> IF <<d, s>> \in holds THEN d ELSE storeDisk[s]]

\* A faulty variant: the inner loop advances the outer one's variable.
InitDiskSkips ==
    /\ proc = "running" /\ j < drives /\ j < NumStores
    /\ prev' = [prev EXCEPT ![j] = counter[j]]
    /\ storeDisk' = WithDisk(j)
    /\ start' = [start EXCEPT ![j] = counter[j]]
    /\ j' = j + 2
    /\ UNCHANGED <<drives, holds, proc, os, counter, i, speed, rounds, misses,
                   reported, begun, before>>

\* One turn of the loop over disks: the baselines, indexed by disk, go into
\* arrays that are as long as the list of stores.
InitDisk ==
    /\ proc = "running" /\ j < drives /\ j < NumStores
    /\ prev' = [prev EXCEPT ![j] = counter[j]]
    /\ storeDisk' = WithDisk(j)
    /\ start' = [start EXCEPT ![j] = counter[j]]
    /\ j' = j + 1
    /\ UNCHANGED <<drives, holds, proc, os, counter, i, speed, rounds, misses,
                   reported, begun, before>>

\* More disks than stores: the index leaves the array and main unwinds.
InitDiskFails ==
    /\ proc = "running" /\ j < drives /\ j >= NumStores
    /\ proc' = "exited"
    /\ UNCHANGED <<drives, holds, os, arrays, j, i, speed, rounds, misses, history>>

-----------------------------------------------------------------------------
\* getDiskData

BeginCall ==
    /\ proc = "running" /\ j = drives /\ i = NumStores
    /\ rounds < MaxRounds
    /\ i' = 0
    /\ begun' = os /\ before' = begun
    /\ UNCHANGED <<drives, holds, proc, os, arrays, j, speed, rounds, misses,
                   start, reported>>

\* A faulty variant: the counters are never updated.
UpdateAttributesNever(d) == UNCHANGED <<counter, misses>>

\* Both updateAttributes() calls of one turn, the second after the insert: what
\* they read is seen by the next store of that disk, or in the next round.
UpdateAttributes(d) ==
    \/ /\ counter' = [counter EXCEPT ![d] = os[d]]
       /\ UNCHANGED misses
    \/ /\ misses < MaxMisses
       /\ misses' = misses + 1
       /\ UNCHANGED counter

\* The bytes since this store was last sampled; from the disk's old counter.
Moved(s) == counter[storeDisk[s]] - prev[s]

\* A faulty variant: what was transferred since the reading is skipped.
NewPrevLate(s) == os[storeDisk[s]]

NewPrev(s) == counter[storeDisk[s]]

\* A faulty variant: prev is indexed by disk, as initDisk fills it.
GetDiskDataByDisk ==
    /\ proc = "running" /\ i < NumStores
    /\ storeDisk[i] # Unmapped
    /\ speed' = [speed EXCEPT ![i] = Moved(i)]
    /\ reported' = [reported EXCEPT ![i] = @ + Moved(i)]
    /\ prev' = [prev EXCEPT ![storeDisk[i]] = NewPrev(i)]
    /\ UpdateAttributes(storeDisk[i])
    /\ i' = i + 1
    /\ rounds' = IF i + 1 = NumStores THEN rounds + 1 ELSE rounds
    /\ UNCHANGED <<drives, holds, proc, os, j, storeDisk, start, begun, before>>

GetDiskData ==
    /\ proc = "running" /\ i < NumStores
    /\ storeDisk[i] # Unmapped
    /\ speed' = [speed EXCEPT ![i] = Moved(i)]
    /\ reported' = [reported EXCEPT ![i] = @ + Moved(i)]
    /\ prev' = [prev EXCEPT ![i] = NewPrev(i)]
    /\ UpdateAttributes(storeDisk[i])
    /\ i' = i + 1
    /\ rounds' = IF i + 1 = NumStores THEN rounds + 1 ELSE rounds
    /\ UNCHANGED <<drives, holds, proc, os, j, storeDisk, start, begun, before>>

\* disks.get(null) throws, and getDiskData's handler ends the JVM.
GetDiskDataFails ==
    /\ proc = "running" /\ i < NumStores
    /\ storeDisk[i] = Unmapped
    /\ proc' = "exited"
    /\ UNCHANGED <<drives, holds, os, arrays, j, i, speed, rounds, misses, history>>

Traffic ==
    \E d \in Drives :
        /\ d < drives /\ os[d] < MaxBytes
        /\ os' = [os EXCEPT ![d] = @ + 1]
        /\ UNCHANGED <<drives, holds, proc, arrays, j, i, speed, rounds, misses, history>>

Next == InitDisk \/ InitDiskFails \/ BeginCall \/ GetDiskData \/ GetDiskDataFails \/ Traffic

Spec == Init /\ [][Next]_vars

-----------------------------------------------------------------------------
\* Properties

Sampled(s) == storeDisk[s] # Unmapped /\ (rounds > 0 \/ (s < i /\ i < NumStores))

\* Each store's rows add up: no byte of its disk is reported twice or skipped
\* by the two updates between the reads, however many stores share the disk and
\* whatever update fails, once the store has the baseline initDisk gave it.
RowsAddUp ==
    \A s \in Stores :
        Sampled(s) => reported[s] = prev[s] - (IF s < drives THEN start[s] ELSE 0)

\* README.md: the speed of a disk tab is the speed of the physical disk, so the
\* rows of a store report the bytes its disk has moved since CRUM looked first.
SpeedIsOfDisk ==
    \A s \in Stores : Sampled(s) => reported[s] = prev[s] - start[storeDisk[s]]

\* A row lags behind by less than two rounds: when a call ends, every byte a
\* disk had moved when the call before began is in some row of each of its
\* stores, unless an update has failed.
LagBounded ==
    (i = NumStores /\ rounds >= 2 /\ misses = 0) =>
        \A s \in Stores : storeDisk[s] # Unmapped => prev[s] >= before[storeDisk[s]]

\* A row never shows a negative speed after the store's first one, although
\* stores of one disk read and refresh the same counter in turn.
NeverRunsBackwards ==
    \A s \in Stores :
        Sampled(s) => prev[s] =< counter[storeDisk[s]] /\ (rounds > 1 => speed[s] >= 0)

\* initDisk finds a disk for a store if and only if a partition of some disk
\* carries the store's UUID, and the disk it keeps is one of those.
MapFindsDisk ==
    (j = drives) =>
        \A s \in Stores :
            IF \E d \in Drives : <<d, s>> \in holds
            THEN <<storeDisk[s], s>> \in holds
            ELSE storeDisk[s] = Unmapped

-----------------------------------------------------------------------------
\* The inductive invariant behind these properties, all but SpeedIsOfDisk.

\* No call begins before initDisk is through.
CallInv ==
    j < drives => i = NumStores /\ rounds = 0 /\ \A s \in Stores : reported[s] = 0

\* What a store has reported is what prev has gained on its first baseline.
BaselineInv ==
    \A s \in Stores : reported[s] = prev[s] - (IF s < j THEN start[s] ELSE 0)

\* The map is right about the disks examined so far.
MapInv ==
    /\ \A h \in holds : h[1] \in 0 .. drives - 1
    /\ \A s \in Stores :
           IF \E d \in 0 .. j - 1 : <<d, s>> \in holds
           THEN <<storeDisk[s], s>> \in holds
           ELSE storeDisk[s] = Unmapped

\* Counters only grow, and OSHI's never get ahead of the system's.
CountersInv == \A d \in Drives : counter[d] =< os[d] /\ begun[d] =< os[d]

SampledTwice(s) == rounds > 1 \/ (rounds = 1 /\ s < i /\ i < NumStores)

\* What a store has seen of its disk, it has from the disk's counter.
SampledInv ==
    \A s \in Stores :
        Sampled(s) => prev[s] =< counter[storeDisk[s]] /\ (SampledTwice(s) => speed[s] >= 0)

\* How old counter and prev may be in a call and between calls: the update at a
\* store's turn reads what was moved before the call, and the store's next turn
\* takes it over.
LagInv ==
    misses = 0 =>
        \A s \in Stores : storeDisk[s] # Unmapped =>
            LET c == counter[storeDisk[s]]
                new == begun[storeDisk[s]]
                old == before[storeDisk[s]]
            IN  /\ i < NumStores /\ s < i => c >= new
                /\ i < NumStores /\ rounds > 0 => c >= old /\ (s < i => prev[s] >= old)
                /\ i = NumStores /\ rounds > 0 => c >= new
                /\ i = NumStores /\ rounds > 1 => prev[s] >= old

IInv ==
    /\ TypeOK /\ CallInv /\ BaselineInv /\ MapInv
    /\ CountersInv /\ SampledInv /\ LagInv
=============================================================================
