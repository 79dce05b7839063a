------------------------------- MODULE WinLock -------------------------------
(***************************************************************************)
(* SQLite's file locks on Windows (winLock, winUnlock, winCheckReservedLock *)
(* in os_win.c), one action per LockFileEx or UnlockFile call.  Processes   *)
(* interleave between any two calls, and may be killed.                     *)
(*                                                                          *)
(* A level of lock is made of three byte ranges of the file:  PENDING,      *)
(* RESERVED and the SHARED range.  The calls of winGetReadLock and          *)
(* winCheckReservedLock ask for a read lock, all others for a write lock.   *)
(* The pager's part is the order in which it asks for levels.               *)
(***************************************************************************)
EXTENDS Integers

CONSTANT Procs      \* the processes that have the file open, one handle each

NO_LOCK == 0
SHARED_LOCK == 1
RESERVED_LOCK == 2
PENDING_LOCK == 3
EXCLUSIVE_LOCK == 4
Levels == NO_LOCK .. EXCLUSIVE_LOCK

Ranges == {"PENDING", "RESERVED", "SHARED"}

Steps == {"idle", "pending", "readLock", "dropPending", "reserve", "dropRead",
          "writeLock", "reRead", "test", "dropTest",
          "unlockRange", "unlockReRead", "unlockReserved", "unlockRead",
          "unlockPending"}

VARIABLES
    held,      \* the lock each process has on each byte range
    locktype,  \* winFile.locktype
    eLock,     \* Pager.eLock: the last level that was granted
    at,        \* the system call a process makes next
    want,      \* the level the call under way was asked for
    told       \* what winCheckReservedLock last answered

vars == <<held, locktype, eLock, at, want, told>>

TypeOK ==
    /\ held \in [Ranges -> [Procs -> {"none", "read", "write"}]]
    /\ locktype \in [Procs -> Levels]
    /\ eLock \in [Procs -> Levels]
    /\ at \in [Procs -> Steps]
    /\ want \in [Procs -> Levels]
    /\ told \in [Procs -> {"free", "taken"}]

Init ==
    /\ held = [r \in Ranges |-> [p \in Procs |-> "none"]]
    /\ locktype = [p \in Procs |-> NO_LOCK]
    /\ eLock = [p \in Procs |-> NO_LOCK]
    /\ at = [p \in Procs |-> "idle"]
    /\ want = [p \in Procs |-> NO_LOCK]
    /\ told = [p \in Procs |-> "free"]

-----------------------------------------------------------------------------
\* Windows: a write lock needs the range to be free of locks, the process's
\* own included; a read lock needs it to be free of write locks.

CanTake(r, how) ==
    \A q \in Procs : held[r][q] \in IF how = "read" THEN {"none", "read"} ELSE {"none"}

Hold(r, p, how) == held' = [held EXCEPT ![r][p] = how]
Go(p, step) == at' = [at EXCEPT ![p] = step]

\* winLock returns SQLITE_OK with the level asked for, or SQLITE_BUSY with l.
Grant(p) ==
    /\ locktype' = [locktype EXCEPT ![p] = want[p]]
    /\ eLock' = [eLock EXCEPT ![p] = want[p]]
    /\ Go(p, "idle")

Busy(p, l) ==
    /\ locktype' = [locktype EXCEPT ![p] = l]
    /\ Go(p, "idle")
    /\ UNCHANGED eLock

Files == <<locktype, eLock>>

-----------------------------------------------------------------------------
\* The pager: SHARED first; then RESERVED to write, or EXCLUSIVE at once to
\* roll back a hot journal.  A failed try for EXCLUSIVE is repeated only by the
\* holder of RESERVED, and the process is not asked for less than it has.

\* A faulty variant: a reader does not pass through PENDING.
AskSharedAtOnce(p) ==
    /\ locktype[p] = NO_LOCK
    /\ want' = [want EXCEPT ![p] = SHARED_LOCK]
    /\ Go(p, "readLock")

AskShared(p) ==
    /\ locktype[p] = NO_LOCK
    /\ want' = [want EXCEPT ![p] = SHARED_LOCK]
    /\ Go(p, "pending")

AskReserved(p) ==
    /\ locktype[p] = SHARED_LOCK
    /\ want' = [want EXCEPT ![p] = RESERVED_LOCK]
    /\ Go(p, "reserve")

\* A faulty variant: PENDING is taken again at every try.
AskExclusiveFromStart(p) ==
    /\ \/ locktype[p] \in {SHARED_LOCK, RESERVED_LOCK}
       \/ locktype[p] = PENDING_LOCK /\ eLock[p] = RESERVED_LOCK
    /\ Go(p, "pending")
    /\ want' = [want EXCEPT ![p] = EXCLUSIVE_LOCK]

\* A process left with PENDING by an earlier try does not take it again.
AskExclusive(p) ==
    /\ \/ locktype[p] \in {SHARED_LOCK, RESERVED_LOCK} /\ Go(p, "pending")
       \/ locktype[p] = PENDING_LOCK /\ eLock[p] = RESERVED_LOCK /\ Go(p, "dropRead")
    /\ want' = [want EXCEPT ![p] = EXCLUSIVE_LOCK]

Call(p) ==
    /\ at[p] = "idle"
    /\ AskShared(p) \/ AskReserved(p) \/ AskExclusive(p)
    /\ UNCHANGED <<held, Files, told>>

-----------------------------------------------------------------------------
\* winLock

TakePending(p) ==
    /\ at[p] = "pending"
    /\ CanTake("PENDING", "write")
    /\ Hold("PENDING", p, "write")
    /\ Go(p, IF want[p] = SHARED_LOCK THEN "readLock" ELSE "dropRead")
    /\ UNCHANGED <<Files, want, told>>

\* The third try failed.  The earlier ones change nothing.
PendingTaken(p) ==
    /\ at[p] = "pending"
    /\ ~ CanTake("PENDING", "write")
    /\ Busy(p, locktype[p])
    /\ UNCHANGED <<held, want, told>>

\* The result shows in held; PENDING is given back whatever it is.
ReadLock(p) ==
    /\ at[p] = "readLock"
    /\ IF CanTake("SHARED", "read") THEN Hold("SHARED", p, "read") ELSE UNCHANGED held
    /\ Go(p, "dropPending")
    /\ UNCHANGED <<Files, want, told>>

DropPending(p) ==
    /\ at[p] = "dropPending"
    /\ Hold("PENDING", p, "none")
    /\ IF held["SHARED"][p] = "read" THEN Grant(p) ELSE Busy(p, NO_LOCK)
    /\ UNCHANGED <<want, told>>

Reserve(p) ==
    /\ at[p] = "reserve"
    /\ IF CanTake("RESERVED", "write")
       THEN Hold("RESERVED", p, "write") /\ Grant(p)
       ELSE UNCHANGED held /\ Busy(p, locktype[p])
    /\ UNCHANGED <<want, told>>

DropRead(p) ==
    /\ at[p] = "dropRead"
    /\ Hold("SHARED", p, "none")
    /\ Go(p, "writeLock")
    /\ UNCHANGED <<Files, want, told>>

WriteLock(p) ==
    /\ at[p] = "writeLock"
    /\ CanTake("SHARED", "write")
    /\ Hold("SHARED", p, "write")
    /\ Grant(p)
    /\ UNCHANGED <<want, told>>

\* A faulty variant: the result of the last lock is not looked at.
RangeTakenGranted(p) ==
    /\ at[p] = "writeLock"
    /\ Grant(p)
    /\ UNCHANGED <<held, want, told>>

RangeTaken(p) ==
    /\ at[p] = "writeLock"
    /\ ~ CanTake("SHARED", "write")
    /\ Go(p, "reRead")
    /\ UNCHANGED <<held, Files, want, told>>

\* A faulty variant: the read lock is not taken again.
ReReadForgotten(p) ==
    /\ at[p] = "reRead"
    /\ UNCHANGED held
    /\ Busy(p, PENDING_LOCK)
    /\ UNCHANGED <<want, told>>

\* winLock does not look at the result of this winGetReadLock.
ReRead(p) ==
    /\ at[p] = "reRead"
    /\ IF CanTake("SHARED", "read") THEN Hold("SHARED", p, "read") ELSE UNCHANGED held
    /\ Busy(p, PENDING_LOCK)
    /\ UNCHANGED <<want, told>>

-----------------------------------------------------------------------------
\* winCheckReservedLock, which the pager calls while it holds SHARED

CallTest(p) ==
    /\ at[p] = "idle"
    /\ locktype[p] = SHARED_LOCK
    /\ Go(p, "test")
    /\ UNCHANGED <<held, Files, want, told>>

\* A faulty variant: the test asks for a write lock.
TestModeWrite == "write"

\* SQLITE_LOCKFILEEX_FLAGS, without LOCKFILE_EXCLUSIVE_LOCK.
TestMode == "read"

Test(p) ==
    /\ at[p] = "test"
    /\ IF CanTake("RESERVED", TestMode)
       THEN /\ Hold("RESERVED", p, TestMode)
            /\ told' = [told EXCEPT ![p] = "free"]
            /\ Go(p, "dropTest")
       ELSE /\ UNCHANGED held
            /\ told' = [told EXCEPT ![p] = "taken"]
            /\ Go(p, "idle")
    /\ UNCHANGED <<Files, want>>

DropTest(p) ==
    /\ at[p] = "dropTest"
    /\ Hold("RESERVED", p, "none")
    /\ Go(p, "idle")
    /\ UNCHANGED <<Files, want, told>>

-----------------------------------------------------------------------------
\* winUnlock: down to SHARED or NO_LOCK, skipping the ranges the level did not
\* need.  PENDING goes last and keeps new readers out until then.

\* A faulty variant: the write lock on the SHARED range is not given back.
FirstUnlockNoRange(p) ==
    IF locktype[p] >= RESERVED_LOCK THEN "unlockReserved" ELSE "unlockRead"

FirstUnlock(p) ==
    IF locktype[p] = EXCLUSIVE_LOCK THEN "unlockRange"
    ELSE IF locktype[p] >= RESERVED_LOCK THEN "unlockReserved"
    ELSE "unlockRead"

CallUnlock(p, l) ==
    /\ at[p] = "idle"
    /\ locktype[p] > l
    /\ want' = [want EXCEPT ![p] = l]
    /\ Go(p, FirstUnlock(p))
    /\ UNCHANGED <<held, Files, told>>

UnlockRange(p) ==
    /\ at[p] = "unlockRange"
    /\ Hold("SHARED", p, "none")
    /\ Go(p, IF want[p] = SHARED_LOCK THEN "unlockReRead" ELSE "unlockReserved")
    /\ UNCHANGED <<Files, want, told>>

\* "This should never happen.  We should always be able to reacquire the read
\* lock": winUnlock goes on if it does.
UnlockReRead(p) ==
    /\ at[p] = "unlockReRead"
    /\ IF CanTake("SHARED", "read") THEN Hold("SHARED", p, "read") ELSE UNCHANGED held
    /\ Go(p, "unlockReserved")
    /\ UNCHANGED <<Files, want, told>>

\* The end of winUnlock: PENDING, if the level had it, is the last range.
Unlocked(p) ==
    /\ locktype' = [locktype EXCEPT ![p] = want[p]]
    /\ eLock' = [eLock EXCEPT ![p] = want[p]]
    /\ Go(p, "idle")

ThenPending(p) ==
    IF locktype[p] >= PENDING_LOCK
    THEN Go(p, "unlockPending") /\ UNCHANGED Files
    ELSE Unlocked(p)

\* UnlockFile on a range the process has no lock on fails and is ignored.
UnlockReserved(p) ==
    /\ at[p] = "unlockReserved"
    /\ Hold("RESERVED", p, "none")
    /\ IF want[p] = NO_LOCK
       THEN Go(p, "unlockRead") /\ UNCHANGED Files
       ELSE ThenPending(p)
    /\ UNCHANGED <<want, told>>

UnlockRead(p) ==
    /\ at[p] = "unlockRead"
    /\ Hold("SHARED", p, "none")
    /\ ThenPending(p)
    /\ UNCHANGED <<want, told>>

UnlockPending(p) ==
    /\ at[p] = "unlockPending"
    /\ Hold("PENDING", p, "none")
    /\ Unlocked(p)
    /\ UNCHANGED <<want, told>>

\* Windows drops the locks of a process that ends; it may be started again.
Kill(p) ==
    /\ held' = [r \in Ranges |-> [held[r] EXCEPT ![p] = "none"]]
    /\ locktype' = [locktype EXCEPT ![p] = NO_LOCK]
    /\ eLock' = [eLock EXCEPT ![p] = NO_LOCK]
    /\ Go(p, "idle")
    /\ UNCHANGED <<want, told>>

-----------------------------------------------------------------------------

LockStep(p) ==
    \/ TakePending(p) \/ PendingTaken(p) \/ ReadLock(p) \/ DropPending(p)
    \/ Reserve(p) \/ DropRead(p) \/ WriteLock(p) \/ RangeTaken(p) \/ ReRead(p)
    \/ Test(p) \/ DropTest(p)

UnlockStep(p) ==
    \/ UnlockRange(p) \/ UnlockReRead(p) \/ UnlockReserved(p)
    \/ UnlockRead(p) \/ UnlockPending(p)

Release(p) == CallUnlock(p, NO_LOCK)

Next ==
    \E p \in Procs :
        \/ Call(p) \/ CallTest(p) \/ CallUnlock(p, SHARED_LOCK) \/ Release(p)
        \/ LockStep(p) \/ UnlockStep(p) \/ Kill(p)

Spec == Init /\ [][Next]_vars
-----------------------------------------------------------------------------
\* The contract.  A level is held from the system call that completes it, and
\* given up at the system call that breaks it.

LockOf(p) ==
    IF held["SHARED"][p] = "write" THEN EXCLUSIVE_LOCK
    ELSE IF locktype[p] = EXCLUSIVE_LOCK THEN want[p]
    ELSE IF held["RESERVED"][p] = "write" THEN RESERVED_LOCK
    ELSE IF at[p] = "unlockPending" THEN want[p]
    ELSE IF locktype[p] = NO_LOCK THEN NO_LOCK
    ELSE SHARED_LOCK

DL == INSTANCE DbLock WITH lock <- [p \in Procs |-> LockOf(p)]

\* winLock, winUnlock and winCheckReservedLock, call by call and interleaved
\* with those of other processes, do what the comment on sqlite3OsLock says.
\* In particular the test for RESERVED is exact although it takes a lock on the
\* byte it tests: two processes that test at once do not see each other.
Contract == DL!Spec

\* The contract keeps a writer alone and writers apart, so the calls do.
LevelsExclude == DL!Exclusion

\* Whoever was granted a level can read: the read lock that winLock and
\* winUnlock drop and take again is always to be had again.
ReadersKeepLock ==
    \A p \in Procs :
        at[p] = "idle" /\ locktype[p] >= SHARED_LOCK => held["SHARED"][p] # "none"

\* A process that waits for EXCLUSIVE keeps new readers out.
NoNewReaders ==
    [][\A p, q \in Procs :
           /\ p # q
           /\ locktype[p] = NO_LOCK /\ locktype'[p] = SHARED_LOCK
           => locktype[q] < PENDING_LOCK]_vars

\* The inductive invariant: which ranges go with which point of which call.
InPending == {"readLock", "dropPending", "dropRead", "writeLock", "reRead"}

RangesExclude ==
    \A r \in Ranges : \A p, q \in Procs :
        p # q /\ held[r][p] = "write" => held[r][q] = "none"

PendingRange ==
    \A p \in Procs :
        held["PENDING"][p] = IF locktype[p] >= PENDING_LOCK \/ at[p] \in InPending
                             THEN "write"
                             ELSE "none"

ReservedRange ==
    \A p \in Procs :
        /\ held["RESERVED"][p] = "write" =>
               /\ locktype[p] >= RESERVED_LOCK
               /\ at[p] \notin {"unlockRead", "unlockPending"}
        /\ held["RESERVED"][p] = "read" <=> at[p] = "dropTest"
        /\ locktype[p] = RESERVED_LOCK /\ at[p] # "unlockRead" =>
               held["RESERVED"][p] = "write"

SharedRange ==
    \A p \in Procs :
        CASE locktype[p] = NO_LOCK ->
                 held["SHARED"][p] \in IF at[p] = "dropPending" THEN {"none", "read"} ELSE {"none"}
          [] locktype[p] = EXCLUSIVE_LOCK ->
                 IF at[p] \in {"idle", "unlockRange"} THEN held["SHARED"][p] = "write"
                 ELSE held["SHARED"][p] = IF want[p] = SHARED_LOCK /\ at[p] # "unlockReRead"
                                          THEN "read" ELSE "none"
          [] OTHER ->
                 held["SHARED"][p] =
                     IF \/ at[p] \in {"writeLock", "reRead"}
                        \/ at[p] = "unlockPending" /\ want[p] = NO_LOCK
                     THEN "none" ELSE "read"

\* No other process has entered while one is at EXCLUSIVE or on its way down.
WriterAlone ==
    \A p, q \in Procs : p # q /\ locktype[p] = EXCLUSIVE_LOCK => held["SHARED"][q] = "none"

CallsMatch ==
    \A p \in Procs :
        /\ at[p] \in {"pending", "dropPending", "readLock"} =>
               want[p] \in {SHARED_LOCK, EXCLUSIVE_LOCK}
        /\ want[p] = SHARED_LOCK /\ at[p] = "pending" => locktype[p] = NO_LOCK
        /\ want[p] = EXCLUSIVE_LOCK /\ at[p] = "pending" =>
               locktype[p] \in {SHARED_LOCK, RESERVED_LOCK}
        /\ at[p] \in {"readLock", "dropPending"} =>
               want[p] = SHARED_LOCK /\ locktype[p] = NO_LOCK
        /\ at[p] = "reserve" => want[p] = RESERVED_LOCK /\ locktype[p] = SHARED_LOCK
        /\ at[p] \in {"dropRead", "writeLock", "reRead"} =>
               /\ want[p] = EXCLUSIVE_LOCK
               /\ locktype[p] \in {SHARED_LOCK, RESERVED_LOCK, PENDING_LOCK}
        /\ at[p] \in {"test", "dropTest"} => locktype[p] = SHARED_LOCK
        /\ at[p] \in {"unlockRange", "unlockReRead", "unlockReserved", "unlockRead", "unlockPending"} =>
               want[p] \in {NO_LOCK, SHARED_LOCK} /\ want[p] < locktype[p]
        /\ at[p] \in {"unlockRange", "unlockReRead"} => locktype[p] = EXCLUSIVE_LOCK
        /\ at[p] = "unlockReRead" => want[p] = SHARED_LOCK
        /\ at[p] = "unlockReserved" => locktype[p] >= RESERVED_LOCK
        /\ at[p] = "unlockRead" => want[p] = NO_LOCK
        /\ at[p] = "unlockPending" => locktype[p] >= PENDING_LOCK

\* Every grant matches the byte ranges behind it, at every point of a call.
IInv ==
    /\ TypeOK /\ RangesExclude /\ PendingRange /\ ReservedRange /\ SharedRange
    /\ WriterAlone /\ CallsMatch

-----------------------------------------------------------------------------
\* Fairness: threads run, readers finish their statements, and the holder of
\* RESERVED repeats its try for EXCLUSIVE (pager_wait_on_lock) until it is killed
\* or gives up.

Retry(p) == locktype[p] = PENDING_LOCK /\ Call(p)
EndRead(p) == locktype[p] = SHARED_LOCK /\ Release(p)

FairSpec ==
    /\ Spec
    /\ \A p \in Procs : /\ WF_vars(LockStep(p) \/ UnlockStep(p) \/ Retry(p))
                        /\ SF_vars(EndRead(p))

\* Readers do not starve a writer: from PENDING it gets EXCLUSIVE, unless it is
\* killed or stops trying.
PendingWinsOf(p) ==
    locktype[p] = PENDING_LOCK /\ eLock[p] = RESERVED_LOCK ~> locktype[p] # PENDING_LOCK
=============================================================================
