------------------------------- MODULE DbLock -------------------------------
(***************************************************************************)
(* What SQLite's pager asks of the lock on a database file, level by level *)
(* (the comment on sqlite3OsLock).  A request may always be turned down    *)
(* with SQLITE_BUSY, which leaves this state as it was.  The PENDING level *)
(* is a means of getting to EXCLUSIVE and does not appear here.            *)
(***************************************************************************)
EXTENDS Integers

CONSTANT Procs      \* the processes that have the file open, one handle each

NO_LOCK == 0
SHARED_LOCK == 1
RESERVED_LOCK == 2
EXCLUSIVE_LOCK == 4
Granted == {NO_LOCK, SHARED_LOCK, RESERVED_LOCK, EXCLUSIVE_LOCK}

VARIABLES
    lock,    \* the level each process holds
    told     \* what sqlite3OsCheckReservedLock last answered each process

Init ==
    /\ lock = [p \in Procs |-> NO_LOCK]
    /\ told = [p \in Procs |-> "free"]

Others(p) == Procs \ {p}

\* Any number of processes may hold SHARED, but none beside EXCLUSIVE.
Shared(p) ==
    /\ lock[p] = NO_LOCK
    /\ \A q \in Others(p) : lock[q] # EXCLUSIVE_LOCK
    /\ lock' = [lock EXCEPT ![p] = SHARED_LOCK]
    /\ UNCHANGED told

\* One process may hold RESERVED at a time.
Reserved(p) ==
    /\ lock[p] = SHARED_LOCK
    /\ \A q \in Others(p) : lock[q] \in {NO_LOCK, SHARED_LOCK}
    /\ lock' = [lock EXCEPT ![p] = RESERVED_LOCK]
    /\ UNCHANGED told

\* EXCLUSIVE precludes all others.  A hot journal is rolled back by a process
\* that goes there straight from SHARED.
Exclusive(p) ==
    /\ lock[p] \in {SHARED_LOCK, RESERVED_LOCK}
    /\ \A q \in Others(p) : lock[q] = NO_LOCK
    /\ lock' = [lock EXCEPT ![p] = EXCLUSIVE_LOCK]
    /\ UNCHANGED told

LowerTo(p, l) ==
    /\ l < lock[p]
    /\ lock' = [lock EXCEPT ![p] = l]
    /\ UNCHANGED told

Lower(p) == LowerTo(p, NO_LOCK) \/ LowerTo(p, SHARED_LOCK)

ReservedByOther(p) == \E q \in Others(p) : lock[q] \in {RESERVED_LOCK, EXCLUSIVE_LOCK}

\* The test is exact: it answers "taken" just when another process has RESERVED.
CheckReserved(p) ==
    /\ lock[p] = SHARED_LOCK
    /\ told' = [told EXCEPT ![p] = IF ReservedByOther(p) THEN "taken" ELSE "free"]
    /\ UNCHANGED lock

Next ==
    \E p \in Procs :
        Shared(p) \/ Reserved(p) \/ Exclusive(p) \/ Lower(p) \/ CheckReserved(p)

Spec == Init /\ [][Next]_<<lock, told>>

-----------------------------------------------------------------------------

\* A process that may write the file is alone in it, and at most one process
\* is preparing to write.
Exclusion ==
    \A p, q \in Procs :
        p # q => /\ lock[p] = EXCLUSIVE_LOCK => lock[q] = NO_LOCK
                 /\ lock[p] = RESERVED_LOCK => lock[q] # RESERVED_LOCK
=============================================================================
