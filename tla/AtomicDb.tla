------------------------------ MODULE AtomicDb ------------------------------
(***************************************************************************)
(* What CRUM relies on SQLite for: each statement, run in autocommit mode, *)
(* reads one committed state of the database or replaces it by the next,   *)
(* whatever processes are killed on the way.  A power failure may cost the *)
(* last commit, and no more.                                               *)
(***************************************************************************)
EXTENDS Integers, Sequences

CONSTANTS
    Procs,     \* the processes that have the database open
    OldPages,  \* the size of the database at the start
    MaxPages,  \* bound: the size of the database
    MaxTxns    \* bound: the write transactions begun

VARIABLES
    db,    \* the committed pages:  of each, the transactions that wrote it
    prev,  \* what a power failure may leave instead
    seen   \* what a reading statement of a process has read, until it ends

Txns == 1 .. MaxTxns

Init ==
    /\ db = [i \in 1 .. OldPages |-> {}]
    /\ prev = db
    /\ seen = [p \in Procs |-> <<>>]

Read(p) ==
    /\ seen' = [seen EXCEPT ![p] = db]
    /\ UNCHANGED <<db, prev>>

Close(p) ==
    /\ seen' = [seen EXCEPT ![p] = <<>>]
    /\ UNCHANGED <<db, prev>>

\* Transaction t builds on every transaction that was committed before it.
Commit(t, written, size) ==
    /\ size >= Len(db)
    /\ \A i \in 1 .. Len(db) : t \notin db[i]
    /\ db' = [i \in 1 .. size |->
                 (IF i <= Len(db) THEN db[i] ELSE {}) \cup (IF i \in written THEN {t} ELSE {})]
    /\ prev' = db
    /\ UNCHANGED seen

\* The last commit is safe from a power failure.
Settle ==
    /\ prev' = db
    /\ UNCHANGED <<db, seen>>

PowerLoss ==
    /\ db' \in {db, prev}
    /\ prev' = db'
    /\ seen' = [p \in Procs |-> <<>>]

Next ==
    \/ \E p \in Procs : Close(p) \/ Read(p)
    \/ \E t \in Txns, size \in 0 .. MaxPages :
           \E written \in SUBSET (1 .. size) : Commit(t, written, size)
    \/ Settle
    \/ PowerLoss

Spec == Init /\ [][Next]_<<db, prev, seen>>
=============================================================================
