------------------------------- MODULE Pager -------------------------------
(***************************************************************************)
(* SQLite's pager in journal_mode=DELETE, synchronous=FULL, as each        *)
(* statement of CRUM uses it in autocommit mode, while other processes     *)
(* (a second CRUM, the sqlite shell) use the same file.  A process may be  *)
(* killed between any two steps, and the power may fail.                   *)
(*                                                                         *)
(* The file locks are those of DbLock, which WinLock implements.  A page   *)
(* is the set of transactions that wrote to it; page 1 also has the change *)
(* counter and the size of the database.                                   *)
(***************************************************************************)
EXTENDS Integers, Sequences, FiniteSetsExt, Functions

CONSTANTS
    Procs,     \* the processes that have the database open
    MaxPages,  \* bound: the size of the database
    MaxTxns,   \* bound: the write transactions begun
    Retries,   \* bound: how often the busy handler waits before it gives up
    OldPages,  \* the size of the database at the start; 0 if the file is new
    Errors,    \* whether reads, writes and syncs may fail
    PowerFails \* whether the power may fail

ASSUME PagerBounds ==
    /\ MaxPages \in Nat /\ MaxTxns \in Nat /\ Retries \in Nat
    /\ OldPages \in 0 .. MaxPages

VARIABLES
    lock,        \* the lock each process has on the database file, see DbLock
    file,        \* the pages of the database file
    loose,       \* pages written since the file was last synced
    sizes,       \* the sizes the file has had since then
    jrnl,        \* the journal file
    jdisk,       \* the journal as it was last synced
    pc,          \* what a process does next
    kind,        \* whether its statement reads or writes, or there is none
    tries,       \* BusyHandler.nBusy
    cache,       \* its page cache:  a function on the pages it has
    dirty,       \* the pages it has changed in the cache
    vers,        \* Pager.dbFileVers
    got,         \* what a reading statement has read
    todo,        \* the next journal record to play back
    next         \* the number of the last write transaction

files == <<file, loose, sizes, jrnl, jdisk>>
memory == <<cache, dirty, vers, got, todo>>
vars == <<lock, files, pc, kind, tries, memory, next>>

\* The answer about RESERVED is used at once.
L == INSTANCE DbLock WITH told <- [p \in Procs |-> "free"]

Zero == [ctr |-> 0, n |-> 0, txns |-> {}]
Torn == [ctr |-> 0, n |-> 0, txns |-> {0}]     \* what no transaction wrote
NoVers == [ctr |-> 0, n |-> 0]
BadVers == [ctr |-> -1, n |-> 0]               \* no file has it
VersOf(page) == [ctr |-> page.ctr, n |-> page.n]
FileVers == IF file = <<>> THEN NoVers ELSE VersOf(file[1])

\* A journal has a header, valid or zero, the size to go back to, and records.
NoJournal == [by |-> 0, hdr |-> FALSE, orig |-> 0, recs |-> <<>>]
Exists == jrnl.by # 0

Init ==
    /\ L!Init
    /\ file = [i \in 1 .. OldPages |->
                  IF i = 1 THEN [Zero EXCEPT !.ctr = 1, !.n = OldPages] ELSE Zero]
    /\ loose = {} /\ sizes = {Len(file)}
    /\ jrnl = NoJournal /\ jdisk = NoJournal
    /\ pc = [p \in Procs |-> "idle"]
    /\ kind = [p \in Procs |-> "none"]
    /\ tries = [p \in Procs |-> 0]
    /\ cache = [p \in Procs |-> <<>>]
    /\ dirty = [p \in Procs |-> {}]
    /\ vers = [p \in Procs |-> NoVers]
    /\ got = [p \in Procs |-> <<>>]
    /\ todo = [p \in Procs |-> 1]
    /\ next = 0

-----------------------------------------------------------------------------
At(p, step) == pc[p] = step
Go(p, step) == pc' = [pc EXCEPT ![p] = step]
Put(c, i, page) == [j \in DOMAIN c \cup {i} |-> IF j = i THEN page ELSE c[j]]
UpTo(c, n) == Restrict(c, {i \in DOMAIN c : i <= n})

\* Pager.dbSize
Size(p) == Max({Len(file)} \cup dirty[p])

Begin(p, k) ==
    /\ At(p, "idle")
    /\ kind' = [kind EXCEPT ![p] = k]
    /\ tries' = [tries EXCEPT ![p] = 0]
    /\ Go(p, "shared")
    /\ UNCHANGED <<lock, files, memory, next>>

Close(p) == Go(p, "idle") /\ kind' = [kind EXCEPT ![p] = "none"]

\* A step that only looks at the files and the cache.
Look(p, step) == Go(p, step) /\ UNCHANGED <<files, kind, tries, memory, next>>

-----------------------------------------------------------------------------
\* sqlite3PagerSharedLock and hasHotJournal

Shared(p) ==
    /\ At(p, "shared")
    /\ L!Shared(p)
    /\ Look(p, "access")

Access(p) ==
    /\ At(p, "access")
    /\ Look(p, IF Exists THEN "check" ELSE "version")
    /\ UNCHANGED lock

\* A faulty variant: any lock of another process counts as RESERVED.
CheckAnyLock(p) ==
    /\ At(p, "check")
    /\ Look(p, IF \E q \in Procs \ {p} : lock[q] # L!NO_LOCK THEN "version" ELSE "npage")
    /\ UNCHANGED lock

Check(p) ==
    /\ At(p, "check")
    /\ Look(p, IF L!ReservedByOther(p) THEN "version" ELSE "npage")
    /\ UNCHANGED lock

NPage(p) ==
    /\ At(p, "npage")
    /\ Look(p, IF file = <<>> THEN "stale" ELSE "firstByte")
    /\ UNCHANGED lock

\* A faulty variant: RESERVED is not asked for.
StaleUnlocked(p) ==
    /\ At(p, "stale")
    /\ Look(p, "deleteStale")
    /\ UNCHANGED lock

\* The journal of a database without pages is deleted under RESERVED, if that
\* is to be had.  Neither failure is looked at.
Stale(p) ==
    /\ At(p, "stale")
    /\ \/ L!Reserved(p) /\ Look(p, "deleteStale")
       \/ UNCHANGED lock /\ Look(p, "version")

DeleteStale(p) ==
    /\ At(p, "deleteStale")
    /\ jrnl' \in {NoJournal, jrnl}
    /\ Go(p, "unreserve")
    /\ UNCHANGED <<lock, file, loose, sizes, jdisk, kind, tries, memory, next>>

\* A journal that is gone counts as hot; the EXCLUSIVE lock will tell.
FirstByte(p) ==
    /\ At(p, "firstByte")
    /\ Look(p, IF jrnl.hdr \/ ~ Exists THEN "hotLock" ELSE "version")
    /\ UNCHANGED lock

\* A faulty variant: RESERVED is thought to be enough.
HotLockReserved(p) ==
    /\ At(p, "hotLock")
    /\ L!Reserved(p)
    /\ Look(p, "hotOpen")

HotLock(p) ==
    /\ At(p, "hotLock")
    /\ L!Exclusive(p)
    /\ Look(p, "hotOpen")

HotOpen(p) ==
    /\ At(p, "hotOpen")
    /\ Look(p, IF Exists THEN "hotSync" ELSE "unreserve")
    /\ UNCHANGED lock

\* A faulty variant: what is played back may not survive a power failure.
HotSyncNot(p) ==
    /\ At(p, "hotSync")
    /\ Go(p, IF jrnl.hdr THEN "truncate" ELSE "playSync")
    /\ UNCHANGED <<lock, files, kind, tries, memory, next>>

\* pagerSyncHotJournal.  A journal with a zero header has nothing to play back.
HotSync(p) ==
    /\ At(p, "hotSync")
    /\ jdisk' = jrnl
    /\ Go(p, IF jrnl.hdr THEN "truncate" ELSE "playSync")
    /\ UNCHANGED <<lock, file, loose, sizes, jrnl, kind, tries, memory, next>>

\* Back to SHARED after the journal is dealt with.
Unreserve(p) ==
    /\ At(p, "unreserve")
    /\ L!LowerTo(p, L!SHARED_LOCK)
    /\ Look(p, "version")

\* A faulty variant: the cache is always kept.
VersionKept(p) ==
    /\ At(p, "version")
    /\ Look(p, "page1")
    /\ UNCHANGED lock

\* The cache is kept if the file has the version it was filled from.
Version(p) ==
    /\ At(p, "version")
    /\ cache' = [cache EXCEPT ![p] = IF FileVers = vers[p] THEN @ ELSE <<>>]
    /\ Go(p, "page1")
    /\ UNCHANGED <<lock, files, kind, tries, dirty, vers, got, todo, next>>

-----------------------------------------------------------------------------
\* Pages.  Page 1 is read first by every statement (lockBtree).

Page(p, i) ==
    IF i \in DOMAIN cache[p] THEN cache[p][i]
    ELSE IF i <= Len(file) THEN file[i]
    ELSE Zero

\* readDbPage takes the version along; a page beyond the end is not read.
Fetch(p, i) ==
    /\ cache' = [cache EXCEPT ![p] = Put(@, i, Page(p, i))]
    /\ vers' = [vers EXCEPT ![p] =
                    IF i = 1 /\ i \notin DOMAIN cache[p] /\ i <= Len(file)
                    THEN VersOf(file[1])
                    ELSE @]

Page1(p) ==
    /\ At(p, "page1")
    /\ Fetch(p, 1)
    /\ Go(p, IF kind[p] = "read" THEN "read" ELSE "reserve")
    /\ UNCHANGED <<lock, files, kind, tries, dirty, got, todo, next>>

Read(p) ==
    /\ At(p, "read")
    /\ Len(got[p]) < Len(file)
    /\ LET i == Len(got[p]) + 1
       IN  Fetch(p, i) /\ got' = [got EXCEPT ![p] = Append(@, Page(p, i).txns)]
    /\ UNCHANGED <<lock, files, pc, kind, tries, dirty, todo, next>>

EndRead(p) ==
    /\ At(p, "read")
    /\ Len(got[p]) = Len(file)
    /\ Look(p, "end")
    /\ UNCHANGED lock

\* pager_unlock
End(p) ==
    /\ At(p, "end")
    /\ L!LowerTo(p, L!NO_LOCK)
    /\ Close(p)
    /\ got' = [got EXCEPT ![p] = <<>>]
    /\ UNCHANGED <<files, tries, cache, dirty, vers, todo, next>>

-----------------------------------------------------------------------------
\* A write transaction

Reserve(p) ==
    /\ At(p, "reserve")
    /\ next < MaxTxns
    /\ L!Reserved(p)
    /\ next' = next + 1
    /\ Go(p, "modify")
    /\ UNCHANGED <<files, kind, tries, memory>>

\* pagerAddPageToRollbackJournal: new pages have nothing to go back to.
Journalled(j, p, i) ==
    IF i <= j.orig THEN [j EXCEPT !.recs = Append(@, [pg |-> i, was |-> Page(p, i)])] ELSE j

\* pager_write, which opens the journal when it is called first.
PagerWrite(p, i) ==
    /\ At(p, "modify")
    /\ i \notin dirty[p]
    /\ i <= Size(p) + 1
    /\ jrnl' = Journalled(IF dirty[p] = {}
                          THEN [NoJournal EXCEPT !.by = next, !.orig = Len(file)]
                          ELSE jrnl, p, i)
    /\ cache' = [cache EXCEPT ![p] = Put(@, i, [Page(p, i) EXCEPT !.txns = @ \cup {next}])]
    /\ dirty' = [dirty EXCEPT ![p] = @ \cup {i}]
    /\ UNCHANGED <<lock, file, loose, sizes, jdisk, pc, kind, tries, vers, got, todo, next>>

\* The statement is done; newDatabase has written page 1 of an empty file.
Finish(p) ==
    /\ At(p, "modify")
    /\ dirty[p] # {} \/ file # <<>>
    /\ Look(p, "exclusive")
    /\ UNCHANGED lock

\* vdbeCommit; a statement that changed no page has no journal.
Exclusive(p) ==
    /\ At(p, "exclusive")
    /\ L!Exclusive(p)
    /\ Look(p, IF dirty[p] = {} THEN "unlock" ELSE "counter")

\* A faulty variant: page 1 is changed without a record of what it was.
CounterUnjournalled(p) ==
    /\ At(p, "counter")
    /\ cache' = [cache EXCEPT ![p] =
                     Put(@, 1, [Page(p, 1) EXCEPT !.ctr = vers[p].ctr + 1, !.n = Size(p)])]
    /\ dirty' = [dirty EXCEPT ![p] = @ \cup {1}]
    /\ Go(p, "journalSync")
    /\ UNCHANGED <<lock, files, kind, tries, vers, got, todo, next>>

\* pager_incr_changecounter
Counter(p) ==
    /\ At(p, "counter")
    /\ jrnl' = IF 1 \in dirty[p] THEN jrnl ELSE Journalled(jrnl, p, 1)
    /\ cache' = [cache EXCEPT ![p] =
                     Put(@, 1, [Page(p, 1) EXCEPT !.ctr = vers[p].ctr + 1, !.n = Size(p)])]
    /\ dirty' = [dirty EXCEPT ![p] = @ \cup {1}]
    /\ Go(p, "journalSync")
    /\ UNCHANGED <<lock, file, loose, sizes, jdisk, kind, tries, vers, got, todo, next>>

\* syncJournal: the header becomes valid between two syncs.
JournalSync(p) ==
    /\ \/ At(p, "journalSync") /\ Go(p, "header")
       \/ At(p, "headerSync") /\ Go(p, "pages")
    /\ jdisk' = jrnl
    /\ UNCHANGED <<lock, file, loose, sizes, jrnl, kind, tries, memory, next>>

Header(p) ==
    /\ At(p, "header")
    /\ jrnl' = [jrnl EXCEPT !.hdr = TRUE]
    /\ Go(p, "headerSync")
    /\ UNCHANGED <<lock, file, loose, sizes, jdisk, kind, tries, memory, next>>

WriteFile(i, page) ==
    /\ file' = Put(file, i, page)
    /\ loose' = loose \cup {i}
    /\ sizes' = sizes \cup {Len(file')}

\* pager_write_pagelist, in the order of the pages.
WritePage(p) ==
    /\ At(p, "pages")
    /\ \E i \in dirty[p] :
           /\ \A j \in dirty[p] : i <= j
           /\ WriteFile(i, cache[p][i])
           /\ vers' = [vers EXCEPT ![p] = IF i = 1 THEN VersOf(cache[p][1]) ELSE @]
           /\ dirty' = [dirty EXCEPT ![p] = @ \ {i}]
    /\ Go(p, IF dirty'[p] = {} THEN "dbSync" ELSE "pages")
    /\ UNCHANGED <<lock, jrnl, jdisk, kind, tries, cache, got, todo, next>>

\* sqlite3PagerSync, at the end of a commit, a rollback or a hot rollback
DbSync(p) ==
    /\ \/ At(p, "dbSync") /\ Go(p, "delete")
       \/ At(p, "undoSync") /\ Go(p, "delete")
       \/ At(p, "playSync") /\ Go(p, "hotDelete")
    /\ loose' = {} /\ sizes' = {Len(file)}
    /\ UNCHANGED <<lock, file, jrnl, jdisk, kind, tries, memory, next>>

\* pager_end_transaction.  This is the commit; winDelete does not sync it.
Delete(p) ==
    /\ \/ At(p, "delete") /\ Go(p, "unlock")
       \/ At(p, "hotDelete") /\ Go(p, "unreserve")
    /\ jrnl' = NoJournal
    /\ UNCHANGED <<lock, file, loose, sizes, jdisk, kind, tries, memory, next>>

Unlock(p) ==
    /\ At(p, "unlock")
    /\ L!LowerTo(p, L!SHARED_LOCK)
    /\ Look(p, "end")

-----------------------------------------------------------------------------
\* Rollback

\* Page 1 stays in the cache, zeroed, when there is nothing else to go back to
\* (sqlite3PcacheTruncate): the b-tree holds a reference to it.
Shrunk(c, n) == IF n = 0 THEN [i \in {1} |-> Zero] ELSE UpTo(c, n)

Originals(j) == [i \in {r.pg : r \in Range(j.recs)} |->
                     (CHOOSE r \in Range(j.recs) : r.pg = i).was]

\* pager_playback of a transaction that has not written to the file: only the
\* cache is restored.
RollbackCache(p) ==
    /\ LET kept == Shrunk(cache[p], jrnl.orig)
           old == Originals(jrnl)
       IN  cache' = [cache EXCEPT ![p] =
                         [i \in DOMAIN kept |-> IF i \in DOMAIN old THEN old[i] ELSE kept[i]]]
    /\ dirty' = [dirty EXCEPT ![p] = {}]
    /\ Go(p, "delete")

\* A statement that changed no page has nothing to roll back.
Rollback(p) ==
    /\ IF dirty[p] = {} THEN Go(p, "unlock") /\ UNCHANGED <<cache, dirty>> ELSE RollbackCache(p)
    /\ UNCHANGED kind

\* The next step of a process that has at most SHARED reads a file.
ReadsFile(p) ==
    \/ pc[p] \in {"access", "check", "npage", "firstByte", "version"}
    \/ At(p, "page1") /\ 1 \notin DOMAIN cache[p] /\ file # <<>>
    \/ At(p, "read") /\ Len(got[p]) < Len(file) /\ Len(got[p]) + 1 \notin DOMAIN cache[p]

\* It fails, and the statement with it.  The cache stays, but if it was page 1
\* that could not be read the version it was filled from is given up (readDbPage).
FailRead(p) ==
    /\ ReadsFile(p)
    /\ vers' = [vers EXCEPT ![p] = IF At(p, "page1") THEN BadVers ELSE @]
    /\ kind' = [kind EXCEPT ![p] = "none"]
    /\ Go(p, "end")
    /\ UNCHANGED <<lock, files, tries, cache, dirty, got, todo, next>>

\* A write, or a sync, fails or the statement does before anything is written.
Fail(p) ==
    /\ pc[p] \in {"modify", "counter", "journalSync", "header", "headerSync"}
    /\ Rollback(p)
    /\ UNCHANGED <<lock, files, tries, vers, got, todo, next>>

\* It fails when pages may have been written.
FailWrite(p) ==
    /\ pc[p] \in {"pages", "dbSync"}
    /\ dirty' = [dirty EXCEPT ![p] = {}]
    /\ cache' = [cache EXCEPT ![p] = Shrunk(@, jrnl.orig)]
    /\ Go(p, "undoTruncate")
    /\ UNCHANGED <<lock, files, kind, tries, vers, got, todo, next>>

Resized(f, n) == [i \in 1 .. n |-> IF i <= Len(f) THEN f[i] ELSE Zero]

\* pager_truncate on the first header.  A hot rollback empties the cache if
\* there is a record.
Truncate(p) ==
    /\ \/ At(p, "truncate") /\ Go(p, "play")
       \/ At(p, "undoTruncate") /\ Go(p, "undo")
    /\ file' = Resized(file, jrnl.orig)
    /\ sizes' = sizes \cup {jrnl.orig}
    /\ todo' = [todo EXCEPT ![p] = 1]
    /\ cache' = [cache EXCEPT ![p] =
                     IF At(p, "undoTruncate") THEN @
                     ELSE IF jrnl.recs # <<>> THEN <<>> ELSE UpTo(@, jrnl.orig)]
    /\ UNCHANGED <<lock, loose, jrnl, jdisk, kind, tries, dirty, vers, got, next>>

Playing(p) == pc[p] \in {"play", "undo"}

\* pager_playback_one_page; a checksum that does not match ends the playback.
MoreToPlay(p) == todo[p] <= Len(jrnl.recs) /\ jrnl.recs[todo[p]].was # Torn

PlayPage(p) ==
    /\ Playing(p)
    /\ MoreToPlay(p)
    /\ LET r == jrnl.recs[todo[p]]
       IN  /\ WriteFile(r.pg, r.was)
           /\ IF r.pg \in DOMAIN cache[p]
              THEN /\ cache' = [cache EXCEPT ![p][r.pg] = r.was]
                   /\ vers' = [vers EXCEPT ![p] = IF r.pg = 1 THEN VersOf(r.was) ELSE @]
              ELSE UNCHANGED <<cache, vers>>
    /\ todo' = [todo EXCEPT ![p] = @ + 1]
    /\ UNCHANGED <<lock, jrnl, jdisk, pc, kind, tries, dirty, got, next>>

EndPlay(p) ==
    /\ Playing(p)
    /\ ~ MoreToPlay(p)
    /\ Go(p, IF At(p, "play") THEN "playSync" ELSE "undoSync")
    /\ todo' = [todo EXCEPT ![p] = 1]
    /\ UNCHANGED <<lock, files, kind, tries, cache, dirty, vers, got, next>>

\* An error in a rollback, or in deleting the journal: the pager forgets what it
\* knows and leaves the journal to whoever comes next.
Abandon(p) ==
    /\ pc[p] \in {"hotOpen", "hotSync", "truncate", "play", "playSync", "hotDelete",
                  "undoTruncate", "undo", "undoSync", "delete"}
    /\ cache' = [cache EXCEPT ![p] = <<>>]
    /\ dirty' = [dirty EXCEPT ![p] = {}]
    /\ todo' = [todo EXCEPT ![p] = 1]
    /\ Go(p, IF pc[p] \in {"delete", "hotDelete"} THEN "unlock" ELSE "end")
    /\ UNCHANGED <<lock, files, kind, tries, vers, got, next>>

-----------------------------------------------------------------------------
\* SQLITE_BUSY.  The busy handler waits, or it gives up and the statement fails.
\* A wait for RESERVED, or for EXCLUSIVE to deal with a hot journal, starts over
\* without a lock (sqlite3BtreeBeginTrans).

Asking(p) == pc[p] \in {"shared", "hotLock", "reserve", "exclusive"}
Backs(p) == pc[p] \in {"hotLock", "reserve"}

DropLock(p) == IF Backs(p) THEN L!LowerTo(p, L!NO_LOCK) ELSE UNCHANGED lock

BusyWait(p) ==
    /\ Asking(p)
    /\ tries[p] < Retries
    /\ tries' = [tries EXCEPT ![p] = @ + 1]
    /\ DropLock(p)
    /\ Go(p, IF Backs(p) THEN "shared" ELSE pc[p])
    /\ UNCHANGED <<files, kind, memory, next>>

\* A faulty variant: it is only a wait for a lock that may be given up.
BusyGiveUpBacks(p) ==
    /\ Backs(p)
    /\ tries[p] = Retries
    /\ DropLock(p)
    /\ Close(p)
    /\ UNCHANGED <<files, tries, memory, next>>

BusyGiveUp(p) ==
    /\ Asking(p)
    /\ tries[p] = Retries
    /\ DropLock(p)
    /\ IF At(p, "exclusive") THEN Rollback(p) ELSE Close(p) /\ UNCHANGED <<cache, dirty>>
    /\ UNCHANGED <<files, tries, vers, got, todo, next>>

-----------------------------------------------------------------------------
\* Faults

\* The system keeps what a killed process wrote, and drops its locks.
Kill(p) ==
    /\ lock' = [lock EXCEPT ![p] = L!NO_LOCK]
    /\ cache' = [cache EXCEPT ![p] = <<>>]
    /\ dirty' = [dirty EXCEPT ![p] = {}]
    /\ vers' = [vers EXCEPT ![p] = NoVers]
    /\ got' = [got EXCEPT ![p] = <<>>]
    /\ todo' = [todo EXCEPT ![p] = 1]
    /\ Close(p)
    /\ UNCHANGED <<files, tries, next>>

\* What a power failure may leave: of the file, any page written since the last
\* sync may be torn, and any of its recent sizes may be the last; of the journal,
\* what was synced, or the file of now with what was not synced torn.
FileLeft ==
    {[i \in 1 .. n |-> IF i \in torn \/ i > Len(file) THEN Torn ELSE file[i]] :
        n \in sizes, torn \in SUBSET loose}

SameFile == jrnl.by = jdisk.by

JournalLeft ==
    {jdisk, jrnl}
        \cup (IF SameFile THEN {} ELSE {NoJournal})
        \cup {[jrnl EXCEPT !.recs = [i \in 1 .. Len(jrnl.recs) |->
                   IF SameFile /\ i <= Len(jdisk.recs) THEN jrnl.recs[i]
                   ELSE [jrnl.recs[i] EXCEPT !.was = Torn]]]}

PowerLoss ==
    /\ PowerFails
    /\ file' \in FileLeft
    /\ jrnl' \in JournalLeft
    /\ loose' = {} /\ sizes' = {Len(file')} /\ jdisk' = jrnl'
    /\ lock' = [p \in Procs |-> L!NO_LOCK]
    /\ pc' = [p \in Procs |-> "idle"]
    /\ cache' = [p \in Procs |-> <<>>]
    /\ dirty' = [p \in Procs |-> {}]
    /\ vers' = [p \in Procs |-> NoVers]
    /\ got' = [p \in Procs |-> <<>>]
    /\ kind' = [p \in Procs |-> "none"]
    /\ todo' = [p \in Procs |-> 1]
    /\ UNCHANGED <<tries, next>>

-----------------------------------------------------------------------------

\* What a process does for its statement once it has begun.
Step(p) ==
    \/ Shared(p) \/ Access(p) \/ Check(p) \/ NPage(p) \/ Stale(p) \/ DeleteStale(p)
    \/ FirstByte(p) \/ HotLock(p) \/ HotOpen(p) \/ HotSync(p) \/ Unreserve(p)
    \/ Version(p) \/ Page1(p) \/ Read(p) \/ EndRead(p) \/ End(p)
    \/ Reserve(p) \/ Finish(p) \/ Exclusive(p) \/ Counter(p) \/ JournalSync(p)
    \/ Header(p) \/ WritePage(p) \/ DbSync(p) \/ Delete(p) \/ Unlock(p)
    \/ Truncate(p) \/ PlayPage(p) \/ EndPlay(p) \/ BusyWait(p) \/ BusyGiveUp(p)
    \/ \E i \in 1 .. MaxPages : PagerWrite(p, i)

Error(p) == Errors /\ (FailRead(p) \/ Fail(p) \/ FailWrite(p) \/ Abandon(p))

Next ==
    \/ \E p \in Procs : \/ \E k \in {"read", "write"} : Begin(p, k)
                        \/ Step(p) \/ Error(p) \/ Kill(p)
    \/ PowerLoss

Spec == Init /\ [][Next]_vars

\* Processes run; errors and faults need not happen.
FairSpec == Spec /\ \A p \in Procs : WF_vars(Step(p))
-----------------------------------------------------------------------------
\* The contract

\* What the next process to look will make of the files.
Hot(j) == j.by # 0 /\ j.hdr

Whole(j) == {i \in 1 .. Len(j.recs) : \A k \in 1 .. i : j.recs[k].was # Torn}

Replayed(f, j) ==
    IF ~ Hot(j) THEN f
    ELSE LET whole == Whole(j)
         IN  [i \in 1 .. j.orig |->
                 IF \E k \in whole : j.recs[k].pg = i
                 THEN j.recs[CHOOSE k \in whole : j.recs[k].pg = i].was
                 ELSE Resized(f, j.orig)[i]]

Restored(j) == Replayed(file, j)

TxnsOf(f) == [i \in 1 .. Len(f) |-> f[i].txns]

Committed == Restored(jrnl)

\* A reading statement has read a state when it is done.
Seen(p) == IF At(p, "end") /\ kind[p] = "read" THEN got[p] ELSE <<>>

Db == INSTANCE AtomicDb WITH
          db <- TxnsOf(Committed),
          prev <- TxnsOf(Restored(jdisk)),
          seen <- [p \in Procs |-> Seen(p)]

\* Statements are atomic and isolated, and build on one another, through kills
\* at any step, power failures, I/O errors and rollbacks.
Atomic == Db!Spec

\* A process past the version check works with the committed pages, from the
\* cache as from the file (sqlite3PagerSharedLock: "If the database has changed,
\* flush the cache").
InsideSteps == {"page1", "read", "reserve", "modify", "exclusive", "counter"}

CacheCurrent ==
    \A p \in Procs : pc[p] \in InsideSteps \ {"page1"} =>
        \A i \in DOMAIN cache[p] \ dirty[p] :
            cache[p][i] = IF i <= Len(Committed) THEN Committed[i] ELSE Zero

\* No process works beside a hot journal, which would mean that it reads or
\* builds on half a transaction; except that there is nothing to read in an empty
\* file (hasHotJournal, which asks three questions in turn and may be overtaken
\* between them).
NoneHot == \A p \in Procs : pc[p] \in InsideSteps => ~ Hot(jrnl) \/ file = <<>>

\* The database file does not change under a process that reads it or prepares to
\* write, whatever others do, short of a power failure.
Undisturbed ==
    [][\A p \in Procs : pc[p] \in InsideSteps /\ pc'[p] \in InsideSteps => file' = file]_vars

\* Every statement ends: with its rows, with a commit or with SQLITE_BUSY.  The
\* processes that wait for one another do so a limited number of times
\* (sqliteDefaultBusyCallback).
StatementEnds == \A p \in Procs : ~ At(p, "idle") ~> At(p, "idle")

-----------------------------------------------------------------------------
\* The lock that goes with each step, and what the steps of hasHotJournal know

Sharing == {"access", "check", "npage", "stale", "firstByte", "hotLock", "version",
            "page1", "read", "reserve"}
Reserving == {"deleteStale", "modify", "exclusive"}
Repairing == {"hotOpen", "hotSync", "truncate", "play", "playSync", "hotDelete"}
Writing == {"counter", "journalSync", "header", "headerSync", "pages", "dbSync",
            "undoTruncate", "undo", "undoSync"}
Releasing == {"delete", "unlock", "unreserve"}

LocksMatch ==
    /\ lock \in [Procs -> L!Granted]
    /\ pc \in [Procs -> {"idle", "shared", "end"} \cup Sharing \cup Reserving
                             \cup Repairing \cup Writing \cup Releasing]
    /\ \A p \in Procs :
           /\ pc[p] \in {"idle", "shared"} => lock[p] = L!NO_LOCK
           /\ pc[p] \in Sharing => lock[p] = L!SHARED_LOCK
           /\ pc[p] \in Reserving => lock[p] = L!RESERVED_LOCK
           /\ pc[p] \in Repairing \cup Writing => lock[p] = L!EXCLUSIVE_LOCK
           /\ pc[p] \in Releasing => lock[p] \in {L!RESERVED_LOCK, L!EXCLUSIVE_LOCK}
           /\ pc[p] = "end" => lock[p] \in {L!SHARED_LOCK, L!EXCLUSIVE_LOCK}

StepsKnow ==
    \A p \in Procs :
        /\ pc[p] \in {"stale", "deleteStale"} => file = <<>>
        /\ pc[p] = "version" => ~ Hot(jrnl) \/ file = <<>>
        /\ pc[p] \in Releasing /\ lock[p] = L!RESERVED_LOCK => ~ Hot(jrnl) \/ file = <<>>
        /\ pc[p] = "unreserve" /\ lock[p] = L!EXCLUSIVE_LOCK => ~ Hot(jrnl)

JournalsAre == \A j \in {jrnl, jdisk} : DOMAIN j = DOMAIN NoJournal

\* The inductive invariant: one writer, alone when it writes, and no hot journal
\* beside a process that has looked for one.
IInv == LocksMatch /\ L!Exclusion /\ JournalsAre /\ StepsKnow /\ NoneHot
=============================================================================
