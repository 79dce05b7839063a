------------------------------ MODULE PagerInv ------------------------------
(***************************************************************************)
(* What is true of the pager's data at each step: the invariant by which   *)
(* Pager implements AtomicDb and a cache that passed the version check is  *)
(* the database.  It is about a database that has at least one page.       *)
(***************************************************************************)
EXTENDS Pager

PageType == [ctr : Nat, n : Nat, txns : SUBSET Nat]
RecordType == [pg : Nat \ {0}, was : PageType]

Pgs(j) == {j.recs[k].pg : k \in 1 .. Len(j.recs)}

DataTypes ==
    /\ file \in Seq(PageType) /\ Len(file) \in 1 .. MaxPages
    /\ sizes \subseteq 1 .. MaxPages /\ Len(file) \in sizes
    /\ \A j \in {jrnl, jdisk} : /\ j.by \in Nat /\ j.hdr \in BOOLEAN /\ j.orig \in Nat
                                /\ j.recs \in Seq(RecordType)
    /\ vers \in [Procs -> [ctr : Int, n : Nat]]
    /\ DOMAIN cache = Procs
    /\ \A p \in Procs : \A i \in DOMAIN cache[p] : i \in Nat \ {0} /\ cache[p][i] \in PageType
    /\ dirty \in [Procs -> SUBSET (1 .. MaxPages)]
    /\ got \in [Procs -> Seq(SUBSET Nat)]
    /\ todo \in [Procs -> Nat \ {0}]
    /\ kind \in [Procs -> {"none", "read", "write"}]
    /\ next \in 0 .. MaxTxns

-----------------------------------------------------------------------------
\* The files, whoever lives

\* A page has one record at most, and was there when the transaction began.  A page
\* that a hot journal has no record of is on the disk.
JournalSound(j) ==
    /\ j.hdr => j.by # 0
    /\ \A k \in 1 .. Len(j.recs) : j.recs[k].pg <= j.orig
    /\ \A k, l \in 1 .. Len(j.recs) : j.recs[k].pg = j.recs[l].pg => k = l
    /\ Hot(j) => /\ j.orig \in 1 .. MaxPages
                 /\ \A k \in 1 .. Len(j.recs) : 0 \notin j.recs[k].was.txns
                 /\ \A i \in (1 .. j.orig) \ Pgs(j) : i \notin loose /\ \A s \in sizes : i <= s

\* What the next process finds is the work of transactions.
Sound(f) == \A i \in 1 .. Len(f) : f[i].txns \subseteq 1 .. next

\* No page is written before a journal that restores it is on the disk.
FilesInv ==
    /\ JournalSound(jrnl) /\ JournalSound(jdisk)
    /\ Sound(Committed) /\ Sound(Restored(jdisk))
    /\ Hot(jrnl) =>
           jdisk.by = jrnl.by /\ jdisk.orig = jrnl.orig /\ jdisk.recs = jrnl.recs
    /\ (Hot(jrnl) /\ Hot(jdisk)) \/ (loose = {} /\ sizes = {Len(file)} /\ file = Committed)

-----------------------------------------------------------------------------
\* A process's cache

Agrees(p, f) == \A i \in DOMAIN cache[p] \ dirty[p] : i <= Len(f) /\ cache[p][i] = f[i]

\* Its version tells whether the cache of a process without a lock is current: every
\* commit has a counter no cache has seen.
Keeps(p) ==
    DOMAIN cache[p] # {} =>
        /\ vers[p].ctr <= Committed[1].ctr
        /\ vers[p] = VersOf(Committed[1]) => Agrees(p, Committed)

Current(p) == vers[p] = VersOf(Committed[1]) /\ Agrees(p, Committed)

OldTxns(i) == IF i <= Len(Committed) THEN Committed[i].txns ELSE {}
Mixed(txns, i) == txns \in {OldTxns(i), OldTxns(i) \cup {next}}

\* The pages changed so far.  New ones follow on the last of the file.
Changed(p) ==
    /\ dirty[p] \subseteq DOMAIN cache[p]
    /\ \A i \in dirty[p] : Mixed(cache[p][i].txns, i)
    /\ \A i \in dirty[p] : (Len(file) + 1) .. i \subseteq dirty[p]
    /\ \E m \in {Len(file)} \cup dirty[p] : \A i \in {Len(file)} \cup dirty[p] : i <= m

\* The journal has what the changed pages were.
Journals(p) ==
    /\ jrnl.by = next /\ jrnl.orig = Len(file) /\ file = Committed
    /\ Pgs(jrnl) = {i \in dirty[p] : i <= Len(file)}
    /\ \A k \in 1 .. Len(jrnl.recs) : jrnl.recs[k].was = file[jrnl.recs[k].pg]

Counted(p) == 1 \in dirty[p] /\ cache[p][1].ctr > Committed[1].ctr

-----------------------------------------------------------------------------
\* What a process may rely on at each step

Unjournalled == {"idle", "shared", "end", "access", "check", "npage", "stale", "firstByte",
                 "hotLock", "version", "deleteStale", "hotOpen", "hotSync", "truncate",
                 "play", "playSync", "hotDelete", "unlock", "unreserve"}
Preparing == {"modify", "exclusive", "counter", "journalSync", "header", "headerSync"}
Undoing == {"undoTruncate", "undo", "undoSync"}
Stamped == Preparing \cup {"pages", "dbSync", "delete"} \cup Undoing

Reading(p) ==
    IF At(p, "read")
    THEN Len(got[p]) <= Len(file) /\ \A i \in 1 .. Len(got[p]) : got[p][i] = Committed[i].txns
    ELSE At(p, "end") \/ got[p] = <<>>

CacheInv(p) ==
    /\ pc[p] \in Unjournalled => Keeps(p)
    /\ At(p, "page1") => DOMAIN cache[p] = {} \/ Current(p)
    /\ pc[p] \in {"read", "reserve"} \cup Preparing => Current(p)
    /\ dirty[p] # {} => pc[p] \in Preparing \cup {"pages"}

PreparingInv(p) ==
    /\ pc[p] \in Preparing => Changed(p) /\ (dirty[p] # {} => Journals(p))
    /\ pc[p] \in Preparing \ {"modify", "exclusive"} => dirty[p] # {}
    /\ pc[p] \in {"journalSync", "header", "headerSync"} => Counted(p)
    /\ pc[p] \in {"journalSync", "header"} => ~ Hot(jrnl)
    /\ At(p, "header") => jdisk = jrnl
    /\ At(p, "headerSync") => Hot(jrnl) /\ ~ Hot(jdisk)
    /\ pc[p] \in Stamped => next > 0 /\ \A i \in 1 .. Len(Committed) : next \notin Committed[i].txns

\* Past the point where the journal is safe: the cache is what the file is to be.
WritingInv(p) ==
    pc[p] \in {"pages", "dbSync"} =>
        /\ Hot(jrnl) /\ jdisk = jrnl
        /\ Changed(p) /\ Agrees(p, file)
        /\ At(p, "dbSync") => dirty[p] = {}
        /\ jrnl.orig <= Len(file)
        /\ {i \in dirty[p] : i <= jrnl.orig} \subseteq Pgs(jrnl)
        /\ 1 \in Pgs(jrnl) /\ 1 \in DOMAIN cache[p]
        /\ IF 1 \in dirty[p] THEN Counted(p)
           ELSE file[1].ctr > Committed[1].ctr /\ vers[p] = VersOf(file[1])
        /\ \A i \in 1 .. Len(file) : Mixed(file[i].txns, i)

\* On the way back each page is the old one, or its record is still to come.
Played(p, i) ==
    /\ At(p, "undo")
    /\ \E k \in 1 .. todo[p] - 1 : k <= Len(jrnl.recs) /\ jrnl.recs[k].pg = i

UndoingInv(p) ==
    /\ pc[p] \in {"play", "undo"} =>
           /\ Len(file) = jrnl.orig
           /\ \A k \in 1 .. todo[p] - 1 :
                  k <= Len(jrnl.recs) /\ file[jrnl.recs[k].pg] = jrnl.recs[k].was
    /\ pc[p] \in {"truncate", "play"} \cup Undoing => Hot(jrnl)
    /\ pc[p] \in {"truncate", "play", "playSync", "hotDelete"} \cup Undoing => jdisk = jrnl
    /\ pc[p] \in {"playSync", "hotDelete", "undoSync"} => file = Committed
    /\ pc[p] \in {"hotDelete", "delete"} => loose = {} /\ sizes = {Len(file)}
    /\ At(p, "play") => jrnl.recs = <<>> \/ DOMAIN cache[p] = {}
    /\ pc[p] \in Undoing =>
           /\ 1 \in Pgs(jrnl) /\ 1 \in DOMAIN cache[p]
           /\ \A i \in DOMAIN cache[p] : i <= jrnl.orig
           /\ \A i \in DOMAIN cache[p] :
                  i \notin Pgs(jrnl) \/ Played(p, i) \/ At(p, "undoSync") =>
                      cache[p][i] = Committed[i]
           /\ Played(p, 1) \/ At(p, "undoSync") => vers[p] = VersOf(Committed[1])

\* The file is the new database or again the old one.
DoneInv(p) ==
    At(p, "delete") =>
        /\ Agrees(p, file) /\ vers[p] = VersOf(file[1])
        /\ file = Committed \/ (file[1].ctr > Committed[1].ctr /\ jdisk = jrnl)
        /\ Len(Committed) <= Len(file)
        /\ \A i \in 1 .. Len(file) : Mixed(file[i].txns, i)

ProcInv(p) ==
    /\ Reading(p) /\ CacheInv(p)
    /\ PreparingInv(p) /\ WritingInv(p) /\ UndoingInv(p) /\ DoneInv(p)

DataInv == DataTypes /\ FilesInv /\ \A p \in Procs : ProcInv(p)

\* The inductive invariant.
Inductive == IInv /\ (OldPages > 0 => DataInv)
=============================================================================
