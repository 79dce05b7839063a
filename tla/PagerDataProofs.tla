--------------------------- MODULE PagerDataProofs ---------------------------
(***************************************************************************)
(* Proofs about the pager's data, for a database that has a page: Pager    *)
(* implements AtomicDb, through kills, I/O errors and power failures, and  *)
(* a cache that passed the version check is the database.                  *)
(***************************************************************************)
EXTENDS PagerInv, PagerProofs, SequenceTheorems

\* Functions on 1 .. n are sequences of that length.
LEMMA SeqIs ==
    ASSUME NEW S, NEW n \in Nat, NEW f \in [1 .. n -> S]
    PROVE  f \in Seq(S) /\ Len(f) = n /\ DOMAIN f = 1 .. n
<1>1. f \in Seq(S)
  BY SeqDef
<1>2. Len(f) \in Nat /\ DOMAIN f = 1 .. Len(f)
  BY <1>1, LenProperties
<1>3. DOMAIN f = 1 .. n
  OBVIOUS
<1> QED
  BY <1>1, <1>2, <1>3

\* A sequence is a function on the numbers up to its length.
LEMMA SeqHas ==
    ASSUME NEW S, NEW s \in Seq(S)
    PROVE  /\ Len(s) \in Nat /\ DOMAIN s = 1 .. Len(s) /\ s \in [1 .. Len(s) -> S]
           /\ \A i \in 1 .. Len(s) : s[i] \in S
BY LenProperties, Zenon

\* Sequences of the same length and elements are the same.
LEMMA SeqSame ==
    ASSUME NEW S, NEW s \in Seq(S), NEW t \in Seq(S), Len(s) = Len(t),
           \A i \in 1 .. Len(s) : s[i] = t[i]
    PROVE  s = t
<1>1. s \in [1 .. Len(s) -> S] /\ t \in [1 .. Len(s) -> S]
  BY SeqHas
<1> QED
  BY <1>1

-----------------------------------------------------------------------------
\* What a journal makes of a file

Journal == [by : Nat, hdr : BOOLEAN, orig : Nat, recs : Seq(RecordType)]

Distinct(j) == \A k, l \in 1 .. Len(j.recs) : j.recs[k].pg = j.recs[l].pg => k = l
NoneTorn(j) == \A k \in 1 .. Len(j.recs) : 0 \notin j.recs[k].was.txns

PageOf(f, i) == IF i <= Len(f) THEN f[i] ELSE Zero

JournalTyped(j) ==
    j.by \in Nat /\ j.hdr \in BOOLEAN /\ j.orig \in Nat /\ j.recs \in Seq(RecordType)

\* The page of zeros and the torn page are pages.
LEMMA ZeroTyped == Zero \in PageType /\ Torn \in PageType /\ Zero.txns = {} /\ 0 \in Torn.txns
BY DEF Zero, Torn, PageType

\* What a journal holds are records.
LEMMA RecordTyped ==
    ASSUME NEW j, JournalTyped(j), NEW k \in 1 .. Len(j.recs)
    PROVE  /\ Len(j.recs) \in Nat
           /\ j.recs[k] \in RecordType /\ j.recs[k].pg \in Nat \ {0} /\ j.recs[k].was \in PageType
<1>1. Len(j.recs) \in Nat /\ j.recs[k] \in RecordType
  BY SeqHas DEF JournalTyped
<1> QED
  BY <1>1 DEF RecordType

\* Of a journal without a torn record all is played back.
LEMMA WholeIsAll ==
    ASSUME NEW j, NoneTorn(j)
    PROVE  Whole(j) = 1 .. Len(j.recs)
<1>1. \A k \in 1 .. Len(j.recs) : j.recs[k].was # Torn
  BY ZeroTyped DEF NoneTorn
<1> QED
  BY <1>1 DEF Whole

\* Played back, a journal without a torn record gives each page it has a record of
\* what that says, and leaves the others.
LEMMA ReplayedIs ==
    ASSUME NEW f \in Seq(PageType), NEW j, JournalTyped(j), Distinct(j), NoneTorn(j), Hot(j)
    PROVE  /\ Replayed(f, j) \in Seq(PageType) /\ Len(Replayed(f, j)) = j.orig
           /\ \A k \in 1 .. Len(j.recs) :
                  j.recs[k].pg <= j.orig => Replayed(f, j)[j.recs[k].pg] = j.recs[k].was
           /\ \A i \in (1 .. j.orig) \ Pgs(j) : Replayed(f, j)[i] = PageOf(f, i)
<1> DEFINE R == Replayed(f, j)
           D == 1 .. Len(j.recs)
           e(i) == IF \E k \in D : j.recs[k].pg = i
                   THEN j.recs[CHOOSE k \in D : j.recs[k].pg = i].was
                   ELSE PageOf(f, i)
<1>0. j.orig \in Nat
  BY DEF JournalTyped
<1>1. R = [i \in 1 .. j.orig |-> e(i)]
  <2>1. R = [i \in 1 .. j.orig |->
                IF \E k \in D : j.recs[k].pg = i
                THEN j.recs[CHOOSE k \in D : j.recs[k].pg = i].was
                ELSE Resized(f, j.orig)[i]]
    BY WholeIsAll, Zenon DEF Replayed
  <2>2. \A i \in 1 .. j.orig : Resized(f, j.orig)[i] = PageOf(f, i)
    BY DEF Resized, PageOf
  <2> QED
    BY <2>1, <2>2
<1>2. ASSUME NEW k \in D PROVE e(j.recs[k].pg) = j.recs[k].was
  <2> DEFINE c == CHOOSE l \in D : j.recs[l].pg = j.recs[k].pg
  <2>1. c \in D /\ j.recs[c].pg = j.recs[k].pg
    OBVIOUS
  <2>2. c = k
    BY <2>1 DEF Distinct
  <2> QED
    BY <2>1, <2>2
<1>3. \A i : i \notin Pgs(j) => e(i) = PageOf(f, i)
  BY DEF Pgs
<1>4. \A i \in 1 .. j.orig : e(i) \in PageType
  <2> SUFFICES ASSUME NEW i \in 1 .. j.orig PROVE e(i) \in PageType
    OBVIOUS
  <2>1. CASE \E k \in D : j.recs[k].pg = i
    <3>1. PICK k \in D : j.recs[k].pg = i
      BY <2>1
    <3>2. e(j.recs[k].pg) = j.recs[k].was
      BY <1>2
    <3> HIDE DEF e
    <3>3. e(i) = j.recs[k].was
      BY <3>1, <3>2
    <3> QED
      BY <3>3, RecordTyped
  <2>2. CASE ~ \E k \in D : j.recs[k].pg = i
    <3>1. PageOf(f, i) \in PageType
      BY SeqHas, ZeroTyped DEF PageOf
    <3> QED
      BY <2>2, <3>1
  <2> QED
    BY <2>1, <2>2
<1> HIDE DEF e
<1>5. R \in [1 .. j.orig -> PageType]
  BY <1>1, <1>4
<1>6. R \in Seq(PageType) /\ Len(R) = j.orig
  BY <1>0, <1>5, SeqIs
<1>7. ASSUME NEW k \in D, j.recs[k].pg <= j.orig PROVE R[j.recs[k].pg] = j.recs[k].was
  <2>1. j.recs[k].pg \in 1 .. j.orig
    BY <1>0, <1>7, RecordTyped
  <2> QED
    BY <1>1, <1>2, <2>1
<1>8. ASSUME NEW i \in (1 .. j.orig) \ Pgs(j) PROVE R[i] = PageOf(f, i)
  BY <1>1, <1>3
<1> QED
  BY <1>6, <1>7, <1>8

\* Two files that differ only in pages with a record come to the same.
LEMMA ReplayedSame ==
    ASSUME NEW f \in Seq(PageType), NEW g \in Seq(PageType),
           NEW j, JournalTyped(j), Distinct(j), NoneTorn(j), Hot(j),
           \A i \in (1 .. j.orig) \ Pgs(j) : PageOf(f, i) = PageOf(g, i)
    PROVE  Replayed(f, j) = Replayed(g, j)
<1> DEFINE R == Replayed(f, j)
           Q == Replayed(g, j)
<1>1. /\ R \in Seq(PageType) /\ Len(R) = j.orig
      /\ \A k \in 1 .. Len(j.recs) : j.recs[k].pg <= j.orig => R[j.recs[k].pg] = j.recs[k].was
      /\ \A i \in (1 .. j.orig) \ Pgs(j) : R[i] = PageOf(f, i)
  BY ReplayedIs
<1>2. /\ Q \in Seq(PageType) /\ Len(Q) = j.orig
      /\ \A k \in 1 .. Len(j.recs) : j.recs[k].pg <= j.orig => Q[j.recs[k].pg] = j.recs[k].was
      /\ \A i \in (1 .. j.orig) \ Pgs(j) : Q[i] = PageOf(g, i)
  BY ReplayedIs
<1> HIDE DEF R, Q
<1>3. ASSUME NEW i \in 1 .. j.orig PROVE R[i] = Q[i]
  <2>1. CASE i \in Pgs(j)
    <3>1. PICK k \in 1 .. Len(j.recs) : j.recs[k].pg = i
      BY <2>1 DEF Pgs
    <3>2. j.recs[k].pg <= j.orig
      BY <3>1
    <3>3. R[j.recs[k].pg] = j.recs[k].was /\ Q[j.recs[k].pg] = j.recs[k].was
      BY <1>1, <1>2, <3>2
    <3> QED
      BY <3>1, <3>3
  <2>2. CASE i \notin Pgs(j)
    BY <1>1, <1>2, <2>2
  <2> QED
    BY <2>1, <2>2
<1>4. R = Q
  BY <1>1, <1>2, <1>3, SeqSame
<1> QED
  BY <1>4 DEF R, Q

\* Journals that differ in what does not count come to the same.
LEMMA ReplayedLike ==
    ASSUME NEW f, NEW i, NEW j, Hot(i), Hot(j), i.orig = j.orig, i.recs = j.recs
    PROVE  Replayed(f, i) = Replayed(f, j)
BY DEF Replayed, Whole

-----------------------------------------------------------------------------
\* The two journals and the two databases they stand for

\* What playing back relies on holds of both journals.
LEMMA JournalFacts ==
    ASSUME DataTypes, FilesInv, NEW j \in {jrnl, jdisk}
    PROVE  /\ JournalTyped(j) /\ Distinct(j) /\ \A k \in 1 .. Len(j.recs) : j.recs[k].pg <= j.orig
           /\ Hot(j) => NoneTorn(j) /\ j.orig \in 1 .. MaxPages
           /\ Hot(j) => \A i \in (1 .. j.orig) \ Pgs(j) : i \notin loose /\ i <= Len(file)
<1>1. JournalTyped(j)
  BY DEF DataTypes, JournalTyped
<1>2. JournalSound(j) /\ Len(file) \in sizes
  BY DEF FilesInv, DataTypes
<1> QED
  BY <1>1, <1>2 DEF JournalSound, Distinct, NoneTorn

\* What a journal restores is a database of at least one page.
LEMMA RestoredIs ==
    ASSUME DataTypes, FilesInv, NEW j \in {jrnl, jdisk}
    PROVE  /\ Restored(j) \in Seq(PageType) /\ Len(Restored(j)) \in 1 .. MaxPages
           /\ ~ Hot(j) => Restored(j) = file
           /\ Hot(j) => /\ Len(Restored(j)) = j.orig
                        /\ \A k \in 1 .. Len(j.recs) : Restored(j)[j.recs[k].pg] = j.recs[k].was
                        /\ \A i \in (1 .. j.orig) \ Pgs(j) : Restored(j)[i] = file[i]
<1>0. file \in Seq(PageType) /\ Len(file) \in 1 .. MaxPages
  BY DEF DataTypes
<1>1. CASE ~ Hot(j)
  BY <1>0, <1>1 DEF Restored, Replayed
<1>2. CASE Hot(j)
  <2>1. /\ JournalTyped(j) /\ Distinct(j) /\ NoneTorn(j) /\ j.orig \in 1 .. MaxPages
        /\ \A k \in 1 .. Len(j.recs) : j.recs[k].pg <= j.orig
        /\ \A i \in (1 .. j.orig) \ Pgs(j) : i <= Len(file)
    BY <1>2, JournalFacts
  <2>2. /\ Replayed(file, j) \in Seq(PageType) /\ Len(Replayed(file, j)) = j.orig
        /\ \A k \in 1 .. Len(j.recs) :
               j.recs[k].pg <= j.orig => Replayed(file, j)[j.recs[k].pg] = j.recs[k].was
        /\ \A i \in (1 .. j.orig) \ Pgs(j) : Replayed(file, j)[i] = PageOf(file, i)
    BY <1>0, <1>2, <2>1, ReplayedIs
  <2>3. \A i \in (1 .. j.orig) \ Pgs(j) : PageOf(file, i) = file[i]
    BY <2>1 DEF PageOf
  <2> HIDE DEF Hot
  <2> QED
    BY <1>2, <2>1, <2>2, <2>3 DEF Restored
<1> QED
  BY <1>1, <1>2

\* So is the committed database.
LEMMA CommittedIs ==
    ASSUME DataTypes, FilesInv
    PROVE  /\ Committed \in Seq(PageType) /\ Len(Committed) \in 1 .. MaxPages
           /\ ~ Hot(jrnl) => Committed = file
           /\ Hot(jrnl) => /\ Len(Committed) = jrnl.orig
                           /\ \A k \in 1 .. Len(jrnl.recs) :
                                  Committed[jrnl.recs[k].pg] = jrnl.recs[k].was
                           /\ \A i \in (1 .. jrnl.orig) \ Pgs(jrnl) : Committed[i] = file[i]
           /\ \A i \in 1 .. Len(Committed) : Committed[i] \in PageType
           /\ Committed[1].ctr \in Nat
<1>1. \A i \in 1 .. Len(Committed) : Committed[i] \in PageType
  BY RestoredIs, SeqHas DEF Committed
<1>2. Committed[1] \in PageType
  BY <1>1, RestoredIs DEF Committed
<1> QED
  BY <1>1, <1>2, RestoredIs DEF Committed, PageType

-----------------------------------------------------------------------------
\* Steps of one process, as the others see them

\* What belongs to q alone is as it was.
Same(q) ==
    /\ pc'[q] = pc[q] /\ cache'[q] = cache[q] /\ dirty'[q] = dirty[q] /\ vers'[q] = vers[q]
    /\ got'[q] = got[q] /\ todo'[q] = todo[q]

\* What stands on the files stays as long as they do.
LEMMA FilesKept ==
    ASSUME FilesInv, UNCHANGED <<files, next>>
    PROVE  /\ FilesInv'
           /\ Committed' = Committed /\ Restored(jdisk)' = Restored(jdisk)
<1> USE DEF files
<1>1. Committed' = Committed /\ Restored(jdisk)' = Restored(jdisk)
  BY DEF Committed, Restored
<1>2. FilesInv'
  BY <1>1 DEF FilesInv, JournalSound, Sound
<1> QED
  BY <1>1, <1>2

\* So does what a process may rely on, if its own state stays.
LEMMA Unaffected ==
    ASSUME FilesInv, UNCHANGED <<files, next>>, NEW q \in Procs, ProcInv(q), Same(q)
    PROVE  ProcInv(q)'
<1>0. UNCHANGED <<file, loose, sizes, jrnl, jdisk, next>> /\ Committed' = Committed
  BY FilesKept DEF files
<1>a. /\ pc'[q] = pc[q] /\ cache'[q] = cache[q] /\ dirty'[q] = dirty[q] /\ vers'[q] = vers[q]
      /\ got'[q] = got[q] /\ todo'[q] = todo[q]
  BY DEF Same
<1> USE DEF ProcInv, At
<1>1. Reading(q)'
  BY <1>0, <1>a DEF Reading
<1>2. CacheInv(q)'
  BY <1>0, <1>a DEF CacheInv, Keeps, Current, Agrees
<1>3. PreparingInv(q)'
  BY <1>0, <1>a DEF PreparingInv, Changed, Mixed, OldTxns, Journals, Counted
<1>4. WritingInv(q)'
  BY <1>0, <1>a DEF WritingInv, Changed, Mixed, OldTxns, Agrees, Counted
<1>5. UndoingInv(q)'
  BY <1>0, <1>a DEF UndoingInv, Played
<1>6. DoneInv(q)'
  BY <1>0, <1>a DEF DoneInv, Mixed, OldTxns, Agrees
<1> QED
  BY <1>1, <1>2, <1>3, <1>4, <1>5, <1>6

\* A process without RESERVED depends on the committed pages, and if it reads on the file.
Bystanding == {"idle", "shared", "end", "access", "check", "npage", "stale", "firstByte",
               "hotLock", "version", "page1", "read", "reserve"}

LEMMA Bystander ==
    ASSUME NEW q \in Procs, ProcInv(q), Same(q), pc[q] \in Bystanding,
           Committed' = Committed, file' = file \/ pc[q] \in {"idle", "shared"}
    PROVE  ProcInv(q)'
<1>a. /\ pc'[q] = pc[q] /\ cache'[q] = cache[q] /\ dirty'[q] = dirty[q] /\ vers'[q] = vers[q]
      /\ got'[q] = got[q] /\ todo'[q] = todo[q]
  BY DEF Same
<1> USE DEF ProcInv, At, Bystanding, Preparing, Undoing, Stamped
<1>1. Reading(q)'
  BY <1>a DEF Reading
<1>2. CacheInv(q)'
  BY <1>a DEF CacheInv, Keeps, Current, Agrees
<1>3. PreparingInv(q)' /\ WritingInv(q)' /\ UndoingInv(q)' /\ DoneInv(q)'
  BY <1>a DEF PreparingInv, WritingInv, UndoingInv, DoneInv
<1> QED
  BY <1>1, <1>2, <1>3

\* RESERVED and EXCLUSIVE keep the others from where they would notice.
LEMMA OthersAway ==
    ASSUME IInv, NEW p \in Procs, NEW q \in Procs, p # q
    PROVE  /\ lock[p] \in {L!RESERVED_LOCK, L!EXCLUSIVE_LOCK} => pc[q] \in Bystanding
           /\ lock[p] = L!EXCLUSIVE_LOCK => pc[q] \in {"idle", "shared"}
BY DEF IInv, LocksMatch, L!Exclusion, L!NO_LOCK, L!SHARED_LOCK, L!RESERVED_LOCK,
       L!EXCLUSIVE_LOCK, L!Granted, Sharing, Reserving, Repairing, Writing, Releasing, Bystanding

\* A step that leaves the files alone keeps the invariant if it keeps its own part.
LEMMA OwnStep ==
    ASSUME DataInv, NEW p \in Procs, UNCHANGED <<files, next>>,
           \A q \in Procs \ {p} : Same(q), DataTypes', ProcInv(p)'
    PROVE  DataInv' /\ Committed' = Committed /\ Restored(jdisk)' = Restored(jdisk)
<1>1. FilesInv' /\ Committed' = Committed /\ Restored(jdisk)' = Restored(jdisk)
  BY FilesKept DEF DataInv
<1>2. ASSUME NEW q \in Procs PROVE ProcInv(q)'
  BY Unaffected DEF DataInv
<1> QED
  BY <1>1, <1>2 DEF DataInv

-----------------------------------------------------------------------------
\* Steps that change what p does next and no file

\* A cache that is current is one that its version tells the truth about.
LEMMA CurrentKeeps ==
    ASSUME DataTypes, FilesInv, NEW p \in Procs, Current(p)
    PROVE  Keeps(p)
<1>1. vers[p].ctr = Committed[1].ctr /\ Committed[1].ctr \in Nat
  BY CommittedIs DEF Current, VersOf
<1> QED
  BY <1>1 DEF Current, Keeps

\* Nothing of what p has changes, but for its next step.
LEMMA Passive ==
    ASSUME DataInv, NEW p \in Procs, UNCHANGED <<files, memory, next>>,
           kind' \in [Procs -> {"none", "read", "write"}],
           \A q \in Procs \ {p} : pc'[q] = pc[q],
           dirty[p] = {},
           pc[p] \in Unjournalled \cup {"page1", "read", "reserve"} \cup Preparing,
           pc'[p] \in Unjournalled \ {"truncate", "play", "playSync", "hotDelete"},
           pc'[p] = "end" \/ pc[p] \notin {"read", "end"}
    PROVE  DataInv' /\ Committed' = Committed /\ Restored(jdisk)' = Restored(jdisk)
<1>0. /\ UNCHANGED <<file, loose, sizes, jrnl, jdisk, cache, dirty, vers, got, todo, next>>
      /\ Committed' = Committed
  BY FilesKept DEF files, memory, DataInv
<1>1. DataTypes'
  BY <1>0 DEF DataInv, DataTypes
<1>2. \A q \in Procs \ {p} : Same(q)
  BY <1>0 DEF Same
<1>3. ProcInv(p)
  BY DEF DataInv
<1>4. Keeps(p)'
  <2>1. Keeps(p)
    <3>1. pc[p] \in Unjournalled \/ pc[p] \in {"read", "reserve"} \cup Preparing => Keeps(p)
      BY <1>3, CurrentKeeps DEF ProcInv, CacheInv, DataInv
    <3>2. pc[p] = "page1" => Keeps(p)
      BY <1>3, CurrentKeeps DEF ProcInv, CacheInv, DataInv, Keeps, At
    <3> QED
      BY <3>1, <3>2
  <2> QED
    BY <1>0, <2>1 DEF Keeps, Agrees
<1>5. ProcInv(p)'
  <2>1. Reading(p)'
    BY <1>0, <1>3 DEF ProcInv, Reading, At, Unjournalled
  <2>2. CacheInv(p)'
    BY <1>0, <1>4 DEF CacheInv, At, Unjournalled, Preparing
  <2>3. (PreparingInv(p) /\ WritingInv(p) /\ UndoingInv(p) /\ DoneInv(p))'
    BY DEF PreparingInv, WritingInv, UndoingInv, DoneInv, Unjournalled, Preparing, Undoing,
           Stamped, At
  <2> QED
    BY <2>1, <2>2, <2>3 DEF ProcInv
<1> QED
  BY <1>1, <1>2, <1>5, <1>0, OwnStep DEF files

\* A writer whose journal, cache and file stay goes on preparing.
LEMMA Prepares ==
    ASSUME DataInv, NEW p \in Procs, UNCHANGED <<files, memory, next, kind>>,
           \A q \in Procs \ {p} : pc'[q] = pc[q],
           pc[p] \in {"modify", "exclusive"}, pc'[p] \in {"exclusive", "counter"},
           pc'[p] = "counter" => dirty[p] # {}
    PROVE  DataInv' /\ Committed' = Committed /\ Restored(jdisk)' = Restored(jdisk)
<1>0. /\ UNCHANGED <<file, loose, sizes, jrnl, jdisk, cache, dirty, vers, got, todo, next, kind>>
      /\ Committed' = Committed
  BY FilesKept DEF files, memory, DataInv
<1>1. DataTypes'
  BY <1>0 DEF DataInv, DataTypes
<1>2. \A q \in Procs \ {p} : Same(q)
  BY <1>0 DEF Same
<1>3. ProcInv(p)
  BY DEF DataInv
<1>4. ProcInv(p)'
  <2>1. Reading(p)'
    BY <1>0, <1>3 DEF ProcInv, Reading, At
  <2>2. CacheInv(p)'
    BY <1>0, <1>3 DEF ProcInv, CacheInv, At, Unjournalled, Preparing, Current, Agrees
  <2>3. PreparingInv(p)'
    BY <1>0, <1>3 DEF ProcInv, PreparingInv, Changed, Mixed, OldTxns, Journals, Preparing,
                      Undoing, Stamped, At
  <2>4. (WritingInv(p) /\ UndoingInv(p) /\ DoneInv(p))'
    BY DEF WritingInv, UndoingInv, DoneInv, Undoing, At
  <2> QED
    BY <2>1, <2>2, <2>3, <2>4 DEF ProcInv
<1> QED
  BY <1>0, <1>1, <1>2, <1>4, OwnStep DEF files

\* The database stays, and a power failure can bring no other one back than before.
Kept ==
    /\ DataInv' /\ Committed' = Committed
    /\ Restored(jdisk)' \in {Restored(jdisk), Committed}

\* The steps that look at files and locks.
LEMMA KeptBeginning ==
    ASSUME IInv, DataInv, NEW p \in Procs,
           \/ \E k \in {"read", "write"} : Begin(p, k)
           \/ Shared(p) \/ Access(p) \/ Check(p) \/ NPage(p) \/ Stale(p)
           \/ FirstByte(p) \/ HotLock(p) \/ HotOpen(p) \/ Unreserve(p)
           \/ EndRead(p) \/ Unlock(p)
    PROVE  Kept
<1>1. /\ pc \in [Procs -> {"idle", "shared", "end"} \cup Sharing \cup Reserving
                              \cup Repairing \cup Writing \cup Releasing]
      /\ kind \in [Procs -> {"none", "read", "write"}]
      /\ pc[p] = "stale" => file = <<>>
      /\ file # <<>>
  BY DEF IInv, LocksMatch, StepsKnow, DataInv, DataTypes
<1>2. /\ UNCHANGED <<files, memory, next>> /\ kind' \in [Procs -> {"none", "read", "write"}]
      /\ \A q \in Procs \ {p} : pc'[q] = pc[q]
      /\ pc[p] \in Unjournalled \cup {"read"}
      /\ pc'[p] \in Unjournalled \ {"truncate", "play", "playSync", "hotDelete"}
      /\ pc'[p] = "end" \/ pc[p] \notin {"read", "end"}
  <2> USE <1>1 DEF At, Go, Unjournalled
  <2>1. CASE \E k \in {"read", "write"} : Begin(p, k)
    BY <2>1 DEF Begin
  <2>2. CASE Shared(p)
    BY <2>2 DEF Shared, Look
  <2>3. CASE Access(p)
    BY <2>3 DEF Access, Look
  <2>4. CASE Check(p)
    BY <2>4 DEF Check, Look
  <2>5. CASE NPage(p)
    BY <2>5 DEF NPage, Look
  <2>6. CASE Stale(p)
    BY <2>6 DEF Stale
  <2>7. CASE FirstByte(p)
    BY <2>7 DEF FirstByte, Look
  <2>8. CASE HotLock(p)
    BY <2>8 DEF HotLock, Look
  <2>9. CASE HotOpen(p)
    BY <2>9 DEF HotOpen, Look
  <2>10. CASE Unreserve(p)
    BY <2>10 DEF Unreserve, Look
  <2>11. CASE EndRead(p)
    BY <2>11 DEF EndRead, Look
  <2>12. CASE Unlock(p)
    BY <2>12 DEF Unlock, Look
  <2> QED
    BY <2>1, <2>2, <2>3, <2>4, <2>5, <2>6, <2>7, <2>8, <2>9, <2>10, <2>11, <2>12
<1>3. dirty[p] = {}
  BY <1>2 DEF DataInv, ProcInv, CacheInv, Unjournalled, Preparing
<1> QED
  BY <1>2, <1>3, Passive DEF Kept

\* Finish, and the waits for locks.
LEMMA KeptWaiting ==
    ASSUME IInv, DataInv, NEW p \in Procs,
           \/ Finish(p) \/ Exclusive(p) \/ BusyWait(p)
           \/ BusyGiveUp(p) /\ ~ At(p, "exclusive")
           \/ (BusyGiveUp(p) \/ Fail(p)) /\ dirty[p] = {}
    PROVE  Kept
<1>0. /\ pc \in [Procs -> {"idle", "shared", "end"} \cup Sharing \cup Reserving
                              \cup Repairing \cup Writing \cup Releasing]
      /\ kind \in [Procs -> {"none", "read", "write"}]
  BY DEF IInv, LocksMatch, DataInv, DataTypes
<1>1. UNCHANGED <<files, memory, next>> /\ \A q \in Procs \ {p} : pc'[q] = pc[q]
  <2> USE <1>0 DEF At, Go
  <2>1. CASE Finish(p) \/ Exclusive(p) \/ BusyWait(p)
    BY <2>1 DEF Finish, Exclusive, BusyWait, Look
  <2>2. CASE BusyGiveUp(p) /\ (~ At(p, "exclusive") \/ dirty[p] = {})
    BY <2>2 DEF BusyGiveUp, Rollback, Close, memory
  <2>3. CASE Fail(p) /\ dirty[p] = {}
    BY <2>3 DEF Fail, Rollback, memory
  <2> QED
    BY <2>1, <2>2, <2>3
<1>2. kind' \in [Procs -> {"none", "read", "write"}]
  <2> USE <1>0 DEF At, Go
  <2>1. CASE Finish(p) \/ Exclusive(p) \/ BusyWait(p)
    BY <2>1 DEF Finish, Exclusive, BusyWait, Look
  <2>2. CASE BusyGiveUp(p)
    BY <2>2 DEF BusyGiveUp, Rollback, Close
  <2>3. CASE Fail(p)
    BY <2>3 DEF Fail, Rollback
  <2> QED
    BY <2>1, <2>2, <2>3
<1>3. \/ /\ pc[p] \in {"shared", "hotLock", "reserve", "modify", "exclusive", "counter",
                       "journalSync", "header", "headerSync"}
         /\ pc'[p] \in {"shared", "idle", "unlock"} /\ dirty[p] = {}
      \/ /\ pc[p] \in {"modify", "exclusive"} /\ pc'[p] \in {"exclusive", "counter"}
         /\ pc'[p] = "counter" => dirty[p] # {}
         /\ UNCHANGED kind
  <2> USE <1>0 DEF At, Go
  <2>0. pc[p] \in {"shared", "hotLock", "reserve"} => dirty[p] = {}
    BY DEF DataInv, ProcInv, CacheInv, Preparing
  <2>1. CASE Finish(p) \/ Exclusive(p)
    BY <2>1 DEF Finish, Exclusive, Look
  <2>2. CASE BusyWait(p)
    BY <2>0, <2>2 DEF BusyWait, Asking, Backs
  <2>3. CASE BusyGiveUp(p) /\ (~ At(p, "exclusive") \/ dirty[p] = {})
    BY <2>0, <2>3 DEF BusyGiveUp, Rollback, Close, Asking
  <2>4. CASE Fail(p) /\ dirty[p] = {}
    BY <2>4 DEF Fail, Rollback
  <2> QED
    BY <2>1, <2>2, <2>3, <2>4
<1>4. CASE /\ pc[p] \in {"shared", "hotLock", "reserve", "modify", "exclusive", "counter",
                         "journalSync", "header", "headerSync"}
           /\ pc'[p] \in {"shared", "idle", "unlock"} /\ dirty[p] = {}
  BY <1>1, <1>2, <1>4, Passive DEF Kept, Unjournalled, Preparing
<1>5. CASE /\ pc[p] \in {"modify", "exclusive"} /\ pc'[p] \in {"exclusive", "counter"}
           /\ pc'[p] = "counter" => dirty[p] # {}
           /\ UNCHANGED kind
  <2>1. UNCHANGED <<files, memory, next, kind>>
    BY <1>1, <1>5
  <2> QED
    BY <1>1, <1>5, <2>1, Prepares DEF Kept
<1> QED
  BY <1>3, <1>4, <1>5

-----------------------------------------------------------------------------
\* Steps that change what p knows and no file

\* A step that changes one process's cache, version and what it has read.
LEMMA OwnMemory ==
    ASSUME DataInv, NEW p \in Procs, UNCHANGED <<files, next>>,
           \A q \in Procs \ {p} : Same(q),
           DOMAIN cache' = Procs,
           \A i \in DOMAIN cache'[p] : i \in Nat \ {0} /\ cache'[p][i] \in PageType,
           vers' \in [Procs -> [ctr : Int, n : Nat]],
           dirty' \in [Procs -> SUBSET (1 .. MaxPages)],
           got' \in [Procs -> Seq(SUBSET Nat)],
           todo' \in [Procs -> Nat \ {0}],
           kind' \in [Procs -> {"none", "read", "write"}],
           ProcInv(p)'
    PROVE  Kept
<1>1. DataTypes'
  BY DEF DataInv, DataTypes, files, Same
<1> QED
  BY <1>1, OwnStep DEF Kept

\* The version of the file decides whether the cache is kept.
LEMMA KeptVersion ==
    ASSUME IInv, DataInv, NEW p \in Procs, Version(p)
    PROVE  Kept
<1>0. /\ UNCHANGED <<file, loose, sizes, jrnl, jdisk, dirty, vers, got, todo, next, kind>>
      /\ pc[p] = "version" /\ pc' = [pc EXCEPT ![p] = "page1"]
      /\ cache' = [cache EXCEPT ![p] = IF FileVers = vers[p] THEN @ ELSE <<>>]
  BY DEF Version, files, At, Go
<1>1. Committed' = Committed
  BY <1>0, FilesKept DEF files, DataInv
<1>2. DOMAIN pc = Procs /\ DOMAIN cache = Procs
  BY DEF IInv, LocksMatch, DataInv, DataTypes
<1>3. pc'[p] = "page1" /\ cache'[p] = IF FileVers = vers[p] THEN cache[p] ELSE <<>>
  BY <1>0, <1>2
<1>4. file # <<>> /\ ~ Hot(jrnl) /\ Committed = file
  BY <1>0, CommittedIs DEF DataInv, DataTypes, IInv, StepsKnow
<1>5. ProcInv(p) /\ dirty[p] = {}
  BY <1>0 DEF DataInv, ProcInv, CacheInv, Preparing
<1>6. DOMAIN cache'[p] = {} \/ (cache'[p] = cache[p] /\ Current(p))
  <2>1. CASE FileVers = vers[p]
    <3>1. Keeps(p)
      BY <1>0, <1>5 DEF ProcInv, CacheInv, Unjournalled
    <3>2. vers[p] = VersOf(Committed[1])
      BY <1>4, <2>1 DEF FileVers
    <3> QED
      BY <1>3, <2>1, <3>1, <3>2 DEF Keeps, Current
  <2>2. CASE FileVers # vers[p]
    BY <1>3, <2>2
  <2> QED
    BY <2>1, <2>2
<1>7. ProcInv(p)'
  <2>1. Reading(p)'
    BY <1>0, <1>3, <1>5 DEF ProcInv, Reading, At
  <2>2. CacheInv(p)'
    BY <1>0, <1>1, <1>3, <1>5, <1>6
       DEF CacheInv, At, Unjournalled, Preparing, Current, Agrees
  <2>3. (PreparingInv(p) /\ WritingInv(p) /\ UndoingInv(p) /\ DoneInv(p))'
    BY <1>3 DEF PreparingInv, WritingInv, UndoingInv, DoneInv, Preparing, Undoing, Stamped, At
  <2> QED
    BY <2>1, <2>2, <2>3 DEF ProcInv
<1>8. \A q \in Procs \ {p} : Same(q)
  BY <1>0, <1>2 DEF Same
<1>9. \A i \in DOMAIN cache'[p] : i \in Nat \ {0} /\ cache'[p][i] \in PageType
  BY <1>6 DEF DataInv, DataTypes
<1>10. DOMAIN cache' = Procs
  BY <1>0, <1>2
<1>11. UNCHANGED <<files, next>>
  BY <1>0 DEF files
<1>12. /\ vers' \in [Procs -> [ctr : Int, n : Nat]] /\ dirty' \in [Procs -> SUBSET (1 .. MaxPages)]
       /\ got' \in [Procs -> Seq(SUBSET Nat)] /\ todo' \in [Procs -> Nat \ {0}]
       /\ kind' \in [Procs -> {"none", "read", "write"}]
  BY <1>0 DEF DataInv, DataTypes
<1> QED
  BY <1>7, <1>8, <1>9, <1>10, <1>11, <1>12, OwnMemory

\* A page fetched is a page of the database.
LEMMA Fetched ==
    ASSUME DataInv, NEW p \in Procs, NEW i \in 1 .. Len(file), ~ Hot(jrnl), dirty[p] = {},
           Fetch(p, i), Current(p) \/ (DOMAIN cache[p] = {} /\ i = 1)
    PROVE  /\ Page(p, i) = file[i] /\ DOMAIN cache' = Procs
           /\ \A q \in Procs \ {p} : cache'[q] = cache[q] /\ vers'[q] = vers[q]
           /\ \A k \in DOMAIN cache'[p] :
                  k \in 1 .. Len(file) /\ cache'[p][k] = file[k] /\ file[k] \in PageType
           /\ vers' \in [Procs -> [ctr : Int, n : Nat]] /\ vers'[p] = VersOf(file[1])
<1>1. /\ file \in Seq(PageType) /\ DOMAIN cache = Procs
      /\ vers \in [Procs -> [ctr : Int, n : Nat]] /\ Committed = file
      /\ \A k \in DOMAIN cache[p] : k \in Nat \ {0}
  BY CommittedIs DEF DataInv, DataTypes
<1>2. \A k \in 1 .. Len(file) : file[k] \in PageType
  BY <1>1, SeqHas
<1>3. \A k \in DOMAIN cache[p] : k \in 1 .. Len(file) /\ cache[p][k] = file[k]
  BY <1>1 DEF Current, Agrees
<1>4. Page(p, i) = file[i]
  BY <1>3 DEF Page
<1>5. cache'[p] = Put(cache[p], i, file[i])
  BY <1>1, <1>4 DEF Fetch
<1>6. \A k \in DOMAIN cache'[p] : k \in 1 .. Len(file) /\ cache'[p][k] = file[k]
  BY <1>3, <1>5 DEF Put
<1>7. VersOf(file[1]) \in [ctr : Int, n : Nat]
  BY <1>2 DEF PageType, VersOf
<1>8. /\ vers' \in [Procs -> [ctr : Int, n : Nat]] /\ vers'[p] = VersOf(file[1])
      /\ \A q \in Procs \ {p} : vers'[q] = vers[q]
  BY <1>1, <1>7 DEF Fetch, Current
<1>9. DOMAIN cache' = Procs /\ \A q \in Procs \ {p} : cache'[q] = cache[q]
  BY <1>1 DEF Fetch
<1> QED
  BY <1>2, <1>4, <1>6, <1>8, <1>9

\* Page 1 comes with its version, from the file or from a cache that passed.
LEMMA KeptPage1 ==
    ASSUME IInv, DataInv, NEW p \in Procs, Page1(p)
    PROVE  Kept
<1>0. /\ UNCHANGED <<file, loose, sizes, jrnl, jdisk, dirty, got, todo, next, kind>>
      /\ pc[p] = "page1" /\ pc' = [pc EXCEPT ![p] = IF kind[p] = "read" THEN "read" ELSE "reserve"]
      /\ Fetch(p, 1)
  BY DEF Page1, files, At, Go
<1>1. Committed' = Committed
  BY <1>0, FilesKept DEF files, DataInv
<1>2. DOMAIN pc = Procs
  BY DEF IInv, LocksMatch
<1>3. pc'[p] \in {"read", "reserve"} /\ \A q \in Procs \ {p} : pc'[q] = pc[q]
  BY <1>0, <1>2
<1>4. ~ Hot(jrnl) /\ Committed = file /\ Len(file) \in 1 .. MaxPages /\ file # <<>>
  <2>1. Len(file) \in 1 .. MaxPages /\ file # <<>>
    BY DEF DataInv, DataTypes
  <2>2. ~ Hot(jrnl)
    BY <1>0, <2>1 DEF IInv, NoneHot, InsideSteps
  <2> QED
    BY <2>1, <2>2, CommittedIs DEF DataInv
<1>5. ProcInv(p) /\ dirty[p] = {} /\ (Current(p) \/ DOMAIN cache[p] = {}) /\ got[p] = <<>>
  BY <1>0 DEF DataInv, ProcInv, CacheInv, Preparing, Reading, At
<1>6. 1 \in 1 .. Len(file)
  BY <1>4
<1>7. /\ DOMAIN cache' = Procs
      /\ \A q \in Procs \ {p} : cache'[q] = cache[q] /\ vers'[q] = vers[q]
      /\ \A k \in DOMAIN cache'[p] :
             k \in 1 .. Len(file) /\ cache'[p][k] = file[k] /\ file[k] \in PageType
      /\ vers' \in [Procs -> [ctr : Int, n : Nat]] /\ vers'[p] = VersOf(file[1])
  BY <1>0, <1>4, <1>5, <1>6, Fetched
<1>8. ProcInv(p)'
  <2>1. Reading(p)'
    BY <1>0, <1>3, <1>4, <1>5 DEF Reading, At
  <2>2. CacheInv(p)'
    BY <1>0, <1>1, <1>3, <1>4, <1>5, <1>7
       DEF CacheInv, At, Unjournalled, Preparing, Current, Agrees
  <2>3. (PreparingInv(p) /\ WritingInv(p) /\ UndoingInv(p) /\ DoneInv(p))'
    BY <1>3 DEF PreparingInv, WritingInv, UndoingInv, DoneInv, Preparing, Undoing, Stamped, At
  <2> QED
    BY <2>1, <2>2, <2>3 DEF ProcInv
<1>9. \A q \in Procs \ {p} : Same(q)
  BY <1>0, <1>3, <1>7 DEF Same
<1>10. UNCHANGED <<files, next>>
  BY <1>0 DEF files
<1>11. /\ dirty' \in [Procs -> SUBSET (1 .. MaxPages)]
       /\ got' \in [Procs -> Seq(SUBSET Nat)] /\ todo' \in [Procs -> Nat \ {0}]
       /\ kind' \in [Procs -> {"none", "read", "write"}]
  BY <1>0 DEF DataInv, DataTypes
<1>12. \A i \in DOMAIN cache'[p] : i \in Nat \ {0} /\ cache'[p][i] \in PageType
  BY <1>7
<1> QED
  BY <1>7, <1>8, <1>9, <1>10, <1>11, <1>12, OwnMemory

\* A row read is a page of the database.
LEMMA KeptRead ==
    ASSUME IInv, DataInv, NEW p \in Procs, Read(p)
    PROVE  Kept
<1> DEFINE n == Len(got[p])
<1>0. /\ UNCHANGED <<file, loose, sizes, jrnl, jdisk, dirty, pc, todo, next, kind>>
      /\ pc[p] = "read" /\ n < Len(file) /\ Fetch(p, n + 1)
      /\ got' = [got EXCEPT ![p] = Append(@, Page(p, n + 1).txns)]
  BY DEF Read, files, At
<1>1. Committed' = Committed
  BY <1>0, FilesKept DEF files, DataInv
<1>2. got \in [Procs -> Seq(SUBSET Nat)] /\ got[p] \in Seq(SUBSET Nat)
  BY DEF DataInv, DataTypes
<1>3. n \in Nat
  BY <1>2, SeqHas
<1>4. ~ Hot(jrnl) /\ Committed = file /\ Len(file) \in 1 .. MaxPages
  BY <1>0, CommittedIs DEF DataInv, DataTypes, IInv, NoneHot, InsideSteps
<1>5. /\ ProcInv(p) /\ dirty[p] = {} /\ Current(p)
      /\ \A i \in 1 .. n : got[p][i] = Committed[i].txns
  BY <1>0 DEF DataInv, ProcInv, CacheInv, Preparing, Reading, At
<1>6. n + 1 \in 1 .. Len(file)
  BY <1>0, <1>3, <1>4
<1>7. /\ Page(p, n + 1) = file[n + 1] /\ DOMAIN cache' = Procs
      /\ \A q \in Procs \ {p} : cache'[q] = cache[q] /\ vers'[q] = vers[q]
      /\ \A k \in DOMAIN cache'[p] :
             k \in 1 .. Len(file) /\ cache'[p][k] = file[k] /\ file[k] \in PageType
      /\ vers' \in [Procs -> [ctr : Int, n : Nat]] /\ vers'[p] = VersOf(file[1])
  BY <1>0, <1>4, <1>5, <1>6, Fetched
<1>8. file[n + 1].txns \in SUBSET Nat
  <2>1. file[n + 1] \in PageType
    BY <1>6, SeqHas DEF DataInv, DataTypes
  <2> QED
    BY <2>1 DEF PageType
<1>9. /\ got'[p] \in Seq(SUBSET Nat) /\ Len(got'[p]) = n + 1
      /\ \A i \in 1 .. n : got'[p][i] = got[p][i]
      /\ got'[p][n + 1] = file[n + 1].txns
      /\ got' \in [Procs -> Seq(SUBSET Nat)] /\ \A q \in Procs \ {p} : got'[q] = got[q]
  <2>1. got'[p] = Append(got[p], file[n + 1].txns)
    BY <1>0, <1>2, <1>7
  <2>2. got' = [got EXCEPT ![p] = Append(got[p], file[n + 1].txns)]
    BY <1>0, <1>7
  <2> QED
    BY <1>2, <1>8, <2>1, <2>2, AppendProperties
<1> HIDE DEF n
<1>10. ProcInv(p)'
  <2>1. Reading(p)'
    BY <1>0, <1>1, <1>3, <1>4, <1>5, <1>6, <1>9 DEF Reading, At
  <2>2. CacheInv(p)'
    BY <1>0, <1>1, <1>4, <1>5, <1>7
       DEF CacheInv, At, Unjournalled, Preparing, Current, Agrees
  <2>3. (PreparingInv(p) /\ WritingInv(p) /\ UndoingInv(p) /\ DoneInv(p))'
    BY <1>0 DEF PreparingInv, WritingInv, UndoingInv, DoneInv, Preparing, Undoing, Stamped, At
  <2> QED
    BY <2>1, <2>2, <2>3 DEF ProcInv
<1>11. \A q \in Procs \ {p} : Same(q)
  BY <1>0, <1>7, <1>9 DEF Same
<1>12. UNCHANGED <<files, next>>
  BY <1>0 DEF files
<1>13. /\ dirty' \in [Procs -> SUBSET (1 .. MaxPages)]
       /\ todo' \in [Procs -> Nat \ {0}]
       /\ kind' \in [Procs -> {"none", "read", "write"}]
  BY <1>0 DEF DataInv, DataTypes
<1>14. \A i \in DOMAIN cache'[p] : i \in Nat \ {0} /\ cache'[p][i] \in PageType
  BY <1>7
<1> QED
  BY <1>7, <1>9, <1>10, <1>11, <1>12, <1>13, <1>14, OwnMemory

\* The end of a statement; a page that could not be read gives up the version.
LEMMA KeptEnd ==
    ASSUME IInv, DataInv, NEW p \in Procs, End(p) \/ (Errors /\ FailRead(p))
    PROVE  Kept
<1>1. /\ pc \in [Procs -> {"idle", "shared", "end"} \cup Sharing \cup Reserving
                              \cup Repairing \cup Writing \cup Releasing]
      /\ kind \in [Procs -> {"none", "read", "write"}]
      /\ vers \in [Procs -> [ctr : Int, n : Nat]] /\ got \in [Procs -> Seq(SUBSET Nat)]
  BY DEF IInv, LocksMatch, DataInv, DataTypes
<1>2. BadVers \in [ctr : Int, n : Nat] /\ <<>> \in Seq(SUBSET Nat)
  BY DEF BadVers
<1>3. /\ UNCHANGED <<file, loose, sizes, jrnl, jdisk, cache, dirty, todo, next>>
      /\ kind' \in [Procs -> {"none", "read", "write"}]
      /\ vers' \in [Procs -> [ctr : Int, n : Nat]] /\ got' \in [Procs -> Seq(SUBSET Nat)]
      /\ \A q \in Procs \ {p} : pc'[q] = pc[q] /\ vers'[q] = vers[q] /\ got'[q] = got[q]
      /\ pc'[p] = "end" \/ (pc'[p] = "idle" /\ got'[p] = <<>>)
      /\ pc[p] \in Unjournalled \cup {"page1", "read"}
      /\ vers'[p] = BadVers \/ (vers'[p] = vers[p] /\ pc[p] \in Unjournalled \cup {"read"})
  <2>1. CASE End(p)
    BY <1>1, <1>2, <2>1 DEF End, Close, At, Go, files, Unjournalled
  <2>2. CASE FailRead(p)
    BY <1>1, <1>2, <2>2 DEF FailRead, ReadsFile, At, Go, files, Unjournalled
  <2> QED
    BY <2>1, <2>2
<1>4. Committed' = Committed
  BY <1>3, FilesKept DEF files, DataInv
<1>5. ProcInv(p) /\ dirty[p] = {}
  BY <1>3 DEF DataInv, ProcInv, CacheInv, Preparing, Unjournalled
<1>6. Keeps(p)'
  <2>1. CASE vers'[p] = BadVers
    BY <1>4, <2>1, CommittedIs DEF Keeps, BadVers, VersOf, DataInv
  <2>2. CASE vers'[p] = vers[p] /\ pc[p] \in Unjournalled \cup {"read"}
    <3>1. Keeps(p)
      BY <1>5, <2>2, CurrentKeeps DEF ProcInv, CacheInv, DataInv
    <3> QED
      BY <1>3, <1>4, <2>2, <3>1 DEF Keeps, Agrees
  <2> QED
    BY <1>3, <2>1, <2>2
<1>7. ProcInv(p)'
  <2>1. Reading(p)'
    BY <1>3 DEF Reading, At
  <2>2. CacheInv(p)'
    BY <1>3, <1>5, <1>6 DEF CacheInv, At, Unjournalled, Preparing
  <2>3. (PreparingInv(p) /\ WritingInv(p) /\ UndoingInv(p) /\ DoneInv(p))'
    BY <1>3 DEF PreparingInv, WritingInv, UndoingInv, DoneInv, Preparing, Undoing, Stamped, At
  <2> QED
    BY <2>1, <2>2, <2>3 DEF ProcInv
<1>8. \A q \in Procs \ {p} : Same(q)
  BY <1>3 DEF Same
<1>9. UNCHANGED <<files, next>> /\ DOMAIN cache' = Procs
  BY <1>3 DEF files, DataInv, DataTypes
<1>10. /\ dirty' \in [Procs -> SUBSET (1 .. MaxPages)] /\ todo' \in [Procs -> Nat \ {0}]
       /\ \A i \in DOMAIN cache'[p] : i \in Nat \ {0} /\ cache'[p][i] \in PageType
  BY <1>3 DEF DataInv, DataTypes
<1> QED
  BY <1>3, <1>7, <1>8, <1>9, <1>10, OwnMemory

\* A process that forgets everything breaks nothing.
LEMMA KeptForgets ==
    ASSUME IInv, DataInv, NEW p \in Procs, Kill(p) \/ (Errors /\ Abandon(p))
    PROVE  Kept
<1>1. /\ pc \in [Procs -> {"idle", "shared", "end"} \cup Sharing \cup Reserving
                              \cup Repairing \cup Writing \cup Releasing]
      /\ kind \in [Procs -> {"none", "read", "write"}] /\ DOMAIN cache = Procs
      /\ vers \in [Procs -> [ctr : Int, n : Nat]] /\ got \in [Procs -> Seq(SUBSET Nat)]
      /\ dirty \in [Procs -> SUBSET (1 .. MaxPages)] /\ todo \in [Procs -> Nat \ {0}]
  BY DEF IInv, LocksMatch, DataInv, DataTypes
<1>2. NoVers \in [ctr : Int, n : Nat] /\ <<>> \in Seq(SUBSET Nat)
  BY DEF NoVers
<1>3. ProcInv(p)
  BY DEF DataInv
<1>4. /\ UNCHANGED <<file, loose, sizes, jrnl, jdisk, next>>
      /\ kind' \in [Procs -> {"none", "read", "write"}]
      /\ vers' \in [Procs -> [ctr : Int, n : Nat]] /\ got' \in [Procs -> Seq(SUBSET Nat)]
      /\ dirty' \in [Procs -> SUBSET (1 .. MaxPages)] /\ todo' \in [Procs -> Nat \ {0}]
      /\ DOMAIN cache' = Procs /\ DOMAIN cache'[p] = {} /\ dirty'[p] = {}
      /\ \A q \in Procs \ {p} : pc'[q] = pc[q] /\ vers'[q] = vers[q] /\ got'[q] = got[q]
                                /\ cache'[q] = cache[q] /\ dirty'[q] = dirty[q]
                                /\ todo'[q] = todo[q]
      /\ pc'[p] = "end" \/ (pc'[p] \in {"idle", "unlock"} /\ got'[p] = <<>>)
  <2>1. CASE Kill(p)
    BY <1>1, <1>2, <2>1 DEF Kill, Close, At, Go, files
  <2>2. CASE Abandon(p)
    BY <1>1, <1>2, <1>3, <2>2 DEF Abandon, At, Go, files, ProcInv, Reading
  <2> QED
    BY <2>1, <2>2
<1>5. ProcInv(p)'
  <2>1. Reading(p)'
    BY <1>4 DEF Reading, At
  <2>2. CacheInv(p)'
    BY <1>4 DEF CacheInv, At, Unjournalled, Preparing, Keeps
  <2>3. (PreparingInv(p) /\ WritingInv(p) /\ UndoingInv(p) /\ DoneInv(p))'
    BY <1>4 DEF PreparingInv, WritingInv, UndoingInv, DoneInv, Preparing, Undoing, Stamped, At
  <2> QED
    BY <2>1, <2>2, <2>3 DEF ProcInv
<1>6. \A q \in Procs \ {p} : Same(q)
  BY <1>4 DEF Same
<1>7. UNCHANGED <<files, next>>
  BY <1>4 DEF files
<1>8. \A i \in DOMAIN cache'[p] : i \in Nat \ {0} /\ cache'[p][i] \in PageType
  BY <1>4
<1> QED
  BY <1>4, <1>5, <1>6, <1>7, <1>8, OwnMemory

\* When there is nothing more to play back, the file is the old one.
LEMMA PlayedBack ==
    ASSUME DataInv, NEW p \in Procs, pc[p] \in {"play", "undo"}, ~ MoreToPlay(p)
    PROVE  /\ file = Committed /\ Hot(jrnl)
           /\ \A k \in 1 .. Len(jrnl.recs) : k <= todo[p] - 1
<1>1. /\ Hot(jrnl) /\ Len(file) = jrnl.orig
      /\ \A k \in 1 .. todo[p] - 1 :
             k <= Len(jrnl.recs) /\ file[jrnl.recs[k].pg] = jrnl.recs[k].was
  BY DEF DataInv, ProcInv, UndoingInv, Undoing
<1>2. JournalTyped(jrnl) /\ NoneTorn(jrnl) /\ Len(jrnl.recs) \in Nat
  <2>1. JournalTyped(jrnl) /\ NoneTorn(jrnl)
    BY <1>1, JournalFacts DEF DataInv
  <2>2. Len(jrnl.recs) \in Nat
    BY <2>1, SeqHas DEF JournalTyped
  <2> QED
    BY <2>1, <2>2
<1>3. todo[p] \in Nat \ {0} /\ todo[p] > Len(jrnl.recs)
  <2>1. todo[p] \in Nat \ {0}
    BY DEF DataInv, DataTypes
  <2>2. \A k \in 1 .. Len(jrnl.recs) : jrnl.recs[k].was # Torn
    BY <1>2, ZeroTyped DEF NoneTorn
  <2> QED
    BY <1>2, <2>1, <2>2 DEF MoreToPlay
<1>4. \A k \in 1 .. Len(jrnl.recs) : k <= todo[p] - 1
  BY <1>2, <1>3
<1>5. /\ Committed \in Seq(PageType) /\ Len(Committed) = jrnl.orig
      /\ \A k \in 1 .. Len(jrnl.recs) : Committed[jrnl.recs[k].pg] = jrnl.recs[k].was
      /\ \A i \in (1 .. jrnl.orig) \ Pgs(jrnl) : Committed[i] = file[i]
  BY <1>1, CommittedIs DEF DataInv
<1>6. \A i \in 1 .. Len(file) : file[i] = Committed[i]
  BY <1>1, <1>3, <1>4, <1>5 DEF Pgs
<1>7. file \in Seq(PageType)
  BY DEF DataInv, DataTypes
<1>8. file = Committed
  BY <1>1, <1>5, <1>6, <1>7, SeqSame
<1> QED
  BY <1>1, <1>4, <1>8

\* When the last record is through the file is the committed database again.
LEMMA KeptEndPlay ==
    ASSUME IInv, DataInv, NEW p \in Procs, EndPlay(p)
    PROVE  Kept
<1>1. /\ pc \in [Procs -> {"idle", "shared", "end"} \cup Sharing \cup Reserving
                              \cup Repairing \cup Writing \cup Releasing]
      /\ kind \in [Procs -> {"none", "read", "write"}] /\ DOMAIN cache = Procs
      /\ vers \in [Procs -> [ctr : Int, n : Nat]] /\ got \in [Procs -> Seq(SUBSET Nat)]
      /\ dirty \in [Procs -> SUBSET (1 .. MaxPages)] /\ todo \in [Procs -> Nat \ {0}]
  BY DEF IInv, LocksMatch, DataInv, DataTypes
<1>2. ProcInv(p)
  BY DEF DataInv
<1>3. /\ UNCHANGED <<file, loose, sizes, jrnl, jdisk, next, kind, vers, got, dirty, cache>>
      /\ todo' \in [Procs -> Nat \ {0}]
      /\ \A q \in Procs \ {p} : pc'[q] = pc[q] /\ todo'[q] = todo[q]
      /\ (pc[p] = "play" /\ pc'[p] = "playSync") \/ (pc[p] = "undo" /\ pc'[p] = "undoSync")
      /\ ~ MoreToPlay(p)
  BY <1>1 DEF EndPlay, Playing, At, Go, files
<1>4. Committed' = Committed
  BY <1>3, FilesKept DEF files, DataInv
<1>5. /\ file = Committed /\ Hot(jrnl) /\ \A k \in 1 .. Len(jrnl.recs) : k <= todo[p] - 1
      /\ dirty[p] = {} /\ jdisk = jrnl
  <2>1. dirty[p] = {} /\ jdisk = jrnl
    BY <1>2, <1>3 DEF ProcInv, CacheInv, UndoingInv, Preparing, Undoing
  <2> QED
    BY <1>3, <2>1, PlayedBack
<1>6. ProcInv(p)'
  <2>1. Reading(p)'
    BY <1>2, <1>3 DEF ProcInv, Reading, At
  <2>2. CacheInv(p)'
    BY <1>2, <1>3, <1>4, <1>5
       DEF ProcInv, CacheInv, At, Unjournalled, Preparing, Keeps, Agrees
  <2>3. (PreparingInv(p) /\ WritingInv(p) /\ DoneInv(p))'
    <3>1. PreparingInv(p)'
      BY <1>2, <1>3, <1>4 DEF ProcInv, PreparingInv, Preparing, Undoing, Stamped, At
    <3>2. (WritingInv(p) /\ DoneInv(p))'
      BY <1>3 DEF WritingInv, DoneInv, Preparing, Undoing, Stamped, At
    <3> QED
      BY <3>1, <3>2
  <2>4. UndoingInv(p)'
    <3>1. CASE pc[p] = "play"
      BY <1>3, <1>4, <1>5, <3>1 DEF UndoingInv, At, Undoing
    <3>2. CASE pc[p] = "undo"
      <4>1. /\ 1 \in Pgs(jrnl) /\ 1 \in DOMAIN cache[p]
            /\ \A i \in DOMAIN cache[p] : i <= jrnl.orig
            /\ \A i \in DOMAIN cache[p] :
                   i \notin Pgs(jrnl) \/ Played(p, i) => cache[p][i] = Committed[i]
            /\ Played(p, 1) => vers[p] = VersOf(Committed[1])
        BY <1>2, <3>2 DEF ProcInv, UndoingInv, Undoing, At
      <4>2. \A i \in Pgs(jrnl) : Played(p, i)
        <5>1. todo[p] \in Nat
          BY <1>1
        <5>2. \A k \in 1 .. Len(jrnl.recs) : k \in 1 .. todo[p] - 1 /\ k <= Len(jrnl.recs)
          BY <1>5, <5>1
        <5>3. At(p, "undo")
          BY <3>2 DEF At
        <5> QED
          BY <5>2, <5>3 DEF Played, Pgs
      <4>3. /\ \A i \in DOMAIN cache[p] : cache[p][i] = Committed[i]
            /\ vers[p] = VersOf(Committed[1])
        BY <4>1, <4>2
      <4> QED
        BY <1>3, <1>4, <1>5, <3>2, <4>1, <4>3 DEF UndoingInv, At, Undoing, Played
    <3> QED
      BY <1>3, <3>1, <3>2
  <2> QED
    BY <2>1, <2>2, <2>3, <2>4 DEF ProcInv
<1>7. \A q \in Procs \ {p} : Same(q)
  BY <1>3 DEF Same
<1>8. UNCHANGED <<files, next>>
  BY <1>3 DEF files
<1>9. /\ DOMAIN cache' = Procs /\ vers' \in [Procs -> [ctr : Int, n : Nat]]
      /\ got' \in [Procs -> Seq(SUBSET Nat)] /\ dirty' \in [Procs -> SUBSET (1 .. MaxPages)]
      /\ kind' \in [Procs -> {"none", "read", "write"}]
      /\ \A i \in DOMAIN cache'[p] : i \in Nat \ {0} /\ cache'[p][i] \in PageType
  BY <1>1, <1>3 DEF DataInv, DataTypes
<1> QED
  BY <1>3, <1>6, <1>7, <1>8, <1>9, OwnMemory

\* Nothing has been written yet: the journal restores the cache.
LEMMA KeptRollback ==
    ASSUME IInv, DataInv, NEW p \in Procs, dirty[p] # {},
           (Errors /\ Fail(p)) \/ (BusyGiveUp(p) /\ At(p, "exclusive"))
    PROVE  Kept
<1> DEFINE kept == Shrunk(cache[p], jrnl.orig)
           old == Originals(jrnl)
           back == [i \in DOMAIN kept |-> IF i \in DOMAIN old THEN old[i] ELSE kept[i]]
<1>1. DOMAIN pc = Procs /\ DOMAIN cache = Procs /\ dirty \in [Procs -> SUBSET (1 .. MaxPages)]
  BY DEF IInv, LocksMatch, DataInv, DataTypes
<1>2. /\ UNCHANGED <<file, loose, sizes, jrnl, jdisk, next, vers, got, todo, kind>>
      /\ pc[p] \in Preparing
      /\ pc' = [pc EXCEPT ![p] = "delete"]
      /\ dirty' = [dirty EXCEPT ![p] = {}]
      /\ cache' = [cache EXCEPT ![p] = back]
  BY DEF Fail, BusyGiveUp, Rollback, RollbackCache, At, Go, files, Preparing
<1> HIDE DEF back, kept, old
<1>3. /\ pc'[p] = "delete" /\ dirty'[p] = {} /\ cache'[p] = back /\ DOMAIN cache' = Procs
      /\ dirty' \in [Procs -> SUBSET (1 .. MaxPages)]
      /\ \A q \in Procs \ {p} : pc'[q] = pc[q] /\ cache'[q] = cache[q] /\ dirty'[q] = dirty[q]
  BY <1>1, <1>2
<1>4. Committed' = Committed
  BY <1>2, FilesKept DEF files, DataInv
<1>5. ProcInv(p) /\ Current(p) /\ Changed(p) /\ Journals(p) /\ FilesInv
  BY <1>2 DEF DataInv, ProcInv, CacheInv, PreparingInv
<1>6. /\ file \in Seq(PageType) /\ Len(file) \in 1 .. MaxPages
      /\ \A i \in 1 .. Len(file) : file[i] \in PageType
      /\ \A i \in DOMAIN cache[p] : i \in Nat \ {0}
  BY SeqHas DEF DataInv, DataTypes
<1>7. loose = {} /\ sizes = {Len(file)} /\ file = Committed
  <2>1. ~ Hot(jrnl) \/ ~ Hot(jdisk)
    BY <1>2, <1>5, <1>6 DEF IInv, NoneHot, InsideSteps, ProcInv, PreparingInv, Preparing, At
  <2> QED
    BY <1>5, <2>1 DEF FilesInv
<1>8. /\ jrnl.orig = Len(file) /\ Pgs(jrnl) = {i \in dirty[p] : i <= Len(file)}
      /\ \A k \in 1 .. Len(jrnl.recs) : jrnl.recs[k].was = file[jrnl.recs[k].pg]
      /\ DOMAIN jrnl.recs = 1 .. Len(jrnl.recs)
  <2>1. JournalTyped(jrnl)
    BY JournalFacts DEF DataInv
  <2>2. DOMAIN jrnl.recs = 1 .. Len(jrnl.recs)
    BY <2>1, SeqHas DEF JournalTyped
  <2> QED
    BY <1>5, <2>2 DEF Journals
<1>9. DOMAIN old = Pgs(jrnl) /\ \A i \in Pgs(jrnl) : old[i] = file[i]
  <2>1. DOMAIN old = Pgs(jrnl)
    BY <1>8 DEF old, Originals, Range, Pgs
  <2>2. ASSUME NEW i \in Pgs(jrnl) PROVE old[i] = file[i]
    <3> DEFINE r == CHOOSE r \in Range(jrnl.recs) : r.pg = i
    <3>1. \E x \in Range(jrnl.recs) : x.pg = i
      BY <1>8 DEF Range, Pgs
    <3>2. r \in Range(jrnl.recs) /\ r.pg = i
      BY <3>1
    <3>3. PICK k \in 1 .. Len(jrnl.recs) : jrnl.recs[k] = r
      BY <1>8, <3>2 DEF Range
    <3>4. r.was = file[i]
      BY <1>8, <3>2, <3>3
    <3>5. i \in {x.pg : x \in Range(jrnl.recs)}
      BY <3>1
    <3>6. old[i] = r.was
      BY <3>5 DEF old, Originals
    <3> QED
      BY <3>4, <3>6
  <2> QED
    BY <2>1, <2>2
<1>10. kept = [i \in {i \in DOMAIN cache[p] : i <= Len(file)} |-> cache[p][i]]
  BY <1>6, <1>8 DEF kept, Shrunk, UpTo, Restrict
<1>11. /\ DOMAIN back = {i \in DOMAIN cache[p] : i <= Len(file)}
       /\ \A i \in DOMAIN back : i \in 1 .. Len(file) /\ back[i] = file[i]
  <2>1. DOMAIN back = {i \in DOMAIN cache[p] : i <= Len(file)}
    BY <1>10 DEF back
  <2>2. ASSUME NEW i \in DOMAIN back PROVE i \in 1 .. Len(file) /\ back[i] = file[i]
    <3>1. i \in DOMAIN cache[p] /\ i \in 1 .. Len(file)
      BY <1>6, <2>1
    <3>2. CASE i \in Pgs(jrnl)
      BY <1>9, <1>10, <2>1, <3>1, <3>2 DEF back
    <3>3. CASE i \notin Pgs(jrnl)
      <4>1. i \notin dirty[p]
        BY <1>8, <3>1, <3>3
      <4>2. cache[p][i] = file[i]
        BY <1>5, <1>7, <3>1, <4>1 DEF Current, Agrees
      <4> QED
        BY <1>9, <1>10, <2>1, <3>1, <3>3, <4>2 DEF back
    <3> QED
      BY <3>1, <3>2, <3>3
  <2> QED
    BY <2>1, <2>2
<1>12. ProcInv(p)'
  <2>1. Reading(p)'
    BY <1>2, <1>3, <1>5 DEF ProcInv, Reading, At, Preparing
  <2>2. CacheInv(p)'
    BY <1>3 DEF CacheInv, At, Unjournalled, Preparing
  <2>3. PreparingInv(p)'
    BY <1>2, <1>3, <1>4, <1>5 DEF ProcInv, PreparingInv, Preparing, Stamped, At
  <2>4. (WritingInv(p) /\ UndoingInv(p))'
    BY <1>2, <1>3, <1>7 DEF WritingInv, UndoingInv, Undoing, At
  <2>5. DoneInv(p)'
    BY <1>2, <1>3, <1>4, <1>5, <1>6, <1>7, <1>11
       DEF DoneInv, At, Agrees, Current, Mixed, OldTxns
  <2> QED
    BY <2>1, <2>2, <2>3, <2>4, <2>5 DEF ProcInv
<1>13. \A q \in Procs \ {p} : Same(q)
  BY <1>2, <1>3 DEF Same
<1>14. UNCHANGED <<files, next>>
  BY <1>2 DEF files
<1>15. \A i \in DOMAIN cache'[p] : i \in Nat \ {0} /\ cache'[p][i] \in PageType
  BY <1>3, <1>6, <1>11
<1>16. /\ vers' \in [Procs -> [ctr : Int, n : Nat]]
       /\ got' \in [Procs -> Seq(SUBSET Nat)] /\ todo' \in [Procs -> Nat \ {0}]
       /\ kind' \in [Procs -> {"none", "read", "write"}]
  BY <1>2 DEF DataInv, DataTypes
<1> QED
  BY <1>3, <1>12, <1>13, <1>14, <1>15, <1>16, OwnMemory

\* Pages may have been written: the cache keeps what the journal will confirm.
LEMMA KeptFailWrite ==
    ASSUME IInv, DataInv, NEW p \in Procs, FailWrite(p)
    PROVE  Kept
<1> DEFINE kept == Shrunk(cache[p], jrnl.orig)
<1>1. DOMAIN pc = Procs /\ DOMAIN cache = Procs /\ dirty \in [Procs -> SUBSET (1 .. MaxPages)]
  BY DEF IInv, LocksMatch, DataInv, DataTypes
<1>2. /\ UNCHANGED <<file, loose, sizes, jrnl, jdisk, next, vers, got, todo, kind>>
      /\ pc[p] \in {"pages", "dbSync"}
      /\ pc' = [pc EXCEPT ![p] = "undoTruncate"]
      /\ dirty' = [dirty EXCEPT ![p] = {}]
      /\ cache' = [cache EXCEPT ![p] = kept]
  BY <1>1 DEF FailWrite, At, Go, files
<1> HIDE DEF kept
<1>3. /\ pc'[p] = "undoTruncate" /\ dirty'[p] = {} /\ cache'[p] = kept /\ DOMAIN cache' = Procs
      /\ dirty' \in [Procs -> SUBSET (1 .. MaxPages)]
      /\ \A q \in Procs \ {p} : pc'[q] = pc[q] /\ cache'[q] = cache[q] /\ dirty'[q] = dirty[q]
  BY <1>1, <1>2
<1>4. Committed' = Committed
  BY <1>2, FilesKept DEF files, DataInv
<1>5. /\ ProcInv(p) /\ Hot(jrnl) /\ jdisk = jrnl /\ Agrees(p, file)
      /\ {i \in dirty[p] : i <= jrnl.orig} \subseteq Pgs(jrnl)
      /\ 1 \in Pgs(jrnl) /\ 1 \in DOMAIN cache[p]
  BY <1>2 DEF DataInv, ProcInv, WritingInv
<1>6. /\ \A i \in DOMAIN cache[p] : i \in Nat \ {0} /\ cache[p][i] \in PageType
      /\ jrnl.orig \in Nat \ {0}
      /\ \A i \in (1 .. jrnl.orig) \ Pgs(jrnl) : Committed[i] = file[i]
  <2>1. \A i \in DOMAIN cache[p] : i \in Nat \ {0} /\ cache[p][i] \in PageType
    BY DEF DataInv, DataTypes
  <2>2. jrnl.orig \in Nat \ {0}
    BY <1>5, JournalFacts DEF DataInv
  <2>3. \A i \in (1 .. jrnl.orig) \ Pgs(jrnl) : Committed[i] = file[i]
    BY <1>5, CommittedIs DEF DataInv
  <2> QED
    BY <2>1, <2>2, <2>3
<1>7. kept = [i \in {i \in DOMAIN cache[p] : i <= jrnl.orig} |-> cache[p][i]]
  BY <1>6 DEF kept, Shrunk, UpTo, Restrict
<1>8. \A i \in DOMAIN kept :
          /\ i \in DOMAIN cache[p] /\ i <= jrnl.orig /\ kept[i] = cache[p][i]
          /\ i \notin Pgs(jrnl) => kept[i] = Committed[i]
  BY <1>5, <1>6, <1>7 DEF Agrees
<1>9. 1 \in DOMAIN kept
  BY <1>5, <1>6, <1>7
<1>10. ProcInv(p)'
  <2>1. Reading(p)'
    BY <1>2, <1>3, <1>5 DEF ProcInv, Reading, At
  <2>2. CacheInv(p)'
    BY <1>3 DEF CacheInv, At, Unjournalled, Preparing
  <2>3. PreparingInv(p)'
    BY <1>2, <1>3, <1>4, <1>5 DEF ProcInv, PreparingInv, Preparing, Undoing, Stamped, At
  <2>4. (WritingInv(p) /\ DoneInv(p))'
    BY <1>3 DEF WritingInv, DoneInv, At
  <2>5. UndoingInv(p)'
    BY <1>2, <1>3, <1>4, <1>5, <1>8, <1>9 DEF UndoingInv, Undoing, At, Played, Pgs
  <2> QED
    BY <2>1, <2>2, <2>3, <2>4, <2>5 DEF ProcInv
<1>11. \A q \in Procs \ {p} : Same(q)
  BY <1>2, <1>3 DEF Same
<1>12. UNCHANGED <<files, next>>
  BY <1>2 DEF files
<1>13. \A i \in DOMAIN cache'[p] : i \in Nat \ {0} /\ cache'[p][i] \in PageType
  BY <1>3, <1>6, <1>8
<1>14. /\ vers' \in [Procs -> [ctr : Int, n : Nat]]
       /\ got' \in [Procs -> Seq(SUBSET Nat)] /\ todo' \in [Procs -> Nat \ {0}]
       /\ kind' \in [Procs -> {"none", "read", "write"}]
  BY <1>2 DEF DataInv, DataTypes
<1> QED
  BY <1>3, <1>10, <1>11, <1>12, <1>13, <1>14, OwnMemory

-----------------------------------------------------------------------------
\* Steps of a process that keeps the others away

\* A step under RESERVED or EXCLUSIVE that leaves the committed database alone.
LEMMA BesideStep ==
    ASSUME DataInv, NEW p \in Procs, Committed' = Committed,
           \A q \in Procs \ {p} :
               /\ Same(q) /\ pc[q] \in Bystanding
               /\ file' = file \/ pc[q] \in {"idle", "shared"},
           DataTypes', FilesInv', ProcInv(p)'
    PROVE  DataInv'
<1>1. ASSUME NEW q \in Procs PROVE ProcInv(q)'
  BY Bystander DEF DataInv
<1> QED
  BY <1>1 DEF DataInv

\* A new transaction has a number that no page has yet.
LEMMA KeptReserve ==
    ASSUME IInv, DataInv, NEW p \in Procs, Reserve(p)
    PROVE  Kept
<1>0. /\ UNCHANGED <<file, loose, sizes, jrnl, jdisk, kind, cache, dirty, vers, got, todo>>
      /\ pc[p] = "reserve" /\ pc' = [pc EXCEPT ![p] = "modify"]
      /\ next' = next + 1 /\ next < MaxTxns
  BY DEF Reserve, files, memory, At, Go
<1>1. pc'[p] = "modify" /\ \A q \in Procs \ {p} : pc'[q] = pc[q]
  BY <1>0 DEF IInv, LocksMatch
<1>2. Committed' = Committed /\ Restored(jdisk)' = Restored(jdisk)
  BY <1>0 DEF Committed, Restored
<1>3. next \in 0 .. MaxTxns /\ MaxTxns \in Nat
  BY PagerBounds DEF DataInv, DataTypes
<1>4. DataTypes'
  <2>1. next' \in 0 .. MaxTxns
    BY <1>0, <1>3
  <2> QED
    BY <1>0, <2>1 DEF DataInv, DataTypes
<1>5. FilesInv'
  BY <1>0, <1>2, <1>3 DEF DataInv, FilesInv, JournalSound, Sound
<1>6. ASSUME NEW q \in Procs \ {p} PROVE Same(q) /\ pc[q] \in Bystanding
  <2>1. lock[q] \notin {L!RESERVED_LOCK, L!EXCLUSIVE_LOCK}
    BY DEF Reserve, L!Reserved, L!Others, L!NO_LOCK, L!SHARED_LOCK, L!RESERVED_LOCK, L!EXCLUSIVE_LOCK
  <2>2. pc[q] \in Bystanding
    BY <2>1 DEF IInv, LocksMatch, Sharing, Reserving, Repairing, Writing, Releasing, Bystanding
  <2> QED
    BY <1>0, <1>1, <2>2 DEF Same
<1>7. ProcInv(p)'
  <2>0. /\ got[p] = <<>> /\ Current(p) /\ dirty[p] = {} /\ Sound(Committed)
        /\ Len(file) \in 1 .. MaxPages
    BY <1>0 DEF DataInv, FilesInv, ProcInv, Reading, CacheInv, Preparing, At, DataTypes
  <2>1. Reading(p)'
    BY <1>0, <1>1, <2>0 DEF Reading, At
  <2>2. CacheInv(p)'
    BY <1>0, <1>1, <1>2, <2>0
       DEF CacheInv, At, Unjournalled, Preparing, Current, Agrees
  <2>3. PreparingInv(p)'
    <3>1. Changed(p)'
      BY <1>0, <2>0 DEF Changed
    <3>2. next + 1 > 0 /\ \A i \in 1 .. Len(Committed) : next + 1 \notin Committed[i].txns
      BY <1>3, <2>0 DEF Sound
    <3> QED
      BY <1>0, <1>1, <1>2, <2>0, <3>1, <3>2 DEF PreparingInv, Preparing, Stamped, At
  <2>4. (WritingInv(p) /\ UndoingInv(p) /\ DoneInv(p))'
    BY <1>1 DEF WritingInv, UndoingInv, DoneInv, Undoing, At
  <2> QED
    BY <2>1, <2>2, <2>3, <2>4 DEF ProcInv
<1>8. DataInv'
  BY <1>0, <1>2, <1>4, <1>5, <1>6, <1>7, BesideStep
<1> QED
  BY <1>2, <1>8 DEF Kept

-----------------------------------------------------------------------------
\* The journal grows with the changed pages

\* The page a writer changes is the committed one.
LEMMA PageIs ==
    ASSUME DataInv, NEW p \in Procs, Current(p), file = Committed,
           NEW i \in Nat \ {0}, i \notin dirty[p]
    PROVE  Page(p, i) = PageOf(file, i) /\ Page(p, i) \in PageType
<1>1. /\ \A k \in 1 .. Len(file) : file[k] \in PageType
      /\ Len(file) \in Nat
  BY SeqHas DEF DataInv, DataTypes
<1>2. Page(p, i) = PageOf(file, i)
  BY DEF Page, PageOf, Current, Agrees
<1> QED
  BY <1>1, <1>2, ZeroTyped DEF PageOf

\* Pager.dbSize is where the changed pages end.
LEMMA SizeIs ==
    ASSUME DataInv, NEW p \in Procs, Changed(p)
    PROVE  /\ Size(p) \in {Len(file)} \cup dirty[p] /\ Size(p) \in Nat
           /\ \A i \in {Len(file)} \cup dirty[p] : i <= Size(p)
<1>1. {Len(file)} \cup dirty[p] \subseteq Nat
  BY DEF DataInv, DataTypes
<1>2. PICK m \in {Len(file)} \cup dirty[p] : \A i \in {Len(file)} \cup dirty[p] : i <= m
  BY DEF Changed
<1>3. \A i \in {Len(file)} \cup dirty[p] : m >= i
  BY <1>1, <1>2
<1>4. /\ Size(p) \in {Len(file)} \cup dirty[p]
      /\ \A i \in {Len(file)} \cup dirty[p] : Size(p) >= i
  BY <1>3 DEF Size, Max
<1> QED
  BY <1>1, <1>4

Base(p) == IF dirty[p] = {} THEN [NoJournal EXCEPT !.by = next, !.orig = Len(file)] ELSE jrnl

\* The journal of the transaction has what these pages were.
Lists(j, pages) ==
    /\ JournalTyped(j) /\ Distinct(j)
    /\ j.by = next /\ j.hdr = FALSE /\ j.orig = Len(file)
    /\ Pgs(j) = {k \in pages : k <= Len(file)}
    /\ \A k \in 1 .. Len(j.recs) :
           j.recs[k].pg <= j.orig /\ j.recs[k].was = file[j.recs[k].pg]

LEMMA JournalGrows ==
    ASSUME DataInv, JournalsAre, NEW p \in Procs, pc[p] \in {"modify", "counter"}, ~ Hot(jrnl),
           NEW i \in Nat \ {0}, i \notin dirty[p], NEW j, j = Journalled(Base(p), p, i)
    PROVE  Lists(j, dirty[p] \cup {i})
<1> USE DEF Lists
<1> DEFINE b == Base(p)
           n == Len(b.recs)
           r == [pg |-> i, was |-> Page(p, i)]
<1>1. /\ Current(p) /\ (dirty[p] # {} => Journals(p)) /\ next \in Nat \ {0}
      /\ Len(file) \in Nat \ {0} /\ dirty[p] \subseteq Nat \ {0}
  <2>1. Current(p) /\ (dirty[p] # {} => Journals(p)) /\ next > 0
    BY DEF DataInv, ProcInv, CacheInv, PreparingInv, Preparing, Stamped
  <2>2. next \in Nat /\ Len(file) \in Nat \ {0} /\ dirty[p] \subseteq Nat \ {0}
    BY PagerBounds DEF DataInv, DataTypes
  <2> QED
    BY <2>1, <2>2
<1>2. file = Committed
  BY CommittedIs DEF DataInv
<1>3. Page(p, i) = PageOf(file, i) /\ Page(p, i) \in PageType
  BY <1>1, <1>2, PageIs
<1>4. /\ JournalTyped(b) /\ Distinct(b) /\ DOMAIN b = DOMAIN NoJournal
      /\ b.by = next /\ b.hdr = FALSE /\ b.orig = Len(file)
      /\ Pgs(b) = {k \in dirty[p] : k <= Len(file)}
      /\ \A k \in 1 .. Len(b.recs) :
             b.recs[k].pg <= b.orig /\ b.recs[k].was = file[b.recs[k].pg]
  <2>1. CASE dirty[p] = {}
    <3>1. /\ b.by = next /\ b.hdr = FALSE /\ b.orig = Len(file) /\ b.recs = <<>>
          /\ DOMAIN b = DOMAIN NoJournal
      BY <2>1 DEF Base, NoJournal
    <3>2. 1 .. Len(b.recs) = {}
      BY <3>1
    <3>3. b.recs \in Seq(RecordType)
      BY <3>1
    <3> HIDE DEF b
    <3> QED
      BY <1>1, <2>1, <3>1, <3>2, <3>3 DEF JournalTyped, Distinct, Pgs
  <2>2. CASE dirty[p] # {}
    <3>1. b = jrnl
      BY <2>2 DEF Base
    <3>2. /\ JournalTyped(jrnl) /\ Distinct(jrnl) /\ DOMAIN jrnl = DOMAIN NoJournal
          /\ \A k \in 1 .. Len(jrnl.recs) : jrnl.recs[k].pg <= jrnl.orig
      BY JournalFacts DEF JournalsAre, DataInv
    <3>3. jrnl.by = next /\ jrnl.hdr = FALSE
      BY <1>1, <2>2, <3>2 DEF Journals, Hot, JournalTyped
    <3> QED
      BY <1>1, <2>2, <3>1, <3>2, <3>3 DEF Journals
  <2> QED
    BY <2>1, <2>2
<1> HIDE DEF b
<1>5. CASE i > Len(file)
  <2>1. j = b
    BY <1>1, <1>4, <1>5 DEF Journalled, b
  <2>2. {k \in dirty[p] : k <= Len(file)} = {k \in dirty[p] \cup {i} : k <= Len(file)}
    BY <1>1, <1>5
  <2> QED
    BY <1>4, <2>1, <2>2
<1>6. CASE i <= Len(file)
  <2>1. j = [b EXCEPT !.recs = Append(@, r)]
    BY <1>1, <1>4, <1>6 DEF Journalled, b
  <2>2. /\ j.by = b.by /\ j.hdr = b.hdr /\ j.orig = b.orig /\ j.recs = Append(b.recs, r)
    BY <1>4, <2>1 DEF NoJournal
  <2>3. r \in RecordType /\ b.recs \in Seq(RecordType) /\ n \in Nat
    <3>1. b.recs \in Seq(RecordType)
      BY <1>4 DEF JournalTyped
    <3> QED
      BY <1>3, <3>1, SeqHas DEF RecordType
  <2> HIDE DEF r
  <2>4. /\ j.recs \in Seq(RecordType) /\ Len(j.recs) = n + 1
        /\ \A k \in 1 .. n : j.recs[k] = b.recs[k]
        /\ j.recs[n + 1] = r
    BY <2>2, <2>3, AppendProperties
  <2>5. r.pg = i /\ r.was = file[i]
    BY <1>3, <1>6 DEF r, PageOf
  <2> HIDE DEF n
  <2>6. Pgs(j) = Pgs(b) \cup {i}
    <3>1. Pgs(b) = {b.recs[k].pg : k \in 1 .. n}
      BY DEF Pgs, n
    <3>2. Pgs(j) = {j.recs[k].pg : k \in 1 .. n + 1}
      BY <2>4 DEF Pgs
    <3>3. \A k : k \in 1 .. n + 1 <=> k \in 1 .. n \/ k = n + 1
      BY <2>3
    <3>4. \A k \in 1 .. n : j.recs[k].pg = b.recs[k].pg
      BY <2>4
    <3>5. j.recs[n + 1].pg = i
      BY <2>4, <2>5
    <3>6. ASSUME NEW x \in Pgs(j) PROVE x \in Pgs(b) \cup {i}
      BY <3>1, <3>2, <3>3, <3>4, <3>5
    <3>7. ASSUME NEW x \in Pgs(b) PROVE x \in Pgs(j)
      BY <3>1, <3>2, <3>3, <3>4
    <3>8. i \in Pgs(j)
      BY <3>2, <3>3, <3>5
    <3> QED
      BY <3>6, <3>7, <3>8
  <2>7. i \notin Pgs(b)
    BY <1>4
  <2>8. Distinct(j)
    <3> SUFFICES ASSUME NEW k \in 1 .. Len(j.recs), NEW l \in 1 .. Len(j.recs),
                        j.recs[k].pg = j.recs[l].pg
                 PROVE  k = l
      BY DEF Distinct
    <3>1. \A m \in 1 .. n : j.recs[m].pg # i /\ j.recs[m].pg = b.recs[m].pg
      BY <2>4, <2>7 DEF Pgs, n
    <3>2. \A m, o \in 1 .. n : b.recs[m].pg = b.recs[o].pg => m = o
      BY <1>4 DEF Distinct, n
    <3>3. k \in 1 .. n \/ k = n + 1
      BY <2>3, <2>4
    <3>4. l \in 1 .. n \/ l = n + 1
      BY <2>3, <2>4
    <3> QED
      BY <2>4, <2>5, <3>1, <3>2, <3>3, <3>4
  <2>9. \A k \in 1 .. Len(j.recs) :
            j.recs[k].pg <= j.orig /\ j.recs[k].was = file[j.recs[k].pg]
    <3>1. \A k \in 1 .. n : b.recs[k].pg <= b.orig /\ b.recs[k].was = file[b.recs[k].pg]
      BY <1>4 DEF n
    <3>2. i <= j.orig
      BY <1>4, <1>6, <2>2
    <3>3. \A k \in 1 .. Len(j.recs) : k \in 1 .. n \/ k = n + 1
      BY <2>3, <2>4
    <3> QED
      BY <2>2, <2>4, <2>5, <3>1, <3>2, <3>3
  <2>10. {k \in dirty[p] : k <= Len(file)} \cup {i} = {k \in dirty[p] \cup {i} : k <= Len(file)}
    BY <1>6
  <2>11. JournalTyped(j)
    BY <1>4, <2>2, <2>4 DEF JournalTyped
  <2> QED
    BY <1>4, <2>2, <2>6, <2>8, <2>9, <2>10, <2>11
<1>7. i <= Len(file) \/ i > Len(file)
  BY <1>1
<1> QED
  BY <1>5, <1>6, <1>7

\* A journal without a header makes no difference to anyone.
LEMMA JournalOpen ==
    ASSUME DataInv, UNCHANGED <<file, loose, sizes, jdisk, next>>, ~ Hot(jrnl), jrnl'.hdr = FALSE,
           Distinct(jrnl)', \A k \in 1 .. Len(jrnl'.recs) : jrnl'.recs[k].pg <= jrnl'.orig
    PROVE  FilesInv' /\ Committed' = Committed /\ Restored(jdisk)' = Restored(jdisk)
<1>1. Committed = file /\ Committed' = file
  BY DEF Committed, Restored, Replayed, Hot
<1>2. Restored(jdisk)' = Restored(jdisk)
  BY DEF Restored
<1>3. JournalSound(jrnl)'
  BY DEF JournalSound, Distinct, Hot
<1>4. JournalSound(jdisk)'
  BY DEF DataInv, FilesInv, JournalSound
<1>5. FilesInv'
  BY <1>1, <1>2, <1>3, <1>4 DEF DataInv, FilesInv, Sound, Hot
<1> QED
  BY <1>1, <1>2, <1>5

\* A page that the transaction has changed is a page.
LEMMA PageStamped ==
    ASSUME NEW x \in PageType, NEW t \in Nat
    PROVE  /\ [x EXCEPT !.txns = @ \cup {t}] \in PageType
           /\ [x EXCEPT !.txns = @ \cup {t}].txns = x.txns \cup {t}
BY DEF PageType

\* One more page is changed in the cache.
LEMMA ChangedMore ==
    ASSUME DataInv, NEW p \in Procs, Current(p), Changed(p),
           NEW i \in 1 .. MaxPages, i <= Size(p) + 1, NEW page \in PageType, Mixed(page.txns, i),
           cache' = [cache EXCEPT ![p] = Put(@, i, page)],
           dirty' = [dirty EXCEPT ![p] = @ \cup {i}],
           UNCHANGED <<file, vers, next>>, Committed' = Committed
    PROVE  /\ Current(p)' /\ Changed(p)' /\ DOMAIN cache' = Procs
           /\ dirty'[p] = dirty[p] \cup {i} /\ cache'[p][i] = page
           /\ \A k : k \in DOMAIN cache'[p] <=> k \in DOMAIN cache[p] \/ k = i
           /\ \A k \in DOMAIN cache[p] : k # i => cache'[p][k] = cache[p][k]
           /\ \A k \in DOMAIN cache'[p] : k \in Nat \ {0} /\ cache'[p][k] \in PageType
           /\ dirty' \in [Procs -> SUBSET (1 .. MaxPages)]
           /\ \A q \in Procs \ {p} : cache'[q] = cache[q] /\ dirty'[q] = dirty[q]
<1>0. /\ DOMAIN cache = Procs /\ dirty \in [Procs -> SUBSET (1 .. MaxPages)]
      /\ \A k \in DOMAIN cache[p] : k \in Nat \ {0} /\ cache[p][k] \in PageType
      /\ Len(file) \in 1 .. MaxPages
  BY DEF DataInv, DataTypes
<1>1. /\ DOMAIN cache' = Procs /\ cache'[p] = Put(cache[p], i, page)
      /\ \A q \in Procs \ {p} : cache'[q] = cache[q] /\ dirty'[q] = dirty[q]
      /\ dirty'[p] = dirty[p] \cup {i}
  BY <1>0
<1>2. /\ cache'[p][i] = page
      /\ \A k : k \in DOMAIN cache'[p] <=> k \in DOMAIN cache[p] \/ k = i
      /\ \A k \in DOMAIN cache[p] : k # i => cache'[p][k] = cache[p][k]
  BY <1>1 DEF Put
<1>3. \A k \in DOMAIN cache'[p] : k \in Nat \ {0} /\ cache'[p][k] \in PageType
  BY <1>0, <1>2
<1>4. dirty' \in [Procs -> SUBSET (1 .. MaxPages)]
  BY <1>0
<1>5. Current(p)'
  BY <1>1, <1>2 DEF Current, Agrees
<1>6. Changed(p)'
  <2>1. dirty'[p] \subseteq DOMAIN cache'[p]
    BY <1>1, <1>2 DEF Changed
  <2>2. ASSUME NEW k \in dirty'[p] PROVE Mixed(cache[p][k].txns, k)'
    <3>0. \A t : Mixed(t, k)' <=> Mixed(t, k)
      BY DEF Mixed, OldTxns
    <3>1. CASE k = i
      BY <1>2, <3>0, <3>1
    <3>2. CASE k # i
      BY <1>1, <1>2, <3>0, <3>2 DEF Changed
    <3> QED
      BY <3>1, <3>2
  <2>3. /\ Size(p) \in {Len(file)} \cup dirty[p] /\ Size(p) \in Nat
        /\ \A k \in {Len(file)} \cup dirty[p] : k <= Size(p)
    BY SizeIs
  <2>4. (Len(file) + 1) .. Size(p) \subseteq dirty[p]
    BY <1>0, <2>3 DEF Changed
  <2> DEFINE n == Len(file)
  <2>5. n \in Nat /\ i \in Nat
    BY <1>0
  <2>6. ASSUME NEW k \in dirty'[p] PROVE (n + 1) .. k \subseteq dirty'[p]
    <3>1. CASE k = i
      <4> HIDE DEF n
      <4>1. \A l \in (n + 1) .. i : l = i \/ l \in (n + 1) .. Size(p)
        BY <2>3, <2>5
      <4> QED
        BY <1>1, <2>4, <3>1, <4>1 DEF n
    <3>2. CASE k # i
      BY <1>1, <3>2 DEF Changed
    <3> QED
      BY <3>1, <3>2
  <2>7. \E m \in {n} \cup dirty'[p] : \A k \in {n} \cup dirty'[p] : k <= m
    <3>0. dirty[p] \subseteq Nat
      BY <1>0
    <3> HIDE DEF n
    <3>1. CASE i > Size(p)
      <4>1. \A k \in {n} \cup dirty'[p] : k <= i
        BY <1>1, <2>3, <2>5, <3>0, <3>1 DEF n
      <4> QED
        BY <1>1, <4>1
    <3>2. CASE i <= Size(p)
      <4>1. \A k \in {n} \cup dirty'[p] : k <= Size(p)
        BY <1>1, <2>3, <3>2 DEF n
      <4> QED
        BY <1>1, <2>3, <4>1 DEF n
    <3> QED
      BY <2>3, <2>5, <3>1, <3>2
  <2>8. Len(file)' = n
    OBVIOUS
  <2> QED
    BY <2>1, <2>2, <2>6, <2>7, <2>8 DEF Changed
<1> QED
  BY <1>1, <1>2, <1>3, <1>4, <1>5, <1>6

\* A page is changed in the cache after the journal has it.
LEMMA KeptPagerWrite ==
    ASSUME IInv, DataInv, NEW p \in Procs, NEW i \in 1 .. MaxPages, PagerWrite(p, i)
    PROVE  Kept
<1> DEFINE page == [Page(p, i) EXCEPT !.txns = @ \cup {next}]
<1>0. /\ UNCHANGED <<file, loose, sizes, jdisk, pc, kind, vers, got, todo, next>>
      /\ pc[p] = "modify" /\ i \notin dirty[p] /\ i <= Size(p) + 1
      /\ jrnl' = Journalled(Base(p), p, i)
      /\ cache' = [cache EXCEPT ![p] = Put(@, i, page)]
      /\ dirty' = [dirty EXCEPT ![p] = @ \cup {i}]
  BY DEF PagerWrite, At, Base
<1>1. ~ Hot(jrnl) /\ file = Committed /\ i \in Nat \ {0} /\ JournalsAre
  <2>1. ~ Hot(jrnl) /\ JournalsAre
    BY <1>0 DEF IInv, NoneHot, InsideSteps, DataInv, DataTypes
  <2> QED
    BY <2>1, CommittedIs DEF DataInv
<1>2. Current(p) /\ Changed(p) /\ ProcInv(p)
  BY <1>0 DEF DataInv, ProcInv, CacheInv, PreparingInv, Preparing
<1>3. /\ JournalTyped(jrnl)' /\ Distinct(jrnl)'
      /\ jrnl'.by = next /\ jrnl'.hdr = FALSE /\ jrnl'.orig = Len(file)
      /\ Pgs(jrnl)' = {k \in dirty[p] \cup {i} : k <= Len(file)}
      /\ \A k \in 1 .. Len(jrnl'.recs) :
             jrnl'.recs[k].pg <= jrnl'.orig /\ jrnl'.recs[k].was = file[jrnl'.recs[k].pg]
  <2>1. Lists(jrnl', dirty[p] \cup {i})
    BY <1>0, <1>1, JournalGrows
  <2> QED
    BY <2>1 DEF Lists, JournalTyped, Distinct, Pgs
<1>4. FilesInv' /\ Committed' = Committed /\ Restored(jdisk)' = Restored(jdisk)
  <2>1. ~ Hot(jrnl)' /\ \A k \in 1 .. Len(jrnl'.recs) : jrnl'.recs[k].pg <= jrnl'.orig
    BY <1>3 DEF Hot
  <2> QED
    BY <1>0, <1>1, <1>3, <2>1, JournalOpen
<1>5. page \in PageType /\ Mixed(page.txns, i)
  <2>1. Page(p, i) = PageOf(file, i) /\ Page(p, i) \in PageType
    BY <1>0, <1>1, <1>2, PageIs
  <2>2. page \in PageType /\ page.txns = Page(p, i).txns \cup {next}
    <3>1. next \in Nat
      BY PagerBounds DEF DataInv, DataTypes
    <3> QED
      BY <2>1, <3>1, PageStamped
  <2>3. Page(p, i).txns = OldTxns(i)
    BY <1>1, <2>1, ZeroTyped DEF OldTxns, PageOf
  <2> QED
    BY <2>2, <2>3 DEF Mixed
<1> HIDE DEF page
<1>6. /\ Current(p)' /\ Changed(p)' /\ DOMAIN cache' = Procs
      /\ dirty'[p] = dirty[p] \cup {i}
      /\ \A k \in DOMAIN cache'[p] : k \in Nat \ {0} /\ cache'[p][k] \in PageType
      /\ dirty' \in [Procs -> SUBSET (1 .. MaxPages)]
      /\ \A q \in Procs \ {p} : cache'[q] = cache[q] /\ dirty'[q] = dirty[q]
  <2>1. UNCHANGED <<file, vers, next>> /\ Committed' = Committed
    BY <1>0, <1>4
  <2>2. Current(p)' /\ Changed(p)' /\ DOMAIN cache' = Procs
    BY <1>0, <1>2, <1>5, <2>1, ChangedMore
  <2>3. dirty'[p] = dirty[p] \cup {i}
    BY <1>0, <1>2, <1>5, <2>1, ChangedMore
  <2>4. \A k \in DOMAIN cache'[p] : k \in Nat \ {0} /\ cache'[p][k] \in PageType
    BY <1>0, <1>2, <1>5, <2>1, ChangedMore
  <2>5. dirty' \in [Procs -> SUBSET (1 .. MaxPages)]
    BY <1>0, <1>2, <1>5, <2>1, ChangedMore
  <2>6. \A q \in Procs \ {p} : cache'[q] = cache[q] /\ dirty'[q] = dirty[q]
    BY <1>0, <1>2, <1>5, <2>1, ChangedMore
  <2> QED
    BY <2>2, <2>3, <2>4, <2>5, <2>6
<1>7. DataTypes'
  BY <1>0, <1>3, <1>6 DEF DataInv, DataTypes, JournalTyped
<1>8. ProcInv(p)'
  <2>1. Reading(p)'
    BY <1>0, <1>2 DEF ProcInv, Reading, At
  <2>2. CacheInv(p)'
    BY <1>0, <1>6 DEF CacheInv, Unjournalled, Preparing, At
  <2>3. PreparingInv(p)'
    <3>1. Journals(p)'
      BY <1>0, <1>1, <1>3, <1>4, <1>6 DEF Journals
    <3>2. next > 0 /\ \A k \in 1 .. Len(Committed) : next \notin Committed[k].txns
      BY <1>0, <1>2 DEF ProcInv, PreparingInv, Preparing, Stamped
    <3> QED
      BY <1>0, <1>4, <1>6, <3>1, <3>2 DEF PreparingInv, Preparing, Stamped, At
  <2>4. (WritingInv(p) /\ UndoingInv(p) /\ DoneInv(p))'
    BY <1>0 DEF WritingInv, UndoingInv, DoneInv, Undoing, At
  <2> QED
    BY <2>1, <2>2, <2>3, <2>4 DEF ProcInv
<1>9. ASSUME NEW q \in Procs \ {p} PROVE Same(q) /\ pc[q] \in Bystanding
  <2>1. lock[p] = L!RESERVED_LOCK
    BY <1>0 DEF IInv, LocksMatch, Reserving
  <2> QED
    BY <1>0, <1>6, <2>1, OthersAway DEF Same
<1>10. DataInv'
  BY <1>0, <1>4, <1>7, <1>8, <1>9, BesideStep
<1> QED
  BY <1>4, <1>10 DEF Kept

\* The change counter is past every version that a cache was filled from.
LEMMA KeptCounter ==
    ASSUME IInv, DataInv, NEW p \in Procs, Counter(p)
    PROVE  Kept
<1> DEFINE page == [Page(p, 1) EXCEPT !.ctr = vers[p].ctr + 1, !.n = Size(p)]
<1>0. /\ UNCHANGED <<file, loose, sizes, jdisk, kind, vers, got, todo, next>>
      /\ pc[p] = "counter" /\ pc' = [pc EXCEPT ![p] = "journalSync"]
      /\ jrnl' = IF 1 \in dirty[p] THEN jrnl ELSE Journalled(jrnl, p, 1)
      /\ cache' = [cache EXCEPT ![p] = Put(@, 1, page)]
      /\ dirty' = [dirty EXCEPT ![p] = @ \cup {1}]
  BY DEF Counter, At, Go
<1>1. pc'[p] = "journalSync" /\ \A q \in Procs \ {p} : pc'[q] = pc[q]
  BY <1>0 DEF IInv, LocksMatch
<1>2. ~ Hot(jrnl) /\ file = Committed /\ JournalsAre
  <2>1. ~ Hot(jrnl) /\ JournalsAre
    BY <1>0 DEF IInv, NoneHot, InsideSteps, DataInv, DataTypes
  <2> QED
    BY <2>1, CommittedIs DEF DataInv
<1>3. Current(p) /\ Changed(p) /\ ProcInv(p) /\ dirty[p] # {} /\ Journals(p)
  BY <1>0 DEF DataInv, ProcInv, CacheInv, PreparingInv, Preparing
<1>4. Lists(jrnl', dirty[p] \cup {1})
  <2>1. CASE 1 \in dirty[p]
    <3>1. jrnl' = jrnl /\ dirty[p] \cup {1} = dirty[p]
      BY <1>0, <2>1
    <3>2. JournalTyped(jrnl) /\ Distinct(jrnl) /\ \A k \in 1 .. Len(jrnl.recs) : jrnl.recs[k].pg <= jrnl.orig
      BY JournalFacts DEF DataInv
    <3>3. jrnl.by = next /\ next > 0
      BY <1>0, <1>3 DEF Journals, ProcInv, PreparingInv, Preparing, Stamped
    <3>4. jrnl.hdr = FALSE
      BY <1>2, <3>2, <3>3 DEF Hot, JournalTyped
    <3> QED
      BY <1>3, <3>1, <3>2, <3>4 DEF Lists, Journals
  <2>2. CASE 1 \notin dirty[p]
    <3>1. jrnl' = Journalled(Base(p), p, 1)
      BY <1>0, <1>3, <2>2 DEF Base
    <3> QED
      BY <1>0, <1>2, <2>2, <3>1, JournalGrows
  <2> QED
    BY <2>1, <2>2
<1>5. /\ JournalTyped(jrnl)' /\ Distinct(jrnl)'
      /\ jrnl'.by = next /\ jrnl'.hdr = FALSE /\ jrnl'.orig = Len(file)
      /\ Pgs(jrnl)' = {k \in dirty[p] \cup {1} : k <= Len(file)}
      /\ \A k \in 1 .. Len(jrnl'.recs) :
             jrnl'.recs[k].pg <= jrnl'.orig /\ jrnl'.recs[k].was = file[jrnl'.recs[k].pg]
  BY <1>4 DEF Lists, JournalTyped, Distinct, Pgs
<1>6. FilesInv' /\ Committed' = Committed /\ Restored(jdisk)' = Restored(jdisk) /\ ~ Hot(jrnl)'
  <2>1. ~ Hot(jrnl)' /\ \A k \in 1 .. Len(jrnl'.recs) : jrnl'.recs[k].pg <= jrnl'.orig
    BY <1>5 DEF Hot
  <2> QED
    BY <1>0, <1>2, <1>5, <2>1, JournalOpen
<1>7. page \in PageType /\ Mixed(page.txns, 1) /\ page.ctr > Committed[1].ctr
  <2>1. Page(p, 1) \in PageType /\ Mixed(Page(p, 1).txns, 1)
    <3>1. CASE 1 \in dirty[p]
      BY <1>3, <3>1 DEF Page, Changed, DataInv, DataTypes
    <3>2. CASE 1 \notin dirty[p]
      <4>1. Page(p, 1) = PageOf(file, 1) /\ Page(p, 1) \in PageType
        BY <1>2, <1>3, <3>2, PageIs
      <4>2. Len(Committed) \in Nat \ {0}
        BY CommittedIs DEF DataInv
      <4> QED
        BY <1>2, <4>1, <4>2 DEF PageOf, Mixed, OldTxns
    <3> QED
      BY <3>1, <3>2
  <2>2. vers[p].ctr = Committed[1].ctr /\ vers[p].ctr \in Nat
    BY <1>3, CommittedIs DEF Current, VersOf, DataInv
  <2>3. Size(p) \in Nat
    BY <1>3, SizeIs
  <2>4. page \in PageType /\ page.ctr = vers[p].ctr + 1 /\ page.txns = Page(p, 1).txns
    <3>1. vers[p].ctr + 1 \in Nat
      BY <2>2
    <3> DEFINE x == Page(p, 1)
               c == vers[p].ctr + 1
               m == Size(p)
    <3>2. page = [x EXCEPT !.ctr = c, !.n = m] /\ x \in PageType /\ c \in Nat /\ m \in Nat
      BY <2>1, <2>3, <3>1
    <3> HIDE DEF page, x, c, m
    <3>3. page \in PageType /\ page.ctr = c /\ page.txns = x.txns
      BY <3>2 DEF PageType
    <3> QED
      BY <3>3 DEF x, c
  <2> HIDE DEF page
  <2> QED
    BY <2>1, <2>2, <2>4
<1> HIDE DEF page
<1>8. 1 \in 1 .. MaxPages /\ 1 <= Size(p) + 1
  <2>1. Size(p) \in Nat
    BY <1>3, SizeIs
  <2>2. Len(file) \in 1 .. MaxPages
    BY DEF DataInv, DataTypes
  <2> QED
    BY <2>1, <2>2, PagerBounds
<1>9. /\ Current(p)' /\ Changed(p)' /\ DOMAIN cache' = Procs
      /\ dirty'[p] = dirty[p] \cup {1}
      /\ \A k \in DOMAIN cache'[p] : k \in Nat \ {0} /\ cache'[p][k] \in PageType
      /\ dirty' \in [Procs -> SUBSET (1 .. MaxPages)]
      /\ \A q \in Procs \ {p} : cache'[q] = cache[q] /\ dirty'[q] = dirty[q]
  <2>1. UNCHANGED <<file, vers, next>> /\ Committed' = Committed
    BY <1>0, <1>6
  <2>2. Current(p)' /\ Changed(p)' /\ DOMAIN cache' = Procs
    BY <1>0, <1>3, <1>7, <1>8, <2>1, ChangedMore
  <2>3. dirty'[p] = dirty[p] \cup {1}
    BY <1>0 DEF DataInv, DataTypes
  <2>4. \A k \in DOMAIN cache'[p] : k \in Nat \ {0} /\ cache'[p][k] \in PageType
    BY <1>0, <1>3, <1>7, <1>8, <2>1, ChangedMore
  <2>5. dirty' \in [Procs -> SUBSET (1 .. MaxPages)]
    BY <1>0, <1>3, <1>7, <1>8, <2>1, ChangedMore
  <2>6. \A q \in Procs \ {p} : cache'[q] = cache[q] /\ dirty'[q] = dirty[q]
    BY <1>0, <1>3, <1>7, <1>8, <2>1, ChangedMore
  <2> QED
    BY <2>2, <2>3, <2>4, <2>5, <2>6
<1>10. Counted(p)'
  <2>1. cache'[p] = Put(cache[p], 1, page)
    BY <1>0 DEF DataInv, DataTypes
  <2>2. cache'[p][1] = page
    BY <2>1 DEF Put
  <2> QED
    BY <1>6, <1>7, <1>9, <2>2 DEF Counted
<1>11. DataTypes'
  BY <1>0, <1>5, <1>9 DEF DataInv, DataTypes, JournalTyped
<1>12. ProcInv(p)'
  <2>1. Reading(p)'
    BY <1>0, <1>1, <1>3 DEF ProcInv, Reading, At
  <2>2. CacheInv(p)'
    BY <1>1, <1>9 DEF CacheInv, Unjournalled, Preparing, At
  <2>3. PreparingInv(p)'
    <3>1. Journals(p)'
      BY <1>0, <1>2, <1>5, <1>6, <1>9 DEF Journals
    <3>2. next > 0 /\ \A k \in 1 .. Len(Committed) : next \notin Committed[k].txns
      BY <1>0, <1>3 DEF ProcInv, PreparingInv, Preparing, Stamped
    <3>3. dirty'[p] # {}
      BY <1>9
    <3> QED
      BY <1>0, <1>1, <1>6, <1>9, <1>10, <3>1, <3>2, <3>3
         DEF PreparingInv, Preparing, Stamped, At
  <2>4. (WritingInv(p) /\ UndoingInv(p) /\ DoneInv(p))'
    BY <1>1 DEF WritingInv, UndoingInv, DoneInv, Undoing, At
  <2> QED
    BY <2>1, <2>2, <2>3, <2>4 DEF ProcInv
<1>13. ASSUME NEW q \in Procs \ {p} PROVE Same(q) /\ pc[q] \in Bystanding
  <2>1. lock[p] = L!EXCLUSIVE_LOCK
    BY <1>0 DEF IInv, LocksMatch, Writing
  <2> QED
    BY <1>0, <1>1, <1>9, <2>1, OthersAway DEF Same
<1>14. DataInv'
  BY <1>0, <1>6, <1>11, <1>12, <1>13, BesideStep
<1> QED
  BY <1>6, <1>14 DEF Kept

-----------------------------------------------------------------------------
\* The journal becomes what a power failure would leave

\* A process with EXCLUSIVE: the others wait at the lock or have no statement.
LEMMA Alone ==
    ASSUME IInv, NEW p \in Procs, pc[p] \in Repairing \cup Writing, NEW q \in Procs \ {p}
    PROVE  pc[q] \in Bystanding /\ pc[q] \in {"idle", "shared"}
<1>1. lock[p] = L!EXCLUSIVE_LOCK
  BY DEF IInv, LocksMatch
<1> QED
  BY <1>1, OthersAway

\* Syncing the journal makes the power failure as harmless as a kill.
LEMMA JournalSynced ==
    ASSUME DataInv, UNCHANGED <<file, loose, sizes, jrnl, next>>, jdisk' = jrnl
    PROVE  FilesInv' /\ Committed' = Committed /\ Restored(jdisk)' = Committed
<1>1. Committed' = Committed /\ Restored(jdisk)' = Committed
  BY DEF Committed, Restored
<1>2. JournalSound(jrnl)' /\ JournalSound(jdisk)'
  BY DEF DataInv, FilesInv, JournalSound
<1>3. FilesInv'
  BY <1>1, <1>2 DEF DataInv, FilesInv, Sound
<1> QED
  BY <1>1, <1>3

\* The first sync is of the records, the second of the header.
LEMMA KeptJournalSync ==
    ASSUME IInv, DataInv, NEW p \in Procs, JournalSync(p)
    PROVE  Kept
<1>0. /\ UNCHANGED <<file, loose, sizes, jrnl, kind, cache, dirty, vers, got, todo, next>>
      /\ jdisk' = jrnl
      /\ \/ pc[p] = "journalSync" /\ pc'[p] = "header"
         \/ pc[p] = "headerSync" /\ pc'[p] = "pages"
      /\ \A q \in Procs \ {p} : pc'[q] = pc[q]
  BY DEF JournalSync, At, Go, memory, IInv, LocksMatch
<1>1. FilesInv' /\ Committed' = Committed /\ Restored(jdisk)' = Committed
  BY <1>0, JournalSynced
<1>2. DataTypes'
  BY <1>0 DEF DataInv, DataTypes
<1>3. /\ ProcInv(p) /\ Current(p) /\ Changed(p) /\ Journals(p) /\ Counted(p) /\ dirty[p] # {}
      /\ next > 0 /\ \A i \in 1 .. Len(Committed) : next \notin Committed[i].txns
  BY <1>0 DEF DataInv, ProcInv, CacheInv, PreparingInv, Preparing, Stamped
<1>4. /\ Current(p)' /\ Changed(p)' /\ Journals(p)' /\ Counted(p)'
  BY <1>0, <1>1, <1>3 DEF Current, Agrees, Changed, Journals, Counted, Mixed, OldTxns, Pgs
<1>5. ProcInv(p)'
  <2>1. Reading(p)'
    BY <1>0, <1>3 DEF ProcInv, Reading, At
  <2>2. CacheInv(p)'
    BY <1>0, <1>4 DEF CacheInv, Unjournalled, Preparing, At
  <2>3. PreparingInv(p)'
    <3>1. pc[p] = "journalSync" => ~ Hot(jrnl)
      BY <1>3 DEF ProcInv, PreparingInv
    <3> QED
      BY <1>0, <1>1, <1>3, <1>4, <3>1 DEF PreparingInv, Preparing, Undoing, Stamped, At
  <2>4. WritingInv(p)'
    <3> SUFFICES ASSUME pc'[p] = "pages"
                 PROVE  WritingInv(p)'
      BY <1>0 DEF WritingInv
    <3>1. Hot(jrnl) /\ file = Committed
      BY <1>0, <1>3 DEF ProcInv, PreparingInv, Journals, At
    <3>2. /\ Len(file) \in Nat \ {0} /\ jrnl.orig = Len(file)
          /\ Pgs(jrnl) = {i \in dirty[p] : i <= Len(file)}
      BY <1>3 DEF DataInv, DataTypes, Journals
    <3>3. 1 \in Pgs(jrnl) /\ 1 \in DOMAIN cache[p]
      BY <1>3, <3>2 DEF Counted, Changed
    <3>4. \A i \in 1 .. Len(file) : Mixed(file[i].txns, i)
      BY <3>1 DEF Mixed, OldTxns
    <3>5. Agrees(p, file)
      BY <1>3, <3>1 DEF Current
    <3>6. /\ Hot(jrnl)' /\ Pgs(jrnl)' = Pgs(jrnl) /\ Agrees(p, file)'
          /\ (\A i \in 1 .. Len(file) : Mixed(file[i].txns, i))'
      BY <1>0, <1>1, <3>1, <3>4, <3>5 DEF Pgs, Agrees, Mixed, OldTxns
    <3> QED
      BY <1>0, <1>4, <3>2, <3>3, <3>6 DEF WritingInv, At
  <2>5. (UndoingInv(p) /\ DoneInv(p))'
    BY <1>0 DEF UndoingInv, DoneInv, Undoing, At
  <2> QED
    BY <2>1, <2>2, <2>3, <2>4, <2>5 DEF ProcInv
<1>6. ASSUME NEW q \in Procs \ {p} PROVE Same(q) /\ pc[q] \in Bystanding
  <2>1. pc[p] \in Writing
    BY <1>0 DEF Writing
  <2> QED
    BY <1>0, <2>1, Alone DEF Same
<1>7. DataInv'
  BY <1>0, <1>1, <1>2, <1>5, <1>6, BesideStep
<1> QED
  BY <1>1, <1>7 DEF Kept

\* A hot journal is synced before it is played back.
LEMMA KeptHotSync ==
    ASSUME IInv, DataInv, NEW p \in Procs, HotSync(p)
    PROVE  Kept
<1>0. /\ UNCHANGED <<file, loose, sizes, jrnl, kind, cache, dirty, vers, got, todo, next>>
      /\ jdisk' = jrnl
      /\ pc[p] = "hotSync" /\ pc'[p] = IF jrnl.hdr THEN "truncate" ELSE "playSync"
      /\ \A q \in Procs \ {p} : pc'[q] = pc[q]
  BY DEF HotSync, At, Go, memory, IInv, LocksMatch
<1>1. FilesInv' /\ Committed' = Committed /\ Restored(jdisk)' = Committed
  BY <1>0, JournalSynced
<1>2. DataTypes'
  BY <1>0 DEF DataInv, DataTypes
<1>3. ProcInv(p) /\ Keeps(p) /\ dirty[p] = {} /\ got[p] = <<>>
  BY <1>0 DEF DataInv, ProcInv, CacheInv, Reading, Preparing, Unjournalled, At
<1>4. jrnl.hdr => Hot(jrnl)
  BY DEF DataInv, FilesInv, JournalSound, Hot
<1>5. ~ jrnl.hdr => file = Committed
  BY CommittedIs DEF DataInv, Hot
<1>6. ProcInv(p)'
  <2>1. Reading(p)'
    BY <1>0, <1>3 DEF Reading, At
  <2>2. CacheInv(p)'
    BY <1>0, <1>1, <1>3 DEF CacheInv, Unjournalled, Preparing, At, Keeps, Agrees
  <2>3. (PreparingInv(p) /\ WritingInv(p) /\ DoneInv(p))'
    BY <1>0 DEF PreparingInv, WritingInv, DoneInv, Preparing, Undoing, Stamped, At
  <2>4. UndoingInv(p)'
    BY <1>0, <1>1, <1>4, <1>5 DEF UndoingInv, Undoing, At, Hot
  <2> QED
    BY <2>1, <2>2, <2>3, <2>4 DEF ProcInv
<1>7. ASSUME NEW q \in Procs \ {p} PROVE Same(q) /\ pc[q] \in Bystanding
  <2>1. pc[p] \in Repairing
    BY <1>0 DEF Repairing
  <2> QED
    BY <1>0, <2>1, Alone DEF Same
<1>8. DataInv'
  BY <1>0, <1>1, <1>2, <1>6, <1>7, BesideStep
<1> QED
  BY <1>1, <1>8 DEF Kept

\* With a header the journal stands for the same database: nothing is written yet.
LEMMA KeptHeader ==
    ASSUME IInv, DataInv, NEW p \in Procs, Header(p)
    PROVE  Kept
<1>0. /\ UNCHANGED <<file, loose, sizes, jdisk, kind, cache, dirty, vers, got, todo, next>>
      /\ jrnl' = [jrnl EXCEPT !.hdr = TRUE]
      /\ pc[p] = "header" /\ pc'[p] = "headerSync"
      /\ \A q \in Procs \ {p} : pc'[q] = pc[q]
  BY DEF Header, At, Go, memory, IInv, LocksMatch
<1>1. /\ ProcInv(p) /\ Current(p) /\ Changed(p) /\ Journals(p) /\ Counted(p) /\ dirty[p] # {}
      /\ next > 0 /\ \A i \in 1 .. Len(Committed) : next \notin Committed[i].txns
      /\ jdisk = jrnl /\ ~ Hot(jrnl)
  BY <1>0 DEF DataInv, ProcInv, CacheInv, PreparingInv, Preparing, Stamped, At
<1>2. /\ jrnl'.by = jrnl.by /\ jrnl'.orig = jrnl.orig /\ jrnl'.recs = jrnl.recs /\ jrnl'.hdr = TRUE
  BY <1>0 DEF IInv, JournalsAre, NoJournal
<1>3. /\ JournalTyped(jrnl) /\ Distinct(jrnl)
      /\ \A k \in 1 .. Len(jrnl.recs) : jrnl.recs[k].pg <= jrnl.orig
      /\ file \in Seq(PageType) /\ Len(file) \in 1 .. MaxPages /\ file = Committed
      /\ loose = {} /\ sizes = {Len(file)} /\ Sound(file)
      /\ jrnl.orig = Len(file)
      /\ \A k \in 1 .. Len(jrnl.recs) : jrnl.recs[k].was = file[jrnl.recs[k].pg]
  BY <1>1, JournalFacts DEF DataInv, DataTypes, FilesInv, Journals
<1>4. JournalTyped(jrnl') /\ Distinct(jrnl') /\ Hot(jrnl') /\ Pgs(jrnl') = Pgs(jrnl)
  <2>1. jrnl.by # 0
    BY <1>1 DEF Journals
  <2>2. JournalTyped(jrnl') /\ Hot(jrnl')
    BY <1>2, <1>3, <2>1 DEF JournalTyped, Hot
  <2>3. Distinct(jrnl')
    BY <1>2, <1>3 DEF Distinct
  <2>4. Pgs(jrnl') = Pgs(jrnl)
    BY <1>2 DEF Pgs
  <2> QED
    BY <2>2, <2>3, <2>4
<1>5. NoneTorn(jrnl')
  <2> SUFFICES ASSUME NEW k \in 1 .. Len(jrnl.recs) PROVE 0 \notin jrnl.recs[k].was.txns
    BY <1>2 DEF NoneTorn
  <2>1. jrnl.recs[k].pg \in 1 .. Len(file)
    BY <1>3, RecordTyped
  <2> QED
    BY <1>3, <2>1 DEF Sound
<1>6. Committed' = Committed
  <2> DEFINE R == Replayed(file, jrnl')
  <2>1. /\ R \in Seq(PageType) /\ Len(R) = jrnl'.orig
        /\ \A k \in 1 .. Len(jrnl'.recs) :
               jrnl'.recs[k].pg <= jrnl'.orig => R[jrnl'.recs[k].pg] = jrnl'.recs[k].was
        /\ \A i \in (1 .. jrnl'.orig) \ Pgs(jrnl') : R[i] = PageOf(file, i)
    BY <1>3, <1>4, <1>5, ReplayedIs
  <2> HIDE DEF R
  <2>2. ASSUME NEW i \in 1 .. Len(file) PROVE R[i] = file[i]
    <3>1. CASE i \in Pgs(jrnl)
      <4>1. PICK k \in 1 .. Len(jrnl.recs) : jrnl.recs[k].pg = i
        BY <3>1 DEF Pgs
      <4> QED
        BY <1>2, <1>3, <2>1, <4>1
    <3>2. CASE i \notin Pgs(jrnl)
      BY <1>2, <1>3, <1>4, <2>1, <3>2 DEF PageOf
    <3> QED
      BY <3>1, <3>2
  <2>3. R = file
    BY <1>2, <1>3, <2>1, <2>2, SeqSame
  <2>4. Committed' = R
    BY <1>0 DEF Committed, Restored, R
  <2> QED
    BY <1>3, <2>3, <2>4
<1>7. Restored(jdisk)' = Restored(jdisk)
  BY <1>0 DEF Restored
<1>8. FilesInv'
  <2>1. JournalSound(jrnl)'
    <3>1. \A k \in 1 .. Len(jrnl'.recs) : jrnl'.recs[k].pg <= jrnl'.orig
      BY <1>2, <1>3
    <3>2. jrnl'.orig \in 1 .. MaxPages /\ jrnl'.by # 0
      BY <1>2, <1>3, <1>4 DEF Hot
    <3>3. \A i \in 1 .. jrnl'.orig : i \notin loose /\ \A s \in sizes : i <= s
      BY <1>2, <1>3
    <3>4. UNCHANGED <<loose, sizes>>
      BY <1>0
    <3> QED
      BY <1>4, <1>5, <3>1, <3>2, <3>3, <3>4 DEF JournalSound, Distinct, NoneTorn
  <2>2. JournalSound(jdisk)'
    BY <1>0 DEF DataInv, FilesInv, JournalSound
  <2>3. Sound(Committed)' /\ Sound(Restored(jdisk))'
    BY <1>0, <1>6, <1>7 DEF DataInv, FilesInv, Sound
  <2>4. jdisk'.by = jrnl'.by /\ jdisk'.orig = jrnl'.orig /\ jdisk'.recs = jrnl'.recs
    BY <1>0, <1>1, <1>2
  <2>5. (loose = {} /\ sizes = {Len(file)} /\ file = Committed)'
    BY <1>0, <1>3, <1>6
  <2> QED
    BY <2>1, <2>2, <2>3, <2>4, <2>5 DEF FilesInv
<1>9. DataTypes'
  BY <1>0, <1>4 DEF DataInv, DataTypes, JournalTyped
<1>10. ProcInv(p)'
  <2>1. Reading(p)'
    BY <1>0, <1>1 DEF ProcInv, Reading, At
  <2>2. CacheInv(p)'
    BY <1>0, <1>1, <1>6 DEF CacheInv, Unjournalled, Preparing, At, Current, Agrees
  <2>3. PreparingInv(p)'
    <3>1. Changed(p)' /\ Counted(p)'
      BY <1>0, <1>1, <1>6 DEF Changed, Mixed, OldTxns, Counted
    <3>2. Journals(p)'
      BY <1>0, <1>1, <1>2, <1>4, <1>6 DEF Journals, Pgs
    <3>3. Hot(jrnl)' /\ ~ Hot(jdisk)'
      BY <1>0, <1>1, <1>4 DEF Hot
    <3> QED
      BY <1>0, <1>1, <1>6, <3>1, <3>2, <3>3 DEF PreparingInv, Preparing, Stamped, At
  <2>4. (WritingInv(p) /\ UndoingInv(p) /\ DoneInv(p))'
    BY <1>0 DEF WritingInv, UndoingInv, DoneInv, Undoing, At
  <2> QED
    BY <2>1, <2>2, <2>3, <2>4 DEF ProcInv
<1>11. ASSUME NEW q \in Procs \ {p} PROVE Same(q) /\ pc[q] \in Bystanding
  <2>1. pc[p] \in Writing
    BY <1>0 DEF Writing
  <2> QED
    BY <1>0, <2>1, Alone DEF Same
<1>12. DataInv'
  BY <1>0, <1>6, <1>8, <1>9, <1>10, <1>11, BesideStep
<1> QED
  BY <1>6, <1>7, <1>12 DEF Kept

-----------------------------------------------------------------------------
\* Steps that change the database file

\* As long as the pages without a record stay, the journal restores the same database.
LEMMA FileChanged ==
    ASSUME DataInv, Hot(jrnl), jdisk = jrnl, UNCHANGED <<jrnl, jdisk, next>>,
           file' \in Seq(PageType), Len(file') \in 1 .. MaxPages,
           sizes' \subseteq sizes \cup {Len(file')},
           \A k \in (1 .. jrnl.orig) \ Pgs(jrnl) :
               k \notin loose' /\ k <= Len(file') /\ file'[k] = file[k]
    PROVE  FilesInv' /\ Committed' = Committed /\ Restored(jdisk)' = Restored(jdisk)
<1>1. /\ JournalTyped(jrnl) /\ Distinct(jrnl) /\ NoneTorn(jrnl)
      /\ \A k \in (1 .. jrnl.orig) \ Pgs(jrnl) : k <= Len(file)
      /\ file \in Seq(PageType) /\ JournalSound(jrnl) /\ Sound(Committed)
  BY JournalFacts DEF DataInv, DataTypes, FilesInv
<1>2. \A k \in (1 .. jrnl.orig) \ Pgs(jrnl) : PageOf(file, k) = PageOf(file', k)
  BY <1>1 DEF PageOf
<1>3. Replayed(file, jrnl) = Replayed(file', jrnl)
  BY <1>1, <1>2, ReplayedSame
<1>4. Committed' = Committed /\ Restored(jdisk)' = Restored(jdisk)
  BY <1>3 DEF Committed, Restored
<1>5. JournalSound(jrnl)' /\ JournalSound(jdisk)'
  <2>1. \A k \in (1 .. jrnl.orig) \ Pgs(jrnl) : k \notin loose' /\ \A s \in sizes' : k <= s
    BY <1>1 DEF JournalSound
  <2> QED
    BY <1>1, <2>1 DEF JournalSound, Pgs
<1>6. Hot(jrnl)' /\ Hot(jdisk)'
  BY DEF Hot
<1>7. Sound(Committed)' /\ Sound(Restored(jdisk))'
  BY <1>1, <1>4 DEF Sound, Committed
<1>8. FilesInv'
  BY <1>5, <1>6, <1>7 DEF FilesInv
<1> QED
  BY <1>4, <1>8

\* A page put into a file, or added at its end
LEMMA PutFile ==
    ASSUME NEW f \in Seq(PageType), NEW i \in 1 .. Len(f) + 1, NEW page \in PageType
    PROVE  /\ Put(f, i, page) \in Seq(PageType)
           /\ Len(Put(f, i, page)) = IF i = Len(f) + 1 THEN i ELSE Len(f)
           /\ Put(f, i, page)[i] = page
           /\ \A k \in 1 .. Len(f) : k # i => Put(f, i, page)[k] = f[k]
<1> DEFINE m == Len(f)
           n == IF i = m + 1 THEN i ELSE m
           g == Put(f, i, page)
<1>1. m \in Nat /\ DOMAIN f = 1 .. m /\ \A k \in 1 .. m : f[k] \in PageType
  BY SeqHas
<1>2. g = [j \in (1 .. m) \cup {i} |-> IF j = i THEN page ELSE f[j]]
  BY <1>1 DEF Put
<1>3. n \in Nat
  BY <1>1
<1> HIDE DEF m
<1>4. (1 .. m) \cup {i} = 1 .. n
  BY <1>1 DEF m
<1> HIDE DEF g, n
<1>5. g \in [1 .. n -> PageType]
  BY <1>1, <1>2, <1>4
<1>6. g \in Seq(PageType) /\ Len(g) = n
  BY <1>3, <1>5, SeqIs
<1>7. g[i] = page /\ \A k \in 1 .. m : k # i => g[k] = f[k]
  BY <1>2
<1> QED
  BY <1>6, <1>7 DEF g, n, m

\* The lowest changed page goes to the file: one the journal has, or one that is new.
LEMMA KeptWritePage ==
    ASSUME IInv, DataInv, NEW p \in Procs, WritePage(p)
    PROVE  Kept
<1>0. PICK i \in dirty[p] :
          /\ \A k \in dirty[p] : i <= k
          /\ file' = Put(file, i, cache[p][i]) /\ loose' = loose \cup {i}
          /\ sizes' = sizes \cup {Len(file')}
          /\ vers' = [vers EXCEPT ![p] = IF i = 1 THEN VersOf(cache[p][1]) ELSE @]
          /\ dirty' = [dirty EXCEPT ![p] = @ \ {i}]
  BY DEF WritePage, WriteFile
<1>1. /\ UNCHANGED <<jrnl, jdisk, kind, cache, got, todo, next>>
      /\ pc[p] = "pages" /\ pc'[p] = IF dirty'[p] = {} THEN "dbSync" ELSE "pages"
      /\ \A q \in Procs \ {p} : pc'[q] = pc[q]
  BY DEF WritePage, At, Go, IInv, LocksMatch
<1>2. /\ file \in Seq(PageType) /\ Len(file) \in 1 .. MaxPages
      /\ vers \in [Procs -> [ctr : Int, n : Nat]]
      /\ \A k \in DOMAIN cache[p] : k \in Nat \ {0} /\ cache[p][k] \in PageType
      /\ dirty \in [Procs -> SUBSET (1 .. MaxPages)]
      /\ sizes \subseteq 1 .. MaxPages /\ DOMAIN cache = Procs
  BY DEF DataInv, DataTypes
<1>3. /\ dirty'[p] = dirty[p] \ {i} /\ dirty' \in [Procs -> SUBSET (1 .. MaxPages)]
      /\ \A q \in Procs \ {p} : dirty'[q] = dirty[q] /\ vers'[q] = vers[q]
      /\ i \in 1 .. MaxPages /\ dirty[p] \subseteq 1 .. MaxPages
  BY <1>0, <1>2
<1>4. /\ ProcInv(p) /\ Hot(jrnl) /\ jdisk = jrnl /\ Changed(p) /\ Agrees(p, file)
      /\ jrnl.orig <= Len(file)
      /\ \A k \in dirty[p] : k <= jrnl.orig => k \in Pgs(jrnl)
      /\ 1 \in Pgs(jrnl) /\ 1 \in DOMAIN cache[p]
      /\ IF 1 \in dirty[p] THEN Counted(p)
         ELSE file[1].ctr > Committed[1].ctr /\ vers[p] = VersOf(file[1])
      /\ \A k \in 1 .. Len(file) : Mixed(file[k].txns, k)
  BY <1>1 DEF DataInv, ProcInv, WritingInv
<1> DEFINE n == Len(file)
<1>5. i \in 1 .. n + 1
  <2>1. ~ (i > n + 1)
    <3> SUFFICES ASSUME i > n + 1 PROVE FALSE
      OBVIOUS
    <3>1. n + 1 \in (n + 1) .. i
      BY <1>2, <1>3
    <3>2. n + 1 \in dirty[p]
      BY <1>4, <3>1 DEF Changed
    <3> QED
      BY <1>0, <1>2, <1>3, <3>2
  <2> QED
    BY <1>2, <1>3, <2>1
<1>6. cache[p][i] \in PageType /\ i \in DOMAIN cache[p] /\ Mixed(cache[p][i].txns, i)
  BY <1>2, <1>4 DEF Changed
<1>7. /\ file' \in Seq(PageType)
      /\ Len(file') = IF i = n + 1 THEN i ELSE n
      /\ file'[i] = cache[p][i]
      /\ \A k \in 1 .. n : k # i => file'[k] = file[k]
  <2> DEFINE page == cache[p][i]
             g == Put(file, i, page)
  <2>0. file' = g /\ page \in PageType
    BY <1>0, <1>6
  <2> HIDE DEF page
  <2>1. g \in Seq(PageType)
    BY <1>2, <1>5, <2>0, PutFile
  <2>2. Len(g) = IF i = n + 1 THEN i ELSE n
    BY <1>2, <1>5, <2>0, PutFile
  <2>3. g[i] = page
    BY <1>2, <1>5, <2>0, PutFile
  <2>4. \A k \in 1 .. n : k # i => g[k] = file[k]
    BY <1>2, <1>5, <2>0, PutFile
  <2> HIDE DEF g
  <2> QED
    BY <2>0, <2>1, <2>2, <2>3, <2>4 DEF page
<1>8. Len(file') \in 1 .. MaxPages /\ n <= Len(file') /\ n \in Nat
  BY <1>2, <1>3, <1>7
<1> HIDE DEF n
<1>9. \A k \in (1 .. jrnl.orig) \ Pgs(jrnl) :
          k \notin loose' /\ k <= Len(file') /\ file'[k] = file[k]
  <2> SUFFICES ASSUME NEW k \in (1 .. jrnl.orig) \ Pgs(jrnl)
               PROVE  k \notin loose' /\ k <= Len(file') /\ file'[k] = file[k]
    OBVIOUS
  <2>1. k \notin loose /\ k <= n /\ jrnl.orig \in Nat
    BY <1>4, JournalFacts DEF DataInv, n
  <2>2. k # i
    BY <1>4
  <2> QED
    BY <1>0, <1>7, <1>8, <2>1, <2>2
<1>10. FilesInv' /\ Committed' = Committed /\ Restored(jdisk)' = Restored(jdisk)
  <2>1. UNCHANGED <<jrnl, jdisk, next>> /\ sizes' \subseteq sizes \cup {Len(file')}
    BY <1>0, <1>1
  <2> QED
    BY <1>4, <1>7, <1>8, <1>9, <2>1, FileChanged
<1>11. vers' \in [Procs -> [ctr : Int, n : Nat]] /\ vers'[p] = IF i = 1 THEN VersOf(cache[p][1]) ELSE vers[p]
  <2>1. VersOf(cache[p][1]) \in [ctr : Int, n : Nat]
    BY <1>2, <1>4 DEF VersOf, PageType
  <2> QED
    BY <1>0, <1>2, <2>1
<1>12. DataTypes'
  <2>0. Len(file') \in 1 .. MaxPages /\ sizes' = sizes \cup {Len(file')} /\ sizes \subseteq 1 .. MaxPages
    BY <1>0, <1>2, <1>8
  <2>1. sizes' \subseteq 1 .. MaxPages /\ Len(file') \in sizes'
    BY <2>0
  <2> QED
    BY <1>1, <1>3, <1>7, <1>8, <1>11, <2>1 DEF DataInv, DataTypes
<1>13. Changed(p)'
  <2>1. dirty'[p] \subseteq DOMAIN cache'[p] /\ \A k \in dirty'[p] : Mixed(cache[p][k].txns, k)'
    BY <1>1, <1>3, <1>4, <1>10 DEF Changed, Mixed, OldTxns
  <2>2. ASSUME NEW k \in dirty'[p] PROVE (Len(file') + 1) .. k \subseteq dirty'[p]
    <3>1. (n + 1) .. k \subseteq dirty[p] /\ k \in Nat
      BY <1>3, <1>4 DEF Changed, n
    <3>2. \A l \in (Len(file') + 1) .. k : l \in (n + 1) .. k /\ l # i
      BY <1>5, <1>7, <1>8, <3>1
    <3> QED
      BY <1>3, <3>1, <3>2
  <2>3. \E m \in {Len(file')} \cup dirty'[p] : \A k \in {Len(file')} \cup dirty'[p] : k <= m
    <3>1. PICK m \in {n} \cup dirty[p] : \A k \in {n} \cup dirty[p] : k <= m
      BY <1>4 DEF Changed, n
    <3>2. m \in Nat /\ i <= m /\ n <= m
      BY <1>3, <1>8, <3>1
    <3>3. m \in {Len(file')} \cup dirty'[p]
      BY <1>3, <1>5, <1>7, <1>8, <3>1, <3>2
    <3>4. \A k \in {Len(file')} \cup dirty'[p] : k <= m
      BY <1>3, <1>7, <3>1, <3>2
    <3> QED
      BY <3>3, <3>4
  <2> QED
    BY <2>1, <2>2, <2>3 DEF Changed
<1>14. Agrees(p, file)'
  <2> SUFFICES ASSUME NEW k \in DOMAIN cache[p] \ dirty'[p]
               PROVE  k <= Len(file') /\ cache[p][k] = file'[k]
    BY <1>1 DEF Agrees
  <2>1. CASE k = i
    BY <1>3, <1>7, <1>8, <1>5, <2>1
  <2>2. CASE k # i
    <3>1. k <= n /\ cache[p][k] = file[k] /\ k \in Nat \ {0}
      BY <1>2, <1>3, <1>4, <2>2 DEF Agrees, n
    <3> QED
      BY <1>7, <1>8, <2>2, <3>1
  <2> QED
    BY <2>1, <2>2
<1>15. \A k \in 1 .. Len(file') : Mixed(file'[k].txns, k)
  <2> SUFFICES ASSUME NEW k \in 1 .. Len(file') PROVE Mixed(file'[k].txns, k)
    OBVIOUS
  <2>1. CASE k = i
    BY <1>6, <1>7, <2>1
  <2>2. CASE k # i
    <3>1. k \in 1 .. n
      BY <1>5, <1>7, <1>8, <2>2
    <3> QED
      BY <1>4, <1>7, <2>2, <3>1 DEF n
  <2> QED
    BY <2>1, <2>2
<1>16. IF 1 \in dirty'[p] THEN Counted(p)'
       ELSE file'[1].ctr > Committed[1].ctr /\ vers'[p] = VersOf(file'[1])
  <2>1. CASE 1 \in dirty[p]
    <3>1. i = 1
      BY <1>0, <1>3, <2>1
    <3> QED
      BY <1>3, <1>4, <1>7, <1>11, <2>1, <3>1 DEF Counted
  <2>2. CASE 1 \notin dirty[p]
    <3>1. i # 1 /\ 1 \notin dirty'[p] /\ 1 \in 1 .. n
      BY <1>2, <1>3, <2>2 DEF n
    <3> QED
      BY <1>4, <1>7, <1>11, <2>2, <3>1
  <2> QED
    BY <2>1, <2>2
<1>17. ProcInv(p)'
  <2>1. Reading(p)'
    BY <1>1, <1>4 DEF ProcInv, Reading, At
  <2>2. CacheInv(p)'
    BY <1>1 DEF CacheInv, Unjournalled, Preparing, At
  <2>3. PreparingInv(p)'
    BY <1>1, <1>4, <1>10 DEF ProcInv, PreparingInv, Preparing, Undoing, Stamped, At
  <2>4. WritingInv(p)'
    <3>1. jrnl.orig <= Len(file') /\ jrnl.orig \in Nat
      BY <1>2, <1>4, <1>8, JournalFacts DEF n, DataInv
    <3>2. (\A k \in 1 .. Len(file) : Mixed(file[k].txns, k))'
      BY <1>1, <1>10, <1>15 DEF Mixed, OldTxns
    <3>3. Hot(jrnl)' /\ Pgs(jrnl)' = Pgs(jrnl)
      BY <1>1, <1>4 DEF Hot, Pgs
    <3> QED
      BY <1>1, <1>3, <1>4, <1>10, <1>13, <1>14, <1>16, <3>1, <3>2, <3>3 DEF WritingInv, At
  <2>5. (UndoingInv(p) /\ DoneInv(p))'
    BY <1>1 DEF UndoingInv, DoneInv, Undoing, At
  <2> QED
    BY <2>1, <2>2, <2>3, <2>4, <2>5 DEF ProcInv
<1>18. ASSUME NEW q \in Procs \ {p}
       PROVE  Same(q) /\ pc[q] \in Bystanding /\ pc[q] \in {"idle", "shared"}
  <2>1. pc[p] \in Writing
    BY <1>1 DEF Writing
  <2> QED
    BY <1>1, <1>3, <2>1, Alone DEF Same
<1>19. DataInv'
  BY <1>10, <1>12, <1>17, <1>18, BesideStep
<1> QED
  BY <1>10, <1>19 DEF Kept

\* The first step back is to the old size.
LEMMA KeptTruncate ==
    ASSUME IInv, DataInv, NEW p \in Procs, Truncate(p)
    PROVE  Kept
<1>0. /\ file' = Resized(file, jrnl.orig) /\ sizes' = sizes \cup {jrnl.orig}
      /\ UNCHANGED <<loose, jrnl, jdisk, kind, dirty, vers, got, next>>
      /\ (pc[p] = "truncate" /\ pc'[p] = "play") \/ (pc[p] = "undoTruncate" /\ pc'[p] = "undo")
      /\ \A q \in Procs \ {p} : pc'[q] = pc[q]
      /\ todo' = [todo EXCEPT ![p] = 1]
      /\ cache' = [cache EXCEPT ![p] = IF pc[p] = "undoTruncate" THEN @
                                       ELSE IF jrnl.recs # <<>> THEN <<>> ELSE UpTo(@, jrnl.orig)]
  BY DEF Truncate, At, Go, IInv, LocksMatch
<1>1. /\ file \in Seq(PageType) /\ sizes \subseteq 1 .. MaxPages /\ DOMAIN cache = Procs
      /\ \A k \in 1 .. Len(file) : file[k] \in PageType
      /\ \A k \in DOMAIN cache[p] : k \in Nat \ {0} /\ cache[p][k] \in PageType
      /\ todo \in [Procs -> Nat \ {0}]
  BY SeqHas DEF DataInv, DataTypes
<1>2. ProcInv(p) /\ Hot(jrnl) /\ jdisk = jrnl /\ dirty[p] = {}
  BY <1>0 DEF DataInv, ProcInv, UndoingInv, CacheInv, Undoing, Preparing
<1>3. /\ jrnl.orig \in 1 .. MaxPages
      /\ \A k \in (1 .. jrnl.orig) \ Pgs(jrnl) : k \notin loose /\ k <= Len(file)
  BY <1>2, JournalFacts DEF DataInv
<1>4. /\ file' \in Seq(PageType) /\ Len(file') = jrnl.orig
      /\ \A k \in 1 .. jrnl.orig : k <= Len(file) => file'[k] = file[k]
  <2> DEFINE n == jrnl.orig
             g == Resized(file, n)
  <2>1. g = [i \in 1 .. n |-> IF i <= Len(file) THEN file[i] ELSE Zero]
    BY DEF Resized
  <2>2. n \in Nat
    BY <1>3
  <2> HIDE DEF g, n
  <2>3. g \in [1 .. n -> PageType]
    BY <1>1, <2>1, ZeroTyped
  <2>4. g \in Seq(PageType) /\ Len(g) = n
    BY <2>2, <2>3, SeqIs
  <2>5. \A k \in 1 .. n : k <= Len(file) => g[k] = file[k]
    BY <2>1
  <2>6. file' = g
    BY <1>0 DEF g, n
  <2> QED
    BY <2>4, <2>5, <2>6 DEF n
<1>5. FilesInv' /\ Committed' = Committed /\ Restored(jdisk)' = Restored(jdisk)
  <2>1. UNCHANGED <<jrnl, jdisk, next>> /\ sizes' \subseteq sizes \cup {Len(file')}
    BY <1>0, <1>4
  <2>2. \A k \in (1 .. jrnl.orig) \ Pgs(jrnl) :
            k \notin loose' /\ k <= Len(file') /\ file'[k] = file[k]
    BY <1>0, <1>3, <1>4
  <2>3. Len(file') \in 1 .. MaxPages
    BY <1>3, <1>4
  <2> QED
    BY <1>2, <1>4, <2>1, <2>2, <2>3, FileChanged
<1>6. /\ DOMAIN cache' = Procs /\ \A q \in Procs \ {p} : cache'[q] = cache[q] /\ todo'[q] = todo[q]
      /\ todo' \in [Procs -> Nat \ {0}] /\ todo'[p] = 1
      /\ pc[p] = "undoTruncate" => cache'[p] = cache[p]
      /\ pc[p] = "truncate" => jrnl.recs = <<>> \/ DOMAIN cache'[p] = {}
      /\ \A k \in DOMAIN cache'[p] : k \in DOMAIN cache[p] /\ cache'[p][k] = cache[p][k]
  <2>1. /\ DOMAIN cache' = Procs /\ \A q \in Procs \ {p} : cache'[q] = cache[q] /\ todo'[q] = todo[q]
        /\ todo' \in [Procs -> Nat \ {0}] /\ todo'[p] = 1
    BY <1>0, <1>1
  <2>2. cache'[p] = IF pc[p] = "undoTruncate" THEN cache[p]
                    ELSE IF jrnl.recs # <<>> THEN <<>> ELSE UpTo(cache[p], jrnl.orig)
    BY <1>0, <1>1
  <2>3. \A k \in DOMAIN UpTo(cache[p], jrnl.orig) :
            k \in DOMAIN cache[p] /\ UpTo(cache[p], jrnl.orig)[k] = cache[p][k]
    BY DEF UpTo, Restrict
  <2>4. DOMAIN <<>> = {}
    OBVIOUS
  <2>5. \A k \in DOMAIN cache'[p] : k \in DOMAIN cache[p] /\ cache'[p][k] = cache[p][k]
    BY <2>2, <2>3, <2>4
  <2> QED
    BY <2>1, <2>2, <2>4, <2>5
<1>7. DataTypes'
  <2>1. sizes' \subseteq 1 .. MaxPages /\ Len(file') \in sizes' /\ Len(file') \in 1 .. MaxPages
    BY <1>0, <1>1, <1>3, <1>4
  <2>2. \A k \in DOMAIN cache'[p] : k \in Nat \ {0} /\ cache'[p][k] \in PageType
    BY <1>1, <1>6
  <2> QED
    BY <1>0, <1>4, <1>6, <2>1, <2>2 DEF DataInv, DataTypes
<1>8. ProcInv(p)'
  <2>1. Reading(p)'
    BY <1>0, <1>2 DEF ProcInv, Reading, At
  <2>2. CacheInv(p)'
    <3>1. pc[p] = "truncate" => Keeps(p)
      BY <1>2 DEF ProcInv, CacheInv, Unjournalled
    <3>2. pc[p] = "truncate" => Keeps(p)'
      BY <1>0, <1>2, <1>5, <1>6, <3>1 DEF Keeps, Agrees
    <3> QED
      BY <1>0, <1>2, <3>2 DEF CacheInv, Unjournalled, Preparing, At
  <2>3. PreparingInv(p)'
    BY <1>0, <1>2, <1>5 DEF ProcInv, PreparingInv, Preparing, Undoing, Stamped, At
  <2>4. (WritingInv(p) /\ DoneInv(p))'
    BY <1>0 DEF WritingInv, DoneInv, At
  <2>5. UndoingInv(p)'
    <3>1. Hot(jrnl)' /\ Pgs(jrnl)' = Pgs(jrnl)
      BY <1>0, <1>2 DEF Hot, Pgs
    <3>2. \A k : k \notin 1 .. todo'[p] - 1
      BY <1>6
    <3>3. \A k : ~ Played(p, k)'
      BY <3>2 DEF Played
    <3>4. CASE pc[p] = "truncate"
      BY <1>0, <1>2, <1>4, <1>6, <3>1, <3>2, <3>4 DEF UndoingInv, Undoing, At
    <3>5. CASE pc[p] = "undoTruncate"
      <4>1. /\ 1 \in Pgs(jrnl) /\ 1 \in DOMAIN cache[p]
            /\ \A i \in DOMAIN cache[p] : i <= jrnl.orig
            /\ \A i \in DOMAIN cache[p] : i \notin Pgs(jrnl) => cache[p][i] = Committed[i]
        BY <1>2, <3>5 DEF ProcInv, UndoingInv, Undoing
      <4> QED
        BY <1>0, <1>2, <1>4, <1>5, <1>6, <3>1, <3>2, <3>3, <3>5, <4>1
           DEF UndoingInv, Undoing, At
    <3> QED
      BY <1>0, <3>4, <3>5
  <2> QED
    BY <2>1, <2>2, <2>3, <2>4, <2>5 DEF ProcInv
<1>9. ASSUME NEW q \in Procs \ {p}
      PROVE  Same(q) /\ pc[q] \in Bystanding /\ pc[q] \in {"idle", "shared"}
  <2>1. pc[p] \in Repairing \cup Writing
    BY <1>0 DEF Writing, Repairing
  <2> QED
    BY <1>0, <1>6, <2>1, Alone DEF Same
<1>10. DataInv'
  BY <1>5, <1>7, <1>8, <1>9, BesideStep
<1> QED
  BY <1>5, <1>10 DEF Kept

\* Then each page that has a record is put back.
LEMMA KeptPlayPage ==
    ASSUME IInv, DataInv, NEW p \in Procs, PlayPage(p)
    PROVE  Kept
<1> DEFINE t == todo[p]
           r == jrnl.recs[t]
<1>0. /\ file' = Put(file, r.pg, r.was) /\ loose' = loose \cup {r.pg}
      /\ sizes' = sizes \cup {Len(file')}
      /\ IF r.pg \in DOMAIN cache[p]
         THEN /\ cache' = [cache EXCEPT ![p][r.pg] = r.was]
              /\ vers' = [vers EXCEPT ![p] = IF r.pg = 1 THEN VersOf(r.was) ELSE @]
         ELSE UNCHANGED <<cache, vers>>
      /\ todo' = [todo EXCEPT ![p] = @ + 1] /\ t <= Len(jrnl.recs)
      /\ pc[p] \in {"play", "undo"}
      /\ UNCHANGED <<jrnl, jdisk, pc, kind, dirty, got, next>>
  BY DEF PlayPage, WriteFile, MoreToPlay, Playing, At
<1>1. /\ file \in Seq(PageType) /\ sizes \subseteq 1 .. MaxPages /\ DOMAIN cache = Procs
      /\ Len(file) \in 1 .. MaxPages
      /\ \A k \in DOMAIN cache[p] : k \in Nat \ {0} /\ cache[p][k] \in PageType
      /\ todo \in [Procs -> Nat \ {0}] /\ vers \in [Procs -> [ctr : Int, n : Nat]]
  BY DEF DataInv, DataTypes
<1>2. /\ ProcInv(p) /\ Hot(jrnl) /\ jdisk = jrnl /\ dirty[p] = {} /\ Len(file) = jrnl.orig
      /\ \A k \in 1 .. t - 1 : k <= Len(jrnl.recs) /\ file[jrnl.recs[k].pg] = jrnl.recs[k].was
  BY <1>0 DEF DataInv, ProcInv, UndoingInv, CacheInv, Undoing, Preparing
<1>3. /\ JournalTyped(jrnl) /\ Distinct(jrnl) /\ jrnl.orig \in 1 .. MaxPages
      /\ \A k \in 1 .. Len(jrnl.recs) : jrnl.recs[k].pg <= jrnl.orig
      /\ \A k \in (1 .. jrnl.orig) \ Pgs(jrnl) : k \notin loose /\ k <= Len(file)
      /\ \A k \in 1 .. Len(jrnl.recs) : Committed[jrnl.recs[k].pg] = jrnl.recs[k].was
  BY <1>2, JournalFacts, CommittedIs DEF DataInv
<1>4. t \in Nat \ {0} /\ Len(jrnl.recs) \in Nat /\ t \in 1 .. Len(jrnl.recs)
  <2>1. t \in Nat \ {0}
    BY <1>1
  <2>2. Len(jrnl.recs) \in Nat
    BY <1>3, SeqHas DEF JournalTyped
  <2> QED
    BY <1>0, <2>1, <2>2
<1>5. r.pg \in 1 .. Len(file) /\ r.was \in PageType /\ r.pg \in Pgs(jrnl) /\ r.was = Committed[r.pg]
  BY <1>2, <1>3, <1>4, RecordTyped DEF Pgs
<1> HIDE DEF r, t
<1>6. /\ file' \in Seq(PageType) /\ Len(file') = Len(file) /\ file'[r.pg] = r.was
      /\ \A k \in 1 .. Len(file) : k # r.pg => file'[k] = file[k]
  <2> DEFINE i == r.pg
             page == r.was
             g == Put(file, i, page)
             n == Len(file)
  <2>0. file' = g /\ page \in PageType /\ i \in 1 .. n /\ n \in Nat
    BY <1>0, <1>1, <1>5
  <2> HIDE DEF page, i
  <2>1. i \in 1 .. n + 1 /\ i # n + 1
    BY <2>0
  <2>2. g \in Seq(PageType)
    BY <1>1, <2>0, <2>1, PutFile
  <2>3. Len(g) = n
    BY <1>1, <2>0, <2>1, PutFile
  <2>4. DOMAIN file = 1 .. n
    BY <1>1, SeqHas
  <2>5. g[i] = page /\ \A k \in 1 .. n : k # i => g[k] = file[k]
    BY <2>0, <2>4 DEF Put
  <2> HIDE DEF g
  <2> QED
    BY <2>0, <2>2, <2>3, <2>5 DEF page, i
<1>7. FilesInv' /\ Committed' = Committed /\ Restored(jdisk)' = Restored(jdisk)
  <2>1. UNCHANGED <<jrnl, jdisk, next>> /\ sizes' \subseteq sizes \cup {Len(file')}
    BY <1>0
  <2>2. \A k \in (1 .. jrnl.orig) \ Pgs(jrnl) :
            k \notin loose' /\ k <= Len(file') /\ file'[k] = file[k]
    BY <1>0, <1>2, <1>3, <1>5, <1>6
  <2>3. Len(file') \in 1 .. MaxPages
    BY <1>1, <1>6
  <2> QED
    BY <1>2, <1>6, <2>1, <2>2, <2>3, FileChanged
<1>8. /\ DOMAIN cache' = Procs
      /\ \A q \in Procs \ {p} : cache'[q] = cache[q] /\ vers'[q] = vers[q] /\ todo'[q] = todo[q]
      /\ todo' \in [Procs -> Nat \ {0}] /\ todo'[p] = t + 1
      /\ vers' \in [Procs -> [ctr : Int, n : Nat]]
  <2>1. VersOf(r.was) \in [ctr : Int, n : Nat]
    BY <1>5 DEF VersOf, PageType
  <2>2. DOMAIN cache' = Procs /\ \A q \in Procs \ {p} : cache'[q] = cache[q]
    BY <1>0, <1>1
  <2>3. vers' \in [Procs -> [ctr : Int, n : Nat]] /\ \A q \in Procs \ {p} : vers'[q] = vers[q]
    BY <1>0, <1>1, <2>1
  <2>4. /\ todo' \in [Procs -> Nat \ {0}] /\ todo'[p] = t + 1
        /\ \A q \in Procs \ {p} : todo'[q] = todo[q]
    BY <1>0, <1>1 DEF t
  <2> QED
    BY <2>2, <2>3, <2>4
<1>9. /\ DOMAIN cache'[p] = DOMAIN cache[p]
      /\ \A k \in DOMAIN cache[p] : cache'[p][k] = IF k = r.pg THEN r.was ELSE cache[p][k]
      /\ vers'[p] = IF r.pg = 1 /\ 1 \in DOMAIN cache[p] THEN VersOf(r.was) ELSE vers[p]
  BY <1>0, <1>1
<1>10. DataTypes'
  <2>0. Len(file') \in 1 .. MaxPages /\ sizes' = sizes \cup {Len(file')} /\ sizes \subseteq 1 .. MaxPages
    BY <1>0, <1>1, <1>6
  <2>1. sizes' \subseteq 1 .. MaxPages /\ Len(file') \in sizes' /\ Len(file') \in 1 .. MaxPages
    BY <1>1, <1>6, <2>0
  <2>2. \A k \in DOMAIN cache'[p] : k \in Nat \ {0} /\ cache'[p][k] \in PageType
    BY <1>1, <1>5, <1>9
  <2> QED
    BY <1>0, <1>6, <1>8, <2>1, <2>2 DEF DataInv, DataTypes
<1>11. pc[p] = "play" => DOMAIN cache[p] = {}
  <2>1. pc[p] = "play" => jrnl.recs = <<>> \/ DOMAIN cache[p] = {}
    BY <1>2 DEF ProcInv, UndoingInv, At
  <2> QED
    BY <1>4, <2>1
<1>12. ProcInv(p)'
  <2>1. Reading(p)'
    BY <1>0, <1>2 DEF ProcInv, Reading, At
  <2>2. CacheInv(p)'
    BY <1>0, <1>2, <1>9, <1>11 DEF CacheInv, Unjournalled, Preparing, At, Keeps
  <2>3. PreparingInv(p)'
    BY <1>0, <1>2, <1>7 DEF ProcInv, PreparingInv, Preparing, Undoing, Stamped, At
  <2>4. (WritingInv(p) /\ DoneInv(p))'
    BY <1>0 DEF WritingInv, DoneInv, At
  <2>5. UndoingInv(p)'
    <3>1. Hot(jrnl)' /\ Pgs(jrnl)' = Pgs(jrnl)
      BY <1>0, <1>2 DEF Hot, Pgs
    <3>2. ASSUME NEW k \in 1 .. todo'[p] - 1
          PROVE  k <= Len(jrnl.recs) /\ file'[jrnl.recs[k].pg] = jrnl.recs[k].was
      <4>1. CASE k = t
        BY <1>4, <1>6, <4>1 DEF r
      <4>2. CASE k # t
        <5>1. k \in 1 .. t - 1
          BY <1>4, <1>8, <4>2
        <5>2. k \in 1 .. Len(jrnl.recs)
          BY <1>2, <1>4, <5>1
        <5>3. jrnl.recs[k].pg # r.pg /\ jrnl.recs[k].pg \in 1 .. Len(file)
          BY <1>2, <1>3, <1>4, <4>2, <5>2, RecordTyped DEF Distinct, r
        <5> QED
          BY <1>2, <1>6, <5>1, <5>2, <5>3
      <4> QED
        BY <4>1, <4>2
    <3>3. pc[p] = "undo" =>
              /\ 1 \in Pgs(jrnl) /\ 1 \in DOMAIN cache[p]
              /\ \A i \in DOMAIN cache[p] : i <= jrnl.orig
              /\ \A i \in DOMAIN cache[p] :
                     i \notin Pgs(jrnl) \/ Played(p, i) => cache[p][i] = Committed[i]
              /\ Played(p, 1) => vers[p] = VersOf(Committed[1])
      BY <1>2 DEF ProcInv, UndoingInv, Undoing, At
    <3>4. ASSUME NEW i, Played(p, i)' PROVE i = r.pg \/ Played(p, i)
      <4>1. PICK k \in 1 .. todo'[p] - 1 : k <= Len(jrnl.recs) /\ jrnl.recs[k].pg = i
        BY <1>0, <3>4 DEF Played
      <4>2. k = t \/ k \in 1 .. t - 1
        BY <1>4, <1>8, <4>1
      <4>3. At(p, "undo")
        BY <1>0, <3>4 DEF Played, At
      <4> QED
        BY <4>1, <4>2, <4>3 DEF Played, r, t
    <3>5. CASE pc[p] = "play"
      BY <1>0, <1>2, <1>6, <1>9, <1>11, <3>1, <3>2, <3>5 DEF UndoingInv, Undoing, At
    <3>6. CASE pc[p] = "undo"
      <4>1. /\ 1 \in DOMAIN cache'[p] /\ \A i \in DOMAIN cache'[p] : i <= jrnl.orig
            /\ \A i \in DOMAIN cache'[p] :
                   i \notin Pgs(jrnl) \/ Played(p, i)' => cache'[p][i] = Committed[i]
            /\ Played(p, 1)' => vers'[p] = VersOf(Committed[1])
        BY <1>5, <1>9, <3>3, <3>4, <3>6
      <4> QED
        BY <1>0, <1>2, <1>6, <1>7, <3>1, <3>2, <3>3, <3>6, <4>1 DEF UndoingInv, Undoing, At
    <3> QED
      BY <1>0, <3>5, <3>6
  <2> QED
    BY <2>1, <2>2, <2>3, <2>4, <2>5 DEF ProcInv
<1>13. ASSUME NEW q \in Procs \ {p}
       PROVE  Same(q) /\ pc[q] \in Bystanding /\ pc[q] \in {"idle", "shared"}
  <2>1. pc[p] \in Repairing \cup Writing
    BY <1>0 DEF Writing, Repairing
  <2> QED
    BY <1>0, <1>8, <2>1, Alone DEF Same
<1>14. DataInv'
  BY <1>7, <1>10, <1>12, <1>13, BesideStep
<1> QED
  BY <1>7, <1>14 DEF Kept

\* What is synced is there to stay: the new file, or again the old one.
LEMMA KeptDbSync ==
    ASSUME IInv, DataInv, NEW p \in Procs, DbSync(p)
    PROVE  Kept
<1>0. /\ UNCHANGED <<file, jrnl, jdisk, kind, cache, dirty, vers, got, todo, next>>
      /\ loose' = {} /\ sizes' = {Len(file)}
      /\ \/ pc[p] \in {"dbSync", "undoSync"} /\ pc'[p] = "delete"
         \/ pc[p] = "playSync" /\ pc'[p] = "hotDelete"
      /\ \A q \in Procs \ {p} : pc'[q] = pc[q]
  BY DEF DbSync, At, Go, memory, IInv, LocksMatch
<1>1. Committed' = Committed /\ Restored(jdisk)' = Restored(jdisk)
  BY <1>0 DEF Committed, Restored
<1>2. FilesInv'
  <2>1. \A j \in {jrnl, jdisk} : Hot(j) => \A i \in (1 .. j.orig) \ Pgs(j) : i <= Len(file)
    BY JournalFacts DEF DataInv
  <2>2. JournalSound(jrnl)' /\ JournalSound(jdisk)'
    BY <1>0, <2>1 DEF DataInv, FilesInv, JournalSound, Pgs, Hot
  <2>3. (Hot(jrnl) /\ Hot(jdisk)) \/ file = Committed
    BY DEF DataInv, FilesInv
  <2> QED
    BY <1>0, <1>1, <2>2, <2>3 DEF DataInv, FilesInv, Sound, Hot
<1>3. DataTypes'
  BY <1>0 DEF DataInv, DataTypes
<1>4. ProcInv(p)
  BY DEF DataInv
<1>5. ProcInv(p)'
  <2>1. Reading(p)'
    BY <1>0, <1>4 DEF ProcInv, Reading, At
  <2>2. CacheInv(p)'
    BY <1>0, <1>1, <1>4
       DEF ProcInv, WritingInv, CacheInv, Unjournalled, Preparing, At, Keeps, Agrees
  <2>3. PreparingInv(p)'
    BY <1>0, <1>1, <1>4 DEF ProcInv, PreparingInv, Preparing, Undoing, Stamped, At
  <2>4. WritingInv(p)'
    BY <1>0 DEF WritingInv, At
  <2>5. UndoingInv(p)'
    BY <1>0, <1>1, <1>4 DEF ProcInv, UndoingInv, Undoing, At
  <2>6. DoneInv(p)'
    <3>1. CASE pc[p] = "dbSync"
      <4>1. /\ Hot(jrnl) /\ jdisk = jrnl /\ Agrees(p, file) /\ dirty[p] = {}
            /\ jrnl.orig <= Len(file) /\ file[1].ctr > Committed[1].ctr
            /\ vers[p] = VersOf(file[1]) /\ \A i \in 1 .. Len(file) : Mixed(file[i].txns, i)
        BY <1>4, <3>1 DEF ProcInv, WritingInv, At
      <4>2. Len(Committed) <= Len(file)
        BY <4>1, CommittedIs DEF DataInv
      <4> QED
        BY <1>0, <1>1, <4>1, <4>2 DEF DoneInv, Agrees, Mixed, OldTxns
    <3>2. CASE pc[p] = "undoSync"
      <4>1. /\ Hot(jrnl) /\ file = Committed /\ vers[p] = VersOf(Committed[1])
            /\ \A i \in DOMAIN cache[p] : i <= jrnl.orig /\ cache[p][i] = Committed[i]
        BY <1>4, <3>2 DEF ProcInv, UndoingInv, Undoing, At
      <4>2. Len(Committed) = jrnl.orig /\ Len(Committed) \in Nat
        BY <4>1, CommittedIs DEF DataInv
      <4>3. Agrees(p, file) /\ \A i \in 1 .. Len(file) : Mixed(file[i].txns, i)
        BY <4>1, <4>2 DEF Agrees, Mixed, OldTxns
      <4> QED
        BY <1>0, <1>1, <4>1, <4>2, <4>3 DEF DoneInv, Agrees, Mixed, OldTxns
    <3>3. CASE pc[p] = "playSync"
      BY <1>0, <3>3 DEF DoneInv, At
    <3> QED
      BY <1>0, <3>1, <3>2, <3>3
  <2> QED
    BY <2>1, <2>2, <2>3, <2>4, <2>5, <2>6 DEF ProcInv
<1>6. ASSUME NEW q \in Procs \ {p} PROVE Same(q) /\ pc[q] \in Bystanding
  <2>1. pc[p] \in Repairing \cup Writing
    BY <1>0 DEF Writing, Repairing
  <2> QED
    BY <1>0, <2>1, Alone DEF Same
<1>7. DataInv'
  BY <1>0, <1>1, <1>2, <1>3, <1>5, <1>6, BesideStep
<1> QED
  BY <1>1, <1>7 DEF Kept

-----------------------------------------------------------------------------
\* The commit, and the end of a rollback

\* What the file is to be when the journal is deleted.
Commits(p) ==
    /\ Committed' = file /\ jdisk = jrnl /\ Len(Committed) <= Len(file) /\ Len(file) <= MaxPages
    /\ \A i \in 1 .. Len(file) : Mixed(file[i].txns, i)
    /\ next \in 1 .. MaxTxns /\ \A i \in 1 .. Len(Committed) : next \notin Committed[i].txns

\* Deleting the journal is the commit, or it ends a rollback and changes nothing.
LEMMA DeleteDoes ==
    ASSUME IInv, DataInv, NEW p \in Procs, Delete(p)
    PROVE  /\ DataInv' /\ Restored(jdisk)' = Restored(jdisk)
           /\ Committed' = Committed \/ Commits(p)
<1>0. /\ UNCHANGED <<file, loose, sizes, jdisk, kind, cache, dirty, vers, got, todo, next>>
      /\ jrnl' = NoJournal
      /\ (pc[p] = "delete" /\ pc'[p] = "unlock") \/ (pc[p] = "hotDelete" /\ pc'[p] = "unreserve")
      /\ \A q \in Procs \ {p} : pc'[q] = pc[q]
  BY DEF Delete, At, Go, memory, IInv, LocksMatch
<1>1. ProcInv(p) /\ dirty[p] = {} /\ loose = {} /\ sizes = {Len(file)}
  BY <1>0 DEF DataInv, ProcInv, CacheInv, UndoingInv, Preparing
<1>2. /\ jrnl'.by = 0 /\ jrnl'.hdr = FALSE /\ jrnl'.orig = 0 /\ jrnl'.recs = <<>>
      /\ ~ Hot(jrnl)' /\ 1 .. Len(jrnl'.recs) = {}
  BY <1>0 DEF NoJournal, Hot
<1>3. Committed' = file /\ Restored(jdisk)' = Restored(jdisk)
  <2>1. ~ Hot(jrnl')
    BY <1>2 DEF Hot
  <2> QED
    BY <1>0, <2>1 DEF Committed, Restored, Replayed
<1>4. file = Committed \/ (pc[p] = "delete" /\ file[1].ctr > Committed[1].ctr /\ Commits(p))
  <2>1. pc[p] = "hotDelete" => file = Committed
    BY <1>1 DEF ProcInv, UndoingInv
  <2>2. ASSUME pc[p] = "delete", file # Committed
        PROVE  file[1].ctr > Committed[1].ctr /\ Commits(p)
    <3>1. /\ file[1].ctr > Committed[1].ctr /\ jdisk = jrnl
          /\ Len(Committed) <= Len(file) /\ \A i \in 1 .. Len(file) : Mixed(file[i].txns, i)
      BY <1>1, <2>2 DEF ProcInv, DoneInv, At
    <3>2. next > 0 /\ \A i \in 1 .. Len(Committed) : next \notin Committed[i].txns
      BY <1>1, <2>2 DEF ProcInv, PreparingInv, Stamped
    <3>3. next \in 0 .. MaxTxns /\ Len(file) <= MaxPages
      BY DEF DataInv, DataTypes
    <3> QED
      BY <1>3, <3>1, <3>2, <3>3, PagerBounds DEF Commits
  <2> QED
    BY <1>0, <2>1, <2>2
<1>5. FilesInv'
  <2>1. JournalSound(jrnl)'
    BY <1>2 DEF JournalSound, Hot
  <2>2. JournalSound(jdisk)'
    BY <1>0 DEF DataInv, FilesInv, JournalSound
  <2>3. Sound(Committed)'
    <3> SUFFICES ASSUME NEW i \in 1 .. Len(file) PROVE file[i].txns \subseteq 1 .. next
      BY <1>0, <1>3 DEF Sound
    <3>0. Sound(Committed)
      BY DEF DataInv, FilesInv
    <3>1. CASE file = Committed
      BY <3>0, <3>1 DEF Sound
    <3>2. CASE Commits(p)
      <4>1. OldTxns(i) \subseteq 1 .. next
        BY <3>0 DEF Sound, OldTxns
      <4>2. next \in 1 .. next
        BY <3>2 DEF Commits
      <4> QED
        BY <3>2, <4>1, <4>2 DEF Commits, Mixed
    <3> QED
      BY <1>4, <3>1, <3>2
  <2>4. Sound(Restored(jdisk))'
    BY <1>0, <1>3 DEF DataInv, FilesInv, Sound
  <2> QED
    BY <1>0, <1>1, <1>2, <1>3, <2>1, <2>2, <2>3, <2>4 DEF FilesInv
<1>6. DataTypes'
  <2>1. jrnl'.by \in Nat /\ jrnl'.hdr \in BOOLEAN /\ jrnl'.orig \in Nat /\ jrnl'.recs \in Seq(RecordType)
    <3>1. <<>> \in Seq(RecordType)
      OBVIOUS
    <3>2. jrnl'.recs \in Seq(RecordType)
      BY <1>2, <3>1, Zenon
    <3>3. jrnl'.by \in Nat /\ jrnl'.orig \in Nat
      BY <1>2
    <3>4. jrnl'.hdr \in BOOLEAN
      BY <1>2, Zenon
    <3> QED
      BY <3>2, <3>3, <3>4
  <2> QED
    BY <1>0, <2>1 DEF DataInv, DataTypes
<1>7. ProcInv(p)'
  <2>1. Reading(p)'
    BY <1>0, <1>1 DEF ProcInv, Reading, At
  <2>2. Keeps(p)'
    <3>1. CASE pc[p] = "delete"
      <4>1. Agrees(p, file) /\ vers[p] = VersOf(file[1])
        BY <1>1, <3>1 DEF ProcInv, DoneInv, At
      <4>2. file[1] \in PageType
        BY SeqHas DEF DataInv, DataTypes
      <4> QED
        BY <1>0, <1>3, <4>1, <4>2 DEF Keeps, Agrees, VersOf, PageType
    <3>2. CASE pc[p] = "hotDelete"
      BY <1>0, <1>1, <1>3, <1>4, <3>2 DEF ProcInv, CacheInv, Unjournalled, Keeps, Agrees
    <3> QED
      BY <1>0, <3>1, <3>2
  <2>3. CacheInv(p)'
    BY <1>0, <1>1, <2>2 DEF CacheInv, Unjournalled, Preparing, At
  <2>4. (PreparingInv(p) /\ WritingInv(p) /\ UndoingInv(p) /\ DoneInv(p))'
    BY <1>0 DEF PreparingInv, WritingInv, UndoingInv, DoneInv, Preparing, Undoing, Stamped, At
  <2> QED
    BY <2>1, <2>3, <2>4 DEF ProcInv
<1>8. ASSUME NEW q \in Procs \ {p} PROVE ProcInv(q)'
  <2>0. Same(q) /\ ProcInv(q)
    BY <1>0 DEF Same, DataInv
  <2>1. lock[p] \in {L!RESERVED_LOCK, L!EXCLUSIVE_LOCK}
    BY <1>0 DEF IInv, LocksMatch, Releasing, Repairing
  <2>2. CASE file = Committed
    BY <1>0, <1>3, <2>0, <2>1, <2>2, OthersAway, Bystander
  <2>3. CASE file # Committed /\ pc[p] = "delete" /\ file[1].ctr > Committed[1].ctr
    <3>1. Hot(jrnl)
      BY <2>3, CommittedIs DEF DataInv
    <3>2. lock[p] = L!EXCLUSIVE_LOCK
      BY <2>1, <2>3, <3>1 DEF IInv, StepsKnow, Releasing, DataInv, DataTypes
    <3>3. pc[q] \in {"idle", "shared"}
      BY <3>2, OthersAway
    <3>4. /\ pc'[q] = pc[q] /\ cache'[q] = cache[q] /\ dirty'[q] = dirty[q] /\ vers'[q] = vers[q]
          /\ got'[q] = got[q] /\ todo'[q] = todo[q]
      BY <2>0 DEF Same
    <3>5. Keeps(q)'
      <4>1. Keeps(q)
        BY <2>0, <3>3 DEF ProcInv, CacheInv, Unjournalled
      <4>2. /\ Committed[1].ctr \in Nat /\ file[1] \in PageType
            /\ vers[q] \in [ctr : Int, n : Nat]
        BY CommittedIs, SeqHas DEF DataInv, DataTypes
      <4>3. DOMAIN cache[q] # {} => vers[q].ctr < file[1].ctr
        BY <2>3, <4>1, <4>2 DEF Keeps, PageType
      <4> QED
        BY <1>3, <3>4, <4>2, <4>3 DEF Keeps, VersOf, PageType
    <3>6. Reading(q)'
      BY <2>0, <3>3, <3>4 DEF ProcInv, Reading, At
    <3>7. CacheInv(q)'
      BY <2>0, <3>3, <3>4, <3>5 DEF ProcInv, CacheInv, Preparing, At
    <3>8. (PreparingInv(q) /\ WritingInv(q) /\ UndoingInv(q) /\ DoneInv(q))'
      BY <3>3, <3>4
         DEF PreparingInv, WritingInv, UndoingInv, DoneInv, Preparing, Undoing, Stamped, At
    <3> QED
      BY <3>6, <3>7, <3>8 DEF ProcInv
  <2> QED
    BY <1>4, <2>2, <2>3
<1>9. DataInv'
  BY <1>5, <1>6, <1>7, <1>8 DEF DataInv
<1> QED
  BY <1>3, <1>4, <1>9

-----------------------------------------------------------------------------
\* A power failure

\* What is left of the file: pages that were not synced may be torn, no others.
LEMMA LeftFile ==
    ASSUME DataInv, NEW f \in FileLeft
    PROVE  /\ f \in Seq(PageType) /\ Len(f) \in sizes /\ Len(f) \in 1 .. MaxPages
           /\ \A k \in 1 .. Len(f) : k \notin loose /\ k <= Len(file) => f[k] = file[k]
<1>1. /\ sizes \subseteq 1 .. MaxPages /\ \A k \in 1 .. Len(file) : file[k] \in PageType
      /\ Len(file) \in Nat
  BY SeqHas DEF DataInv, DataTypes
<1> DEFINE Left(n, torn) == [i \in 1 .. n |-> IF i \in torn \/ i > Len(file) THEN Torn ELSE file[i]]
<1>2. PICK n \in sizes, torn \in SUBSET loose : f = Left(n, torn)
  <2>1. FileLeft = {Left(n, torn) : n \in sizes, torn \in SUBSET loose}
    BY DEF FileLeft
  <2> HIDE DEF Left
  <2> QED
    BY <2>1
<1>3. n \in Nat /\ n \in 1 .. MaxPages
  BY <1>1
<1>4. f \in [1 .. n -> PageType]
  BY <1>1, <1>2, <1>3, ZeroTyped
<1>5. f \in Seq(PageType) /\ Len(f) = n
  BY <1>3, <1>4, SeqIs
<1>6. \A k \in 1 .. n : k \notin loose /\ k <= Len(file) => f[k] = file[k]
  BY <1>1, <1>2, <1>3
<1> QED
  BY <1>3, <1>5, <1>6

\* A record that was not synced is torn, but then the header was not valid.
LEMMA LeftJournal ==
    ASSUME DataInv, JournalsAre, NEW j \in JournalLeft
    PROVE  /\ JournalTyped(j) /\ Distinct(j) /\ (j.hdr => j.by # 0)
           /\ \A k \in 1 .. Len(j.recs) : j.recs[k].pg <= j.orig
           /\ Hot(j) => \E i \in {jrnl, jdisk} : Hot(i) /\ j.orig = i.orig /\ j.recs = i.recs
           /\ Hot(jrnl) /\ Hot(jdisk) => Hot(j)
<1> DEFINE n == Len(jrnl.recs)
           left == [i \in 1 .. n |->
                       IF SameFile /\ i <= Len(jdisk.recs) THEN jrnl.recs[i]
                       ELSE [jrnl.recs[i] EXCEPT !.was = Torn]]
<1>1. \A i \in {jrnl, jdisk} :
          /\ JournalTyped(i) /\ Distinct(i) /\ (i.hdr => i.by # 0)
          /\ \A k \in 1 .. Len(i.recs) : i.recs[k].pg <= i.orig
  <2>1. \A i \in {jrnl, jdisk} : i.hdr => i.by # 0
    BY DEF DataInv, FilesInv, JournalSound
  <2> QED
    BY <2>1, JournalFacts DEF DataInv
<1>2. CASE j \in {jrnl, jdisk}
  BY <1>1, <1>2
<1>3. CASE j = NoJournal /\ ~ SameFile
  <2>1. /\ j.by = 0 /\ j.hdr = FALSE /\ j.orig = 0 /\ j.recs = <<>> /\ <<>> \in Seq(RecordType)
        /\ 1 .. Len(j.recs) = {}
    BY <1>3 DEF NoJournal
  <2>2. j.hdr \in BOOLEAN
    BY <2>1, Zenon
  <2>3. JournalTyped(j)
    BY <2>1, <2>2 DEF JournalTyped
  <2>4. Hot(jrnl) => SameFile
    BY DEF DataInv, FilesInv, SameFile
  <2> QED
    BY <1>3, <2>1, <2>3, <2>4 DEF Distinct, Hot
<1>4. CASE j = [jrnl EXCEPT !.recs = left]
  <2>1. j.by = jrnl.by /\ j.hdr = jrnl.hdr /\ j.orig = jrnl.orig /\ j.recs = left
    BY <1>4 DEF JournalsAre, NoJournal
  <2>2. n \in Nat /\ JournalTyped(jrnl)
    BY <1>1, SeqHas DEF JournalTyped
  <2>3. \A k \in 1 .. n : jrnl.recs[k] \in RecordType
    BY <1>1, RecordTyped
  <2>4. \A x \in RecordType :
            [x EXCEPT !.was = Torn] \in RecordType /\ [x EXCEPT !.was = Torn].pg = x.pg
    BY ZeroTyped DEF RecordType
  <2>5. \A k \in 1 .. n : left[k] \in RecordType /\ left[k].pg = jrnl.recs[k].pg
    BY <2>3, <2>4
  <2>6. Hot(jrnl) => SameFile /\ Len(jdisk.recs) = n
    BY DEF DataInv, FilesInv, SameFile
  <2>7. Hot(jrnl) => \A k \in 1 .. n : left[k] = jrnl.recs[k]
    BY <2>6
  <2>8. left = [k \in 1 .. n |-> left[k]]
    OBVIOUS
  <2> HIDE DEF left
  <2>9. left \in [1 .. n -> RecordType]
    BY <2>5, <2>8
  <2> HIDE DEF n
  <2>10. left \in Seq(RecordType) /\ Len(left) = n
    BY <2>2, <2>9, SeqIs
  <2>11. Hot(jrnl) => left = jrnl.recs
    BY <2>2, <2>7, <2>10, SeqSame DEF JournalTyped, n
  <2>12. JournalTyped(j)
    BY <2>1, <2>2, <2>10 DEF JournalTyped
  <2>13. Distinct(j)
    <3>1. \A k, l \in 1 .. n : jrnl.recs[k].pg = jrnl.recs[l].pg => k = l
      BY <1>1 DEF Distinct, n
    <3> QED
      BY <2>1, <2>5, <2>10, <3>1 DEF Distinct
  <2>14. \A k \in 1 .. Len(j.recs) : j.recs[k].pg <= j.orig
    BY <1>1, <2>1, <2>5, <2>10 DEF n
  <2>15. Hot(j) <=> Hot(jrnl)
    BY <2>1 DEF Hot
  <2>16. j.hdr => j.by # 0
    BY <1>1, <2>1
  <2> QED
    BY <2>1, <2>11, <2>12, <2>13, <2>14, <2>15, <2>16
<1>5. j \in {jrnl, jdisk} \/ (j = NoJournal /\ ~ SameFile) \/ j = [jrnl EXCEPT !.recs = left]
  BY DEF JournalLeft
<1> QED
  BY <1>2, <1>3, <1>4, <1>5

\* What the power fails on is played back, and comes to the database as it was, or as
\* it was before the last commit.
LEMMA LeftOver ==
    ASSUME DataInv, JournalsAre, NEW f \in FileLeft, NEW j \in JournalLeft
    PROVE  /\ Replayed(f, j) \in {Committed, Restored(jdisk)}
           /\ ~ Hot(j) => Replayed(f, j) = f
<1>1. /\ f \in Seq(PageType) /\ Len(f) \in sizes
      /\ \A k \in 1 .. Len(f) : k \notin loose /\ k <= Len(file) => f[k] = file[k]
  BY LeftFile
<1>2. /\ Hot(j) => \E i \in {jrnl, jdisk} : Hot(i) /\ j.orig = i.orig /\ j.recs = i.recs
      /\ Hot(jrnl) /\ Hot(jdisk) => Hot(j)
  BY LeftJournal
<1>3. file \in Seq(PageType) /\ Len(file) \in Nat
  BY DEF DataInv, DataTypes
<1>4. ~ Hot(j) => Replayed(f, j) = f
  BY DEF Replayed
<1>5. CASE Hot(jrnl) /\ Hot(jdisk)
  <2>1. j.orig = jrnl.orig /\ j.recs = jrnl.recs /\ Hot(j)
    BY <1>2, <1>5 DEF DataInv, FilesInv
  <2>2. Replayed(f, j) = Replayed(f, jrnl)
    BY <1>5, <2>1, ReplayedLike
  <2>3. JournalTyped(jrnl) /\ Distinct(jrnl) /\ NoneTorn(jrnl)
    BY <1>5, JournalFacts DEF DataInv
  <2>4. \A k \in (1 .. jrnl.orig) \ Pgs(jrnl) : PageOf(f, k) = PageOf(file, k)
    <3> SUFFICES ASSUME NEW k \in (1 .. jrnl.orig) \ Pgs(jrnl)
                 PROVE  PageOf(f, k) = PageOf(file, k)
      OBVIOUS
    <3>1. k \notin loose /\ k <= Len(file) /\ k <= Len(f) /\ k \in 1 .. jrnl.orig
      BY <1>1, <1>5 DEF DataInv, DataTypes, FilesInv, JournalSound
    <3>2. jrnl.orig \in Nat /\ Len(f) \in Nat
      BY <1>1, <2>3 DEF JournalTyped, DataInv, DataTypes
    <3>3. k \in 1 .. Len(f)
      BY <3>1, <3>2
    <3> QED
      BY <1>1, <3>1, <3>3 DEF PageOf
  <2>5. Replayed(f, jrnl) = Replayed(file, jrnl)
    BY <1>1, <1>3, <1>5, <2>3, <2>4, ReplayedSame
  <2> QED
    BY <1>4, <2>2, <2>5 DEF Committed, Restored
<1>6. CASE ~ (Hot(jrnl) /\ Hot(jdisk))
  <2>1. loose = {} /\ sizes = {Len(file)} /\ file = Committed
    BY <1>6 DEF DataInv, FilesInv
  <2>2. Len(f) = Len(file) /\ \A k \in 1 .. Len(file) : f[k] = file[k]
    BY <1>1, <1>3, <2>1
  <2>3. f = file
    BY <1>1, <1>3, <2>2, SeqSame
  <2>4. CASE ~ Hot(j)
    BY <1>4, <2>1, <2>3, <2>4
  <2>5. CASE Hot(j)
    <3>1. PICK i \in {jrnl, jdisk} : Hot(i) /\ j.orig = i.orig /\ j.recs = i.recs
      BY <1>2, <2>5
    <3>2. Replayed(file, j) = Replayed(file, i)
      BY <2>5, <3>1, ReplayedLike
    <3> QED
      BY <2>3, <2>5, <3>1, <3>2 DEF Committed, Restored
  <2> QED
    BY <2>4, <2>5
<1> QED
  BY <1>5, <1>6

\* After a power failure the invariant holds of what is left.
LEMMA PowerLossDoes ==
    ASSUME IInv, DataInv, PowerLoss
    PROVE  /\ DataInv' /\ Committed' \in {Committed, Restored(jdisk)}
           /\ Restored(jdisk)' = Committed'
<1>1. JournalsAre /\ file' \in FileLeft /\ jrnl' \in JournalLeft /\ jdisk' = jrnl'
  BY DEF IInv, PowerLoss
<1>2. /\ loose' = {} /\ sizes' = {Len(file')}
      /\ pc' = [p \in Procs |-> "idle"] /\ cache' = [p \in Procs |-> <<>>]
      /\ dirty' = [p \in Procs |-> {}] /\ vers' = [p \in Procs |-> NoVers]
      /\ got' = [p \in Procs |-> <<>>] /\ kind' = [p \in Procs |-> "none"]
      /\ todo' = [p \in Procs |-> 1] /\ next' = next
  BY DEF PowerLoss
<1>3. /\ Committed' \in {Committed, Restored(jdisk)} /\ Restored(jdisk)' = Committed'
      /\ ~ Hot(jrnl') => Committed' = file'
  <2>1. /\ Replayed(file', jrnl') \in {Committed, Restored(jdisk)}
        /\ ~ Hot(jrnl') => Replayed(file', jrnl') = file'
    BY <1>1, LeftOver
  <2>2. Committed' = Replayed(file', jrnl') /\ Restored(jdisk)' = Committed'
    BY <1>1 DEF Committed, Restored
  <2> QED
    BY <2>1, <2>2
<1>4. /\ file' \in Seq(PageType) /\ Len(file') \in sizes /\ Len(file') \in 1 .. MaxPages
  BY <1>1, LeftFile
<1>5. /\ JournalTyped(jrnl') /\ Distinct(jrnl') /\ (jrnl'.hdr => jrnl'.by # 0)
      /\ \A k \in 1 .. Len(jrnl'.recs) : jrnl'.recs[k].pg <= jrnl'.orig
      /\ Hot(jrnl') => \E i \in {jrnl, jdisk} :
                           Hot(i) /\ jrnl'.orig = i.orig /\ jrnl'.recs = i.recs
  BY <1>1, LeftJournal
<1>6. JournalSound(jrnl)'
  <2>1. ASSUME Hot(jrnl')
        PROVE  /\ jrnl'.orig \in 1 .. MaxPages
               /\ \A k \in 1 .. Len(jrnl'.recs) : 0 \notin jrnl'.recs[k].was.txns
               /\ \A i \in (1 .. jrnl'.orig) \ Pgs(jrnl') : i \notin loose' /\ \A s \in sizes' : i <= s
    <3>1. PICK i \in {jrnl, jdisk} : Hot(i) /\ jrnl'.orig = i.orig /\ jrnl'.recs = i.recs
      BY <1>5, <2>1
    <3>2. JournalSound(i) /\ Pgs(jrnl') = Pgs(i)
      BY <3>1 DEF DataInv, FilesInv, Pgs
    <3> QED
      BY <1>2, <1>4, <3>1, <3>2 DEF JournalSound
  <2> QED
    BY <1>5, <2>1 DEF JournalSound, Distinct, Hot, Pgs
<1>7. JournalSound(jdisk)'
  BY <1>1, <1>6 DEF JournalSound
<1>8. FilesInv'
  <2>1. Sound(Committed)' /\ Sound(Restored(jdisk))'
    BY <1>2, <1>3 DEF DataInv, FilesInv, Sound
  <2>2. Hot(jrnl)' <=> Hot(jrnl')
    BY DEF Hot
  <2> QED
    BY <1>1, <1>2, <1>3, <1>6, <1>7, <2>1, <2>2 DEF FilesInv, Hot
<1>9. DataTypes'
  <2>1. NoVers \in [ctr : Int, n : Nat] /\ <<>> \in Seq(SUBSET Nat) /\ DOMAIN <<>> = {}
    BY DEF NoVers
  <2>2. /\ vers' \in [Procs -> [ctr : Int, n : Nat]] /\ dirty' \in [Procs -> SUBSET (1 .. MaxPages)]
        /\ got' \in [Procs -> Seq(SUBSET Nat)] /\ todo' \in [Procs -> Nat \ {0}]
        /\ kind' \in [Procs -> {"none", "read", "write"}] /\ DOMAIN cache' = Procs
        /\ \A p \in Procs : DOMAIN cache'[p] = {}
    BY <1>2, <2>1
  <2>3. \A j \in {jrnl', jdisk'} : /\ j.by \in Nat /\ j.hdr \in BOOLEAN /\ j.orig \in Nat
                                   /\ j.recs \in Seq(RecordType)
    BY <1>1, <1>5 DEF JournalTyped
  <2>4. sizes' \subseteq 1 .. MaxPages /\ Len(file') \in sizes'
    BY <1>2, <1>4
  <2> QED
    BY <1>2, <1>4, <2>2, <2>3, <2>4 DEF DataInv, DataTypes
<1>10. ASSUME NEW p \in Procs PROVE ProcInv(p)'
  <2>1. pc'[p] = "idle" /\ DOMAIN cache'[p] = {} /\ dirty'[p] = {} /\ got'[p] = <<>>
    BY <1>2
  <2>2. Reading(p)' /\ CacheInv(p)'
    BY <2>1 DEF Reading, CacheInv, Unjournalled, Preparing, At, Keeps
  <2>3. (PreparingInv(p) /\ WritingInv(p) /\ UndoingInv(p) /\ DoneInv(p))'
    BY <2>1 DEF PreparingInv, WritingInv, UndoingInv, DoneInv, Preparing, Undoing, Stamped, At
  <2> QED
    BY <2>2, <2>3 DEF ProcInv
<1>11. DataInv'
  BY <1>8, <1>9, <1>10 DEF DataInv
<1> QED
  BY <1>3, <1>11
-----------------------------------------------------------------------------
\* The invariant

\* At first no transaction has written, and no process has a page.
LEMMA InitData ==
    ASSUME Init, OldPages > 0
    PROVE  DataInv /\ Committed = file /\ Restored(jdisk) = file
<1>1. OldPages \in 1 .. MaxPages /\ OldPages \in Nat /\ MaxTxns \in Nat
  BY PagerBounds
<1>2. /\ loose = {} /\ sizes = {Len(file)} /\ jrnl = NoJournal /\ jdisk = NoJournal
      /\ pc = [p \in Procs |-> "idle"] /\ kind = [p \in Procs |-> "none"]
      /\ cache = [p \in Procs |-> <<>>] /\ dirty = [p \in Procs |-> {}]
      /\ vers = [p \in Procs |-> NoVers] /\ got = [p \in Procs |-> <<>>]
      /\ todo = [p \in Procs |-> 1] /\ next = 0
  BY DEF Init
<1>3. /\ file \in Seq(PageType) /\ Len(file) = OldPages
      /\ \A k \in 1 .. Len(file) : file[k].txns = {}
  <2>1. file = [i \in 1 .. OldPages |->
                   IF i = 1 THEN [Zero EXCEPT !.ctr = 1, !.n = OldPages] ELSE Zero]
    BY DEF Init
  <2> DEFINE first == [Zero EXCEPT !.ctr = 1, !.n = OldPages]
  <2>2. first \in PageType /\ first.txns = {}
    BY <1>1, ZeroTyped DEF PageType
  <2> HIDE DEF first
  <2>3. file = [i \in 1 .. OldPages |-> IF i = 1 THEN first ELSE Zero]
    BY <2>1 DEF first
  <2>4. file \in [1 .. OldPages -> PageType] /\ \A k \in 1 .. OldPages : file[k].txns = {}
    BY <2>2, <2>3, ZeroTyped
  <2> QED
    BY <1>1, <2>4, SeqIs
<1>4. /\ \A j \in {jrnl, jdisk} : j.by = 0 /\ j.hdr = FALSE /\ j.orig = 0 /\ j.recs = <<>>
      /\ ~ Hot(jrnl) /\ ~ Hot(jdisk)
  BY <1>2 DEF NoJournal, Hot
<1>5. Committed = file /\ Restored(jdisk) = file
  BY <1>4 DEF Committed, Restored, Replayed
<1>6. FilesInv
  <2>1. Sound(file)
    BY <1>3 DEF Sound
  <2>2. \A j \in {jrnl, jdisk} : 1 .. Len(j.recs) = {}
    BY <1>4
  <2>3. JournalSound(jrnl) /\ JournalSound(jdisk)
    BY <1>4, <2>2 DEF JournalSound
  <2> QED
    BY <1>2, <1>4, <1>5, <2>1, <2>3 DEF FilesInv
<1>7. DataTypes
  <2>1. NoVers \in [ctr : Int, n : Nat] /\ <<>> \in Seq(SUBSET Nat) /\ DOMAIN <<>> = {}
        /\ <<>> \in Seq(RecordType)
    BY DEF NoVers
  <2>2. /\ vers \in [Procs -> [ctr : Int, n : Nat]] /\ dirty \in [Procs -> SUBSET (1 .. MaxPages)]
        /\ got \in [Procs -> Seq(SUBSET Nat)] /\ todo \in [Procs -> Nat \ {0}]
        /\ kind \in [Procs -> {"none", "read", "write"}] /\ DOMAIN cache = Procs
        /\ \A p \in Procs : DOMAIN cache[p] = {}
    BY <1>2, <2>1
  <2>3. \A j \in {jrnl, jdisk} : j.hdr \in BOOLEAN
    BY <1>4, Zenon
  <2>4. \A j \in {jrnl, jdisk} : j.by \in Nat /\ j.orig \in Nat /\ j.recs \in Seq(RecordType)
    <3>1. 0 \in Nat
      OBVIOUS
    <3> QED
      BY <1>4, <2>1, <3>1, Zenon
  <2>5. sizes \subseteq 1 .. MaxPages /\ Len(file) \in sizes /\ next \in 0 .. MaxTxns
    BY <1>1, <1>2, <1>3
  <2> QED
    BY <1>1, <1>3, <2>2, <2>3, <2>4, <2>5 DEF DataTypes
<1>8. ASSUME NEW p \in Procs PROVE ProcInv(p)
  <2>1. pc[p] = "idle" /\ DOMAIN cache[p] = {} /\ dirty[p] = {} /\ got[p] = <<>>
    BY <1>2
  <2>2. Reading(p) /\ CacheInv(p)
    BY <2>1 DEF Reading, CacheInv, Unjournalled, Preparing, At, Keeps
  <2>3. PreparingInv(p) /\ WritingInv(p) /\ UndoingInv(p) /\ DoneInv(p)
    BY <2>1 DEF PreparingInv, WritingInv, UndoingInv, DoneInv, Preparing, Undoing, Stamped, At
  <2> QED
    BY <2>2, <2>3 DEF ProcInv
<1> QED
  BY <1>5, <1>6, <1>7, <1>8 DEF DataInv

\* Whatever is done, short of a commit and of a power failure, keeps the database.
LEMMA KeptMove ==
    ASSUME IInv, DataInv, NEW p \in Procs,
           \/ \E k \in {"read", "write"} : Begin(p, k)
           \/ Step(p) \/ Error(p) \/ Kill(p)
    PROVE  Kept \/ Delete(p)
<1>1. CASE \/ \E k \in {"read", "write"} : Begin(p, k)
           \/ Shared(p) \/ Access(p) \/ Check(p) \/ NPage(p) \/ Stale(p)
           \/ FirstByte(p) \/ HotLock(p) \/ HotOpen(p) \/ Unreserve(p)
           \/ EndRead(p) \/ Unlock(p)
  BY <1>1, KeptBeginning
<1>2. CASE Finish(p) \/ Exclusive(p) \/ BusyWait(p)
  BY <1>2, KeptWaiting
<1>3. CASE BusyGiveUp(p)
  BY <1>3, KeptWaiting, KeptRollback
<1>4. CASE Errors /\ Fail(p)
  BY <1>4, KeptWaiting, KeptRollback
<1>5. CASE Version(p) \/ Page1(p) \/ Read(p)
  BY <1>5, KeptVersion, KeptPage1, KeptRead
<1>6. CASE End(p) \/ (Errors /\ FailRead(p))
  BY <1>6, KeptEnd
<1>7. CASE Kill(p) \/ (Errors /\ Abandon(p))
  BY <1>7, KeptForgets
<1>8. CASE Errors /\ FailWrite(p)
  BY <1>8, KeptFailWrite
<1>9. CASE Reserve(p) \/ Counter(p) \/ JournalSync(p) \/ Header(p) \/ WritePage(p) \/ DbSync(p)
  BY <1>9, KeptReserve, KeptCounter, KeptJournalSync, KeptHeader, KeptWritePage, KeptDbSync
<1>10. ASSUME NEW i \in 1 .. MaxPages, PagerWrite(p, i) PROVE Kept
  BY <1>10, KeptPagerWrite
<1>11. CASE HotSync(p) \/ Truncate(p) \/ PlayPage(p) \/ EndPlay(p)
  BY <1>11, KeptHotSync, KeptTruncate, KeptPlayPage, KeptEndPlay
<1>12. ~ DeleteStale(p)
  BY DEF DeleteStale, At, IInv, StepsKnow, DataInv, DataTypes
<1> QED
  BY <1>1, <1>2, <1>3, <1>4, <1>5, <1>6, <1>7, <1>8, <1>9, <1>10, <1>11, <1>12 DEF Step, Error

\* So does a step that changes nothing.
LEMMA KeptStill ==
    ASSUME DataInv, UNCHANGED vars
    PROVE  Kept
<1>1. /\ UNCHANGED <<file, loose, sizes, jrnl, jdisk, pc, kind, cache, dirty, vers, got, todo, next>>
  BY DEF vars, files, memory
<1>2. FilesInv' /\ Committed' = Committed /\ Restored(jdisk)' = Restored(jdisk)
  BY <1>1, FilesKept DEF files, DataInv
<1>3. ASSUME NEW q \in Procs PROVE ProcInv(q)'
  BY <1>1, Unaffected DEF Same, files, DataInv
<1>4. DataTypes'
  BY <1>1 DEF DataInv, DataTypes
<1> QED
  BY <1>2, <1>3, <1>4 DEF Kept, DataInv

\* Every step keeps the invariant.
LEMMA StepData ==
    ASSUME IInv, DataInv, [Next]_vars
    PROVE  DataInv'
<1>1. ASSUME NEW p \in Procs,
             \/ \E k \in {"read", "write"} : Begin(p, k)
             \/ Step(p) \/ Error(p) \/ Kill(p)
      PROVE  DataInv'
  BY <1>1, KeptMove, DeleteDoes DEF Kept
<1>2. CASE PowerLoss
  BY <1>2, PowerLossDoes
<1>3. CASE UNCHANGED vars
  BY <1>3, KeptStill DEF Kept
<1> QED
  BY <1>1, <1>2, <1>3 DEF Next

\* The journal is safe before the file is written, a page is the committed one or has
\* what its process wrote, and a cache with the counter of the database is current,
\* in every state of every number of processes, through errors, kills and power failures.
THEOREM DataIsSafe == Spec => []Inductive
<1>1. Init => Inductive
  BY InitInv, InitData DEF Inductive
<1>2. Inductive /\ [Next]_vars => Inductive'
  BY StepInv, StepData DEF Inductive
<1> QED
  BY <1>1, <1>2, PTL DEF Spec

\* A process that reads, or prepares to write, has the committed pages in its cache,
\* kept over from earlier statements or not, if the database is not a new one.
THEOREM CachesAreCurrent == ASSUME OldPages > 0 PROVE Spec => []CacheCurrent
<1>1. Inductive => CacheCurrent
  <2> SUFFICES ASSUME Inductive, NEW p \in Procs, pc[p] \in InsideSteps \ {"page1"},
                      NEW i \in DOMAIN cache[p] \ dirty[p]
               PROVE  cache[p][i] = IF i <= Len(Committed) THEN Committed[i] ELSE Zero
    BY DEF CacheCurrent
  <2>1. Current(p)
    BY DEF Inductive, DataInv, ProcInv, CacheInv, Preparing, InsideSteps
  <2> QED
    BY <2>1 DEF Current, Agrees
<1> QED
  BY <1>1, DataIsSafe, PTL

-----------------------------------------------------------------------------
\* The contract

\* A statement is seen to have read the database at its last row; nothing but its own
\* end takes that back.
LEMMA SeenMoves ==
    ASSUME IInv, DataInv, NEW p \in Procs,
           \/ \E k \in {"read", "write"} : Begin(p, k)
           \/ Step(p) \/ Error(p) \/ Kill(p)
    PROVE  /\ \A q \in Procs \ {p} : Seen(q)' = Seen(q)
           /\ \/ Seen(p)' = Seen(p)
              \/ UNCHANGED files /\ Seen(p)' \in {<<>>, TxnsOf(Committed)}
<1> DEFINE Alike == \A q \in Procs \ {p} :
                        pc'[q] = pc[q] /\ kind'[q] = kind[q] /\ got'[q] = got[q]
           Within == Alike /\ pc[p] # "end" /\ pc'[p] # "end"
<1>0. /\ pc \in [Procs -> {"idle", "shared", "end"} \cup Sharing \cup Reserving
                              \cup Repairing \cup Writing \cup Releasing]
      /\ kind \in [Procs -> {"none", "read", "write"}] /\ got \in [Procs -> Seq(SUBSET Nat)]
  BY DEF IInv, LocksMatch, DataInv, DataTypes
<1> USE DEF At, Go, memory
<1>1. CASE \/ \E k \in {"read", "write"} : Begin(p, k)
           \/ Shared(p) \/ Access(p) \/ Check(p) \/ NPage(p) \/ Stale(p) \/ DeleteStale(p)
           \/ FirstByte(p) \/ HotLock(p) \/ HotOpen(p) \/ HotSync(p) \/ Unreserve(p)
  <2>1. Within
    BY <1>0, <1>1 DEF Begin, Shared, Access, Check, NPage, Stale, DeleteStale, FirstByte,
                      HotLock, HotOpen, HotSync, Unreserve, Look
  <2> QED
    BY <2>1 DEF Seen
<1>2. CASE \/ Version(p) \/ Page1(p) \/ Read(p) \/ Reserve(p) \/ Finish(p) \/ Exclusive(p)
           \/ Counter(p) \/ \E i \in 1 .. MaxPages : PagerWrite(p, i)
  <2>1. Within
    BY <1>0, <1>2 DEF Version, Page1, Read, Reserve, Finish, Exclusive, Counter, PagerWrite, Look
  <2> QED
    BY <2>1 DEF Seen
<1>3. CASE JournalSync(p) \/ Header(p) \/ WritePage(p) \/ DbSync(p) \/ Delete(p)
  <2>1. Within
    BY <1>0, <1>3 DEF JournalSync, Header, WritePage, DbSync, Delete
  <2> QED
    BY <2>1 DEF Seen
<1>4. CASE Truncate(p) \/ PlayPage(p) \/ EndPlay(p)
  <2>1. Within
    BY <1>0, <1>4 DEF Truncate, PlayPage, EndPlay, Playing
  <2> QED
    BY <2>1 DEF Seen
<1>5. CASE BusyWait(p) \/ BusyGiveUp(p) \/ (Errors /\ (Fail(p) \/ FailWrite(p)))
  <2>1. Within
    BY <1>0, <1>5 DEF BusyWait, BusyGiveUp, Fail, FailWrite, Asking, Backs, Rollback,
                      RollbackCache, Close
  <2> QED
    BY <2>1 DEF Seen
<1>6. CASE Unlock(p) \/ (Errors /\ Abandon(p))
  <2>1. Alike /\ pc[p] \notin {"read", "end"} /\ got'[p] = got[p]
    BY <1>0, <1>6 DEF Unlock, Abandon, Look
  <2>2. got[p] = <<>>
    BY <2>1 DEF DataInv, ProcInv, Reading
  <2> QED
    BY <2>1, <2>2 DEF Seen
<1>7. CASE End(p) \/ Kill(p) \/ (Errors /\ FailRead(p))
  <2>1. /\ Alike /\ UNCHANGED files
        /\ pc'[p] # "end" \/ kind'[p] # "read"
    BY <1>0, <1>7 DEF End, Kill, FailRead, Close
  <2> QED
    BY <2>1 DEF Seen
<1>8. CASE EndRead(p)
  <2>1. /\ Alike /\ UNCHANGED files /\ got'[p] = got[p]
        /\ pc[p] = "read" /\ Len(got[p]) = Len(file)
    BY <1>0, <1>8 DEF EndRead, Look
  <2>2. Committed = file
    <3>1. ~ Hot(jrnl)
      BY <2>1 DEF IInv, NoneHot, InsideSteps, DataInv, DataTypes
    <3> QED
      BY <3>1 DEF Committed, Restored, Replayed
  <2>3. \A i \in 1 .. Len(got[p]) : got[p][i] = Committed[i].txns
    BY <2>1 DEF DataInv, ProcInv, Reading
  <2>4. got[p] = TxnsOf(Committed)
    <3>1. got[p] = [i \in 1 .. Len(got[p]) |-> got[p][i]]
      BY <1>0
    <3> QED
      BY <2>1, <2>2, <2>3, <3>1 DEF TxnsOf
  <2> QED
    BY <2>1, <2>4 DEF Seen
<1> QED
  BY <1>1, <1>2, <1>3, <1>4, <1>5, <1>6, <1>7, <1>8 DEF Step, Error

\* Of each page the contract sees the transactions.
LEMMA TxnsAre ==
    ASSUME NEW f \in Seq(PageType)
    PROVE  /\ Len(TxnsOf(f)) = Len(f)
           /\ \A i \in 1 .. Len(f) : TxnsOf(f)[i] = f[i].txns
<1>1. /\ Len(f) \in Nat /\ \A i \in 1 .. Len(f) : f[i] \in PageType
  BY SeqHas
<1>2. TxnsOf(f) \in [1 .. Len(f) -> SUBSET Nat]
  BY <1>1 DEF TxnsOf, PageType
<1>3. Len(TxnsOf(f)) = Len(f)
  BY <1>1, <1>2, SeqIs
<1>4. \A i \in 1 .. Len(f) : TxnsOf(f)[i] = f[i].txns
  BY DEF TxnsOf
<1> QED
  BY <1>3, <1>4

\* The pages a transaction has written are those that have its number.
LEMMA CommitIs ==
    ASSUME DataInv, NEW p \in Procs, Commits(p), Restored(jdisk)' = Restored(jdisk),
           \A q \in Procs : Seen(q)' = Seen(q)
    PROVE  \E written \in SUBSET (1 .. Len(file)) : Db!Commit(next, written, Len(file))
<1> DEFINE n == Len(file)
           old == TxnsOf(Committed)
           written == {i \in 1 .. n : next \in file[i].txns}
<1>1. /\ file \in Seq(PageType) /\ Committed \in Seq(PageType) /\ n \in Nat
      /\ Len(Committed) \in Nat
  BY CommittedIs DEF DataInv, DataTypes
<1>2. /\ Committed' = file /\ jdisk = jrnl /\ Len(Committed) <= n /\ n <= MaxPages
      /\ \A i \in 1 .. n : Mixed(file[i].txns, i)
      /\ \A i \in 1 .. Len(Committed) : next \notin Committed[i].txns
  BY DEF Commits
<1>3. Len(old) = Len(Committed) /\ \A i \in 1 .. Len(Committed) : old[i] = Committed[i].txns
  BY <1>1, TxnsAre
<1>4. TxnsOf(Committed)' = [i \in 1 .. n |-> file[i].txns]
  BY <1>2 DEF TxnsOf
<1>5. \A i \in 1 .. n :
          file[i].txns = (IF i <= Len(old) THEN old[i] ELSE {}) \cup (IF i \in written THEN {next} ELSE {})
  <2> SUFFICES ASSUME NEW i \in 1 .. n
               PROVE  file[i].txns = (IF i <= Len(old) THEN old[i] ELSE {})
                                         \cup (IF i \in written THEN {next} ELSE {})
    OBVIOUS
  <2>1. OldTxns(i) = IF i <= Len(old) THEN old[i] ELSE {}
    BY <1>1, <1>3 DEF OldTxns
  <2>2. next \notin OldTxns(i)
    BY <1>1, <1>2 DEF OldTxns
  <2>3. file[i].txns \in {OldTxns(i), OldTxns(i) \cup {next}}
    BY <1>2 DEF Mixed
  <2>4. i \in written <=> next \in file[i].txns
    OBVIOUS
  <2> QED
    BY <2>1, <2>2, <2>3, <2>4
<1>6. TxnsOf(Committed)' =
          [i \in 1 .. n |-> (IF i <= Len(old) THEN old[i] ELSE {}) \cup (IF i \in written THEN {next} ELSE {})]
  BY <1>4, <1>5
<1>7. TxnsOf(Restored(jdisk))' = old
  BY <1>2 DEF TxnsOf, Committed
<1>8. [q \in Procs |-> Seen(q)]' = [q \in Procs |-> Seen(q)]
  OBVIOUS
<1>9. \A i \in 1 .. Len(old) : next \notin old[i]
  BY <1>2, <1>3
<1>10. n >= Len(old)
  BY <1>1, <1>2, <1>3
<1>11. written \in SUBSET (1 .. n)
  OBVIOUS
<1> HIDE DEF written, old
<1>12. Db!Commit(next, written, n)
  BY <1>6, <1>7, <1>8, <1>9, <1>10 DEF Db!Commit, old
<1> QED
  BY <1>11, <1>12

\* A step that keeps the database reads it, ends a statement or makes it safe, as far as
\* the contract can tell.
LEMMA KeptIs ==
    ASSUME DataInv, NEW p \in Procs, Kept,
           \A q \in Procs \ {p} : Seen(q)' = Seen(q),
           \/ Seen(p)' = Seen(p)
           \/ UNCHANGED files /\ Seen(p)' \in {<<>>, TxnsOf(Committed)}
    PROVE  Db!Read(p) \/ Db!Close(p) \/ Db!Settle
               \/ UNCHANGED <<TxnsOf(Committed), TxnsOf(Restored(jdisk)), [q \in Procs |-> Seen(q)]>>
<1> DEFINE now == TxnsOf(Committed)
           before == TxnsOf(Restored(jdisk))
           rows == [q \in Procs |-> Seen(q)]
<1>1. /\ Committed' = Committed
      /\ Restored(jdisk)' \in {Restored(jdisk), Committed}
  BY DEF Kept
<1>2. now' = now
  BY <1>1 DEF TxnsOf
<1>3. Restored(jdisk)' = Restored(jdisk) => before' = before
  BY DEF TxnsOf
<1>4. Restored(jdisk)' = Committed => before' = now
  BY DEF TxnsOf
<1>5. CASE Seen(p)' = Seen(p)
  <2>1. \A q \in Procs : Seen(q)' = Seen(q)
    BY <1>5
  <2>2. rows' = rows
    BY <2>1
  <2> HIDE DEF now, before, rows
  <2>3. before' = now => Db!Settle
    BY <1>2, <2>2 DEF Db!Settle, now, before, rows
  <2> QED
    BY <1>1, <1>2, <1>3, <1>4, <2>2, <2>3 DEF now, before, rows
<1>6. CASE UNCHANGED files /\ Seen(p)' \in {<<>>, TxnsOf(Committed)}
  <2>1. before' = before
    BY <1>3, <1>6 DEF files, Restored
  <2>2. rows' = [rows EXCEPT ![p] = Seen(p)']
    OBVIOUS
  <2> HIDE DEF now, before, rows
  <2>3. CASE Seen(p)' = <<>>
    <3>1. Db!Close(p)
      BY <1>2, <2>1, <2>2, <2>3 DEF Db!Close, now, before, rows
    <3> QED
      BY <3>1
  <2>4. CASE Seen(p)' = now
    <3>1. Db!Read(p)
      BY <1>2, <2>1, <2>2, <2>4 DEF Db!Read, now, before, rows
    <3> QED
      BY <3>1
  <2> QED
    BY <1>6, <2>3, <2>4 DEF now
<1> QED
  BY <1>5, <1>6

\* A power failure brings the database back as it was, or without the last commit.
LEMMA LossIs ==
    ASSUME IInv, DataInv, PowerLoss
    PROVE  Db!PowerLoss
<1>1. Committed' \in {Committed, Restored(jdisk)} /\ Restored(jdisk)' = Committed'
  BY PowerLossDoes
<1>2. TxnsOf(Committed)' \in {TxnsOf(Committed), TxnsOf(Restored(jdisk))}
  <2>1. Committed' = Committed => TxnsOf(Committed)' = TxnsOf(Committed)
    BY DEF TxnsOf
  <2>2. Committed' = Restored(jdisk) => TxnsOf(Committed)' = TxnsOf(Restored(jdisk))
    BY DEF TxnsOf
  <2> QED
    BY <1>1, <2>1, <2>2
<1>3. TxnsOf(Restored(jdisk))' = TxnsOf(Committed)'
  BY <1>1 DEF TxnsOf
<1>4. [p \in Procs |-> Seen(p)]' = [p \in Procs |-> <<>>]
  BY DEF PowerLoss, Seen, At
<1> QED
  BY <1>2, <1>3, <1>4 DEF Db!PowerLoss

\* Every step is one of the contract, or is not seen there.
LEMMA StepIs ==
    ASSUME IInv, DataInv, [Next]_vars
    PROVE  [Db!Next]_<<TxnsOf(Committed), TxnsOf(Restored(jdisk)), [p \in Procs |-> Seen(p)]>>
<1>1. ASSUME NEW p \in Procs,
             \/ \E k \in {"read", "write"} : Begin(p, k)
             \/ Step(p) \/ Error(p) \/ Kill(p)
      PROVE  Db!Next \/ UNCHANGED <<TxnsOf(Committed), TxnsOf(Restored(jdisk)), [q \in Procs |-> Seen(q)]>>
  <2>1. /\ \A q \in Procs \ {p} : Seen(q)' = Seen(q)
        /\ Seen(p)' = Seen(p) \/ (UNCHANGED files /\ Seen(p)' \in {<<>>, TxnsOf(Committed)})
    BY <1>1, SeenMoves
  <2>2. CASE Kept
    <3>1. Db!Read(p) \/ Db!Close(p) \/ Db!Settle
              \/ UNCHANGED <<TxnsOf(Committed), TxnsOf(Restored(jdisk)), [q \in Procs |-> Seen(q)]>>
      BY <2>1, <2>2, KeptIs
    <3> QED
      BY <3>1 DEF Db!Next
  <2>3. CASE Delete(p)
    <3>1. DataInv' /\ Restored(jdisk)' = Restored(jdisk)
      BY <2>3, DeleteDoes
    <3>2. CASE Committed' = Committed
      <4>1. Kept
        BY <3>1, <3>2 DEF Kept
      <4> QED
        BY <2>2, <4>1
    <3>3. CASE Commits(p)
      <4>1. Seen(p)' = Seen(p)
        BY <2>3 DEF Delete, At, Go, IInv, LocksMatch, Seen
      <4>2. \E written \in SUBSET (1 .. Len(file)) : Db!Commit(next, written, Len(file))
        BY <2>1, <3>1, <3>3, <4>1, CommitIs
      <4>3. next \in Db!Txns /\ Len(file) \in 0 .. MaxPages
        BY <3>3 DEF Commits, Db!Txns, DataInv, DataTypes
      <4> QED
        BY <4>2, <4>3 DEF Db!Next
    <3> QED
      BY <2>3, <3>2, <3>3, DeleteDoes
  <2> QED
    BY <1>1, <2>2, <2>3, KeptMove
<1>2. CASE PowerLoss
  BY <1>2, LossIs DEF Db!Next
<1>3. CASE UNCHANGED vars
  <2>1. UNCHANGED <<files, pc, kind, got>>
    BY <1>3 DEF vars, memory
  <2> QED
    BY <2>1 DEF files, Committed, Restored, TxnsOf, Seen, At
<1> QED
  BY <1>1, <1>2, <1>3 DEF Next

\* So is the beginning.
LEMMA InitIs ==
    ASSUME Init, OldPages > 0
    PROVE  Db!Init
<1>1. /\ TxnsOf(Committed) = [i \in 1 .. OldPages |-> {}]
      /\ TxnsOf(Restored(jdisk)) = TxnsOf(Committed)
  <2>1. Committed = file /\ Restored(jdisk) = file /\ file \in Seq(PageType)
    BY InitData DEF DataInv, DataTypes
  <2>2. file = [i \in 1 .. OldPages |->
                   IF i = 1 THEN [Zero EXCEPT !.ctr = 1, !.n = OldPages] ELSE Zero]
    BY DEF Init
  <2>3. Len(file) = OldPages /\ \A i \in 1 .. OldPages : file[i].txns = {}
    <3>1. OldPages \in Nat /\ Len(file) \in Nat
      BY <2>1, PagerBounds
    <3>2. DOMAIN file = 1 .. OldPages
      BY <2>2, Zenon
    <3>3. DOMAIN file = 1 .. Len(file)
      BY <2>1
    <3> QED
      BY <2>2, <3>1, <3>2, <3>3 DEF Zero
  <2> QED
    BY <2>1, <2>3 DEF TxnsOf
<1>2. [p \in Procs |-> Seen(p)] = [p \in Procs |-> <<>>]
  BY DEF Init, Seen, At
<1> QED
  BY <1>1, <1>2 DEF Db!Init

\* Through kills, I/O errors, SQLITE_BUSY, rollbacks and power failures, and for any
\* number of processes, pages and transactions, each statement reads one committed state
\* or replaces it by the next, and a power failure costs the last commit at most; for a
\* database that has a page.
THEOREM StatementsAreAtomic == ASSUME OldPages > 0 PROVE Spec => Atomic
<1>1. Init => Db!Init
  BY InitIs
<1>2. Inductive /\ [Next]_vars
          => [Db!Next]_<<TxnsOf(Committed), TxnsOf(Restored(jdisk)), [p \in Procs |-> Seen(p)]>>
  BY StepIs DEF Inductive
<1> QED
  BY <1>1, <1>2, DataIsSafe, PTL DEF Spec, Atomic, Db!Spec
=============================================================================
