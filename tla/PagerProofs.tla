---------------------------- MODULE PagerProofs ----------------------------
(***************************************************************************)
(* Proofs about Pager, for any number of processes, pages, transactions    *)
(* and retries, with or without I/O errors and power failures: the lock    *)
(* that goes with each step, that no process works beside a hot journal,   *)
(* and that the file does not change under a reader.                       *)
(***************************************************************************)
EXTENDS Pager, TLAPS

USE DEF L!NO_LOCK, L!SHARED_LOCK, L!RESERVED_LOCK, L!EXCLUSIVE_LOCK, L!Granted,
        InsideSteps, Sharing, Reserving, Repairing, Writing, Releasing

\* What a process may do, a page that is written at a time.
Move(p) ==
    \/ \E k \in {"read", "write"} : Begin(p, k)
    \/ Step(p) \/ FailRead(p) \/ Fail(p) \/ FailWrite(p) \/ Abandon(p) \/ Kill(p)

-----------------------------------------------------------------------------
\* The locks

\* Nobody has a lock at first.
LEMMA InitLocks == Init => LocksMatch /\ L!Exclusion
BY DEF Init, LocksMatch, L!Exclusion, L!Init

\* Each step leaves a process with the lock its next step is made for, and takes
\* RESERVED and EXCLUSIVE only as DbLock lets it.
LEMMA StepLocks ==
    ASSUME LocksMatch, L!Exclusion, NEW p \in Procs, Move(p)
    PROVE  (LocksMatch /\ L!Exclusion)'
<1> USE DEF LocksMatch, L!Exclusion, At, Go, L!Others
<1>1. ASSUME NEW k \in {"read", "write"}, Begin(p, k) PROVE (LocksMatch /\ L!Exclusion)'
  BY <1>1 DEF Begin, Close
<1>2. CASE Shared(p)
  BY <1>2 DEF Shared, Look, L!Shared
<1>3. CASE Access(p)
  BY <1>3 DEF Access, Look
<1>4. CASE Check(p)
  BY <1>4 DEF Check, Look
<1>5. CASE NPage(p)
  BY <1>5 DEF NPage, Look
<1>6. CASE Stale(p)
  BY <1>6 DEF Stale, Look, L!Reserved
<1>7. CASE DeleteStale(p)
  BY <1>7 DEF DeleteStale
<1>8. CASE FirstByte(p)
  BY <1>8 DEF FirstByte, Look
<1>9. CASE HotLock(p)
  BY <1>9 DEF HotLock, Look, L!Exclusive
<1>10. CASE HotOpen(p)
  BY <1>10 DEF HotOpen, Look
<1>11. CASE HotSync(p)
  BY <1>11 DEF HotSync
<1>12. CASE Unreserve(p)
  BY <1>12 DEF Unreserve, Look, L!LowerTo
<1>13. CASE Version(p)
  BY <1>13 DEF Version
<1>14. CASE Page1(p)
  BY <1>14 DEF Page1
<1>15. CASE Read(p)
  BY <1>15 DEF Read
<1>16. CASE EndRead(p)
  BY <1>16 DEF EndRead, Look
<1>17. CASE End(p)
  BY <1>17 DEF End, Close, L!LowerTo
<1>18. CASE Reserve(p)
  BY <1>18 DEF Reserve, L!Reserved
<1>19. ASSUME NEW i \in 1 .. MaxPages, PagerWrite(p, i) PROVE (LocksMatch /\ L!Exclusion)'
  BY <1>19 DEF PagerWrite
<1>20. CASE Finish(p)
  BY <1>20 DEF Finish, Look
<1>21. CASE Exclusive(p)
  BY <1>21 DEF Exclusive, Look, L!Exclusive
<1>22. CASE Counter(p)
  BY <1>22 DEF Counter
<1>23. CASE JournalSync(p)
  BY <1>23 DEF JournalSync
<1>24. CASE Header(p)
  BY <1>24 DEF Header
<1>25. CASE WritePage(p)
  BY <1>25 DEF WritePage, WriteFile
<1>26. CASE DbSync(p)
  BY <1>26 DEF DbSync
<1>27. CASE Delete(p)
  BY <1>27 DEF Delete
<1>28. CASE Unlock(p)
  BY <1>28 DEF Unlock, Look, L!LowerTo
<1>29. CASE Truncate(p)
  BY <1>29 DEF Truncate
<1>30. CASE PlayPage(p)
  BY <1>30 DEF PlayPage, WriteFile, Playing
<1>31. CASE EndPlay(p)
  BY <1>31 DEF EndPlay, Playing
<1>32. CASE BusyWait(p)
  BY <1>32 DEF BusyWait, Asking, Backs, DropLock, L!LowerTo
<1>33. CASE BusyGiveUp(p)
  BY <1>33 DEF BusyGiveUp, Asking, Backs, DropLock, Rollback, RollbackCache, Close, L!LowerTo
<1>34. CASE Fail(p)
  BY <1>34 DEF Fail, Rollback, RollbackCache
<1>35. CASE FailWrite(p)
  BY <1>35 DEF FailWrite
<1>38. CASE FailRead(p)
  BY <1>38 DEF FailRead, ReadsFile
<1>36. CASE Abandon(p)
  BY <1>36 DEF Abandon
<1>37. CASE Kill(p)
  BY <1>37 DEF Kill, Close
<1> QED
  BY <1>1, <1>2, <1>3, <1>4, <1>5, <1>6, <1>7, <1>8, <1>9, <1>10, <1>11, <1>12, <1>13,
     <1>14, <1>15, <1>16, <1>17, <1>18, <1>19, <1>20, <1>21, <1>22, <1>23, <1>24, <1>25, <1>26,
     <1>27, <1>28, <1>29, <1>30, <1>31, <1>32, <1>33, <1>34, <1>35, <1>36, <1>37, <1>38
  DEF Move, Step

\* Processes only ever change the fields of a journal, or put another in its place.
LEMMA StepJournals ==
    ASSUME JournalsAre, NEW p \in Procs, Move(p)
    PROVE  JournalsAre'
<1> USE DEF JournalsAre, NoJournal, Journalled, files
<1>1. ASSUME NEW k \in {"read", "write"}, Begin(p, k) PROVE JournalsAre'
  BY <1>1 DEF Begin, Close
<1>2. CASE Shared(p)
  BY <1>2 DEF Shared, Look
<1>3. CASE Access(p)
  BY <1>3 DEF Access, Look
<1>4. CASE Check(p)
  BY <1>4 DEF Check, Look
<1>5. CASE NPage(p)
  BY <1>5 DEF NPage, Look
<1>6. CASE Stale(p)
  BY <1>6 DEF Stale, Look
<1>7. CASE DeleteStale(p)
  BY <1>7 DEF DeleteStale
<1>8. CASE FirstByte(p)
  BY <1>8 DEF FirstByte, Look
<1>9. CASE HotLock(p)
  BY <1>9 DEF HotLock, Look
<1>10. CASE HotOpen(p)
  BY <1>10 DEF HotOpen, Look
<1>11. CASE HotSync(p)
  BY <1>11 DEF HotSync
<1>12. CASE Unreserve(p)
  BY <1>12 DEF Unreserve, Look
<1>13. CASE Version(p)
  BY <1>13 DEF Version
<1>14. CASE Page1(p)
  BY <1>14 DEF Page1
<1>15. CASE Read(p)
  BY <1>15 DEF Read
<1>16. CASE EndRead(p)
  BY <1>16 DEF EndRead, Look
<1>17. CASE End(p)
  BY <1>17 DEF End, Close
<1>18. CASE Reserve(p)
  BY <1>18 DEF Reserve
<1>19. ASSUME NEW i \in 1 .. MaxPages, PagerWrite(p, i) PROVE JournalsAre'
  BY <1>19 DEF PagerWrite
<1>20. CASE Finish(p)
  BY <1>20 DEF Finish, Look
<1>21. CASE Exclusive(p)
  BY <1>21 DEF Exclusive, Look
<1>22. CASE Counter(p)
  BY <1>22 DEF Counter
<1>23. CASE JournalSync(p)
  BY <1>23 DEF JournalSync
<1>24. CASE Header(p)
  BY <1>24 DEF Header
<1>25. CASE WritePage(p)
  BY <1>25 DEF WritePage, WriteFile
<1>26. CASE DbSync(p)
  BY <1>26 DEF DbSync
<1>27. CASE Delete(p)
  BY <1>27 DEF Delete
<1>28. CASE Unlock(p)
  BY <1>28 DEF Unlock, Look
<1>29. CASE Truncate(p)
  BY <1>29 DEF Truncate
<1>30. CASE PlayPage(p)
  BY <1>30 DEF PlayPage, WriteFile, Playing
<1>31. CASE EndPlay(p)
  BY <1>31 DEF EndPlay, Playing
<1>32. CASE BusyWait(p)
  BY <1>32 DEF BusyWait, Asking, Backs, DropLock
<1>33. CASE BusyGiveUp(p)
  BY <1>33 DEF BusyGiveUp, Asking, Backs, DropLock, Rollback, RollbackCache, Close
<1>34. CASE Fail(p)
  BY <1>34 DEF Fail, Rollback, RollbackCache
<1>35. CASE FailWrite(p)
  BY <1>35 DEF FailWrite
<1>38. CASE FailRead(p)
  BY <1>38 DEF FailRead, ReadsFile
<1>36. CASE Abandon(p)
  BY <1>36 DEF Abandon
<1>37. CASE Kill(p)
  BY <1>37 DEF Kill, Close
<1> QED
  BY <1>1, <1>2, <1>3, <1>4, <1>5, <1>6, <1>7, <1>8, <1>9, <1>10, <1>11, <1>12, <1>13,
     <1>14, <1>15, <1>16, <1>17, <1>18, <1>19, <1>20, <1>21, <1>22, <1>23, <1>24, <1>25, <1>26,
     <1>27, <1>28, <1>29, <1>30, <1>31, <1>32, <1>33, <1>34, <1>35, <1>36, <1>37, <1>38
  DEF Move, Step

\* What hasHotJournal finds out still holds when it is used: the locks it is found
\* out under keep the others from changing it.
LEMMA StepHot ==
    ASSUME LocksMatch, L!Exclusion, JournalsAre, StepsKnow, NoneHot,
           NEW p \in Procs, Move(p)
    PROVE  (StepsKnow /\ NoneHot)'
<1> USE DEF LocksMatch, L!Exclusion, JournalsAre, StepsKnow, NoneHot, Hot, Exists,
            NoJournal, At, Go, L!Others, files
<1>1. ASSUME NEW k \in {"read", "write"}, Begin(p, k) PROVE (StepsKnow /\ NoneHot)'
  BY <1>1 DEF Begin, Close
<1>2. CASE Shared(p)
  BY <1>2 DEF Shared, Look, L!Shared
<1>3. CASE Access(p)
  BY <1>3 DEF Access, Look
<1>4. CASE Check(p)
  BY <1>4 DEF Check, Look, L!ReservedByOther
<1>5. CASE NPage(p)
  BY <1>5 DEF NPage, Look
<1>6. CASE Stale(p)
  BY <1>6 DEF Stale, Look, L!Reserved
<1>7. CASE DeleteStale(p)
  BY <1>7 DEF DeleteStale
<1>8. CASE FirstByte(p)
  BY <1>8 DEF FirstByte, Look
<1>9. CASE HotLock(p)
  BY <1>9 DEF HotLock, Look, L!Exclusive
<1>10. CASE HotOpen(p)
  BY <1>10 DEF HotOpen, Look
<1>11. CASE HotSync(p)
  BY <1>11 DEF HotSync
<1>12. CASE Unreserve(p)
  BY <1>12 DEF Unreserve, Look, L!LowerTo
<1>13. CASE Version(p)
  BY <1>13 DEF Version
<1>14. CASE Page1(p)
  BY <1>14 DEF Page1
<1>15. CASE Read(p)
  BY <1>15 DEF Read
<1>16. CASE EndRead(p)
  BY <1>16 DEF EndRead, Look
<1>17. CASE End(p)
  BY <1>17 DEF End, Close, L!LowerTo
<1>18. CASE Reserve(p)
  BY <1>18 DEF Reserve, L!Reserved
<1>19. ASSUME NEW i \in 1 .. MaxPages, PagerWrite(p, i) PROVE (StepsKnow /\ NoneHot)'
  BY <1>19 DEF PagerWrite, Journalled
<1>20. CASE Finish(p)
  BY <1>20 DEF Finish, Look
<1>21. CASE Exclusive(p)
  BY <1>21 DEF Exclusive, Look, L!Exclusive
<1>22. CASE Counter(p)
  BY <1>22 DEF Counter, Journalled
<1>23. CASE JournalSync(p)
  BY <1>23 DEF JournalSync
<1>24. CASE Header(p)
  BY <1>24 DEF Header
<1>25. CASE WritePage(p)
  BY <1>25 DEF WritePage, WriteFile
<1>26. CASE DbSync(p)
  BY <1>26 DEF DbSync
<1>27. CASE Delete(p)
  BY <1>27 DEF Delete
<1>28. CASE Unlock(p)
  BY <1>28 DEF Unlock, Look, L!LowerTo
<1>29. CASE Truncate(p)
  BY <1>29 DEF Truncate
<1>30. CASE PlayPage(p)
  BY <1>30 DEF PlayPage, WriteFile, Playing
<1>31. CASE EndPlay(p)
  BY <1>31 DEF EndPlay, Playing
<1>32. CASE BusyWait(p)
  BY <1>32 DEF BusyWait, Asking, Backs, DropLock, L!LowerTo
<1>33. CASE BusyGiveUp(p)
  BY <1>33 DEF BusyGiveUp, Asking, Backs, DropLock, Rollback, RollbackCache, Close, L!LowerTo
<1>34. CASE Fail(p)
  BY <1>34 DEF Fail, Rollback, RollbackCache
<1>35. CASE FailWrite(p)
  BY <1>35 DEF FailWrite
<1>38. CASE FailRead(p)
  BY <1>38 DEF FailRead, ReadsFile
<1>36. CASE Abandon(p)
  BY <1>36 DEF Abandon
<1>37. CASE Kill(p)
  BY <1>37 DEF Kill, Close
<1> QED
  BY <1>1, <1>2, <1>3, <1>4, <1>5, <1>6, <1>7, <1>8, <1>9, <1>10, <1>11, <1>12, <1>13,
     <1>14, <1>15, <1>16, <1>17, <1>18, <1>19, <1>20, <1>21, <1>22, <1>23, <1>24, <1>25, <1>26,
     <1>27, <1>28, <1>29, <1>30, <1>31, <1>32, <1>33, <1>34, <1>35, <1>36, <1>37, <1>38
  DEF Move, Step

-----------------------------------------------------------------------------

\* There is no journal at first.
LEMMA InitInv == Init => IInv
<1> SUFFICES ASSUME Init PROVE IInv
  OBVIOUS
<1>1. LocksMatch /\ L!Exclusion
  BY InitLocks
<1>2. JournalsAre /\ StepsKnow /\ NoneHot
  BY DEF Init, JournalsAre, StepsKnow, NoneHot, Hot, NoJournal
<1> QED
  BY <1>1, <1>2 DEF IInv

\* A power failure leaves every process without a lock and without a statement,
\* whatever it leaves of the files.
LEMMA PowerLossInv ==
    ASSUME IInv, PowerLoss
    PROVE  IInv'
<1> USE DEF IInv, PowerLoss
<1>1. (LocksMatch /\ L!Exclusion /\ StepsKnow /\ NoneHot)'
  BY DEF LocksMatch, L!Exclusion, StepsKnow, NoneHot
<1>2. JournalsAre'
  <2>1. \A j \in JournalLeft : DOMAIN j = DOMAIN NoJournal
    BY DEF JournalsAre, JournalLeft, NoJournal
  <2> QED
    BY <2>1 DEF JournalsAre
<1> QED
  BY <1>1, <1>2

LEMMA StepInv == IInv /\ [Next]_vars => IInv'
<1> SUFFICES ASSUME IInv, [Next]_vars PROVE IInv'
  OBVIOUS
<1>1. ASSUME NEW p \in Procs, Move(p) PROVE IInv'
  BY <1>1, StepLocks, StepJournals, StepHot DEF IInv
<1>2. CASE PowerLoss
  BY <1>2, PowerLossInv
<1>3. CASE UNCHANGED vars
  BY <1>3 DEF vars, files, IInv, LocksMatch, L!Exclusion, JournalsAre, StepsKnow, NoneHot,
              Hot
<1> QED
  BY <1>1, <1>2, <1>3 DEF Next, Move, Error

\* The lock of every process is the one its step was written for, through I/O
\* errors, SQLITE_BUSY, kills and power failures.
THEOREM LocksAndJournalsMatch == Spec => []IInv
<1>1. Init => IInv
  BY InitInv
<1>2. IInv /\ [Next]_vars => IInv'
  BY StepInv
<1> QED
  BY <1>1, <1>2, PTL DEF Spec

\* No process reads or builds on half a transaction that a hot journal could take
\* back, though sqlite3PagerSharedLock looks for one in steps that may be overtaken.
THEOREM NoneWorksBesideHotJournal == Spec => []NoneHot
<1>1. IInv => NoneHot
  BY DEF IInv
<1> QED
  BY <1>1, LocksAndJournalsMatch, PTL

-----------------------------------------------------------------------------
\* The file under a reader

\* Only a process with EXCLUSIVE writes to the file.
LEMMA OnlyExclusiveWrites ==
    ASSUME LocksMatch, NEW p \in Procs, Move(p)
    PROVE  file' = file \/ (lock[p] = L!EXCLUSIVE_LOCK /\ pc'[p] \notin InsideSteps)
<1> USE DEF LocksMatch, At, Go, files
<1>1. ASSUME NEW k \in {"read", "write"}, Begin(p, k)
      PROVE  file' = file \/ (lock[p] = L!EXCLUSIVE_LOCK /\ pc'[p] \notin InsideSteps)
  BY <1>1 DEF Begin, Close
<1>2. CASE Shared(p)
  BY <1>2 DEF Shared, Look
<1>3. CASE Access(p)
  BY <1>3 DEF Access, Look
<1>4. CASE Check(p)
  BY <1>4 DEF Check, Look
<1>5. CASE NPage(p)
  BY <1>5 DEF NPage, Look
<1>6. CASE Stale(p)
  BY <1>6 DEF Stale, Look
<1>7. CASE DeleteStale(p)
  BY <1>7 DEF DeleteStale
<1>8. CASE FirstByte(p)
  BY <1>8 DEF FirstByte, Look
<1>9. CASE HotLock(p)
  BY <1>9 DEF HotLock, Look
<1>10. CASE HotOpen(p)
  BY <1>10 DEF HotOpen, Look
<1>11. CASE HotSync(p)
  BY <1>11 DEF HotSync
<1>12. CASE Unreserve(p)
  BY <1>12 DEF Unreserve, Look
<1>13. CASE Version(p)
  BY <1>13 DEF Version
<1>14. CASE Page1(p)
  BY <1>14 DEF Page1
<1>15. CASE Read(p)
  BY <1>15 DEF Read
<1>16. CASE EndRead(p)
  BY <1>16 DEF EndRead, Look
<1>17. CASE End(p)
  BY <1>17 DEF End, Close
<1>18. CASE Reserve(p)
  BY <1>18 DEF Reserve
<1>19. ASSUME NEW i \in 1 .. MaxPages, PagerWrite(p, i)
      PROVE  file' = file \/ (lock[p] = L!EXCLUSIVE_LOCK /\ pc'[p] \notin InsideSteps)
  BY <1>19 DEF PagerWrite
<1>20. CASE Finish(p)
  BY <1>20 DEF Finish, Look
<1>21. CASE Exclusive(p)
  BY <1>21 DEF Exclusive, Look
<1>22. CASE Counter(p)
  BY <1>22 DEF Counter
<1>23. CASE JournalSync(p)
  BY <1>23 DEF JournalSync
<1>24. CASE Header(p)
  BY <1>24 DEF Header
<1>25. CASE WritePage(p)
  BY <1>25 DEF WritePage, WriteFile
<1>26. CASE DbSync(p)
  BY <1>26 DEF DbSync
<1>27. CASE Delete(p)
  BY <1>27 DEF Delete
<1>28. CASE Unlock(p)
  BY <1>28 DEF Unlock, Look
<1>29. CASE Truncate(p)
  BY <1>29 DEF Truncate
<1>30. CASE PlayPage(p)
  BY <1>30 DEF PlayPage, WriteFile, Playing
<1>31. CASE EndPlay(p)
  BY <1>31 DEF EndPlay, Playing
<1>32. CASE BusyWait(p)
  BY <1>32 DEF BusyWait, Asking, Backs, DropLock
<1>33. CASE BusyGiveUp(p)
  BY <1>33 DEF BusyGiveUp, Asking, Backs, DropLock, Rollback, RollbackCache, Close
<1>34. CASE Fail(p)
  BY <1>34 DEF Fail, Rollback, RollbackCache
<1>35. CASE FailWrite(p)
  BY <1>35 DEF FailWrite
<1>38. CASE FailRead(p)
  BY <1>38 DEF FailRead, ReadsFile
<1>36. CASE Abandon(p)
  BY <1>36 DEF Abandon
<1>37. CASE Kill(p)
  BY <1>37 DEF Kill, Close
<1> QED
  BY <1>1, <1>2, <1>3, <1>4, <1>5, <1>6, <1>7, <1>8, <1>9, <1>10, <1>11, <1>12, <1>13,
     <1>14, <1>15, <1>16, <1>17, <1>18, <1>19, <1>20, <1>21, <1>22, <1>23, <1>24, <1>25, <1>26,
     <1>27, <1>28, <1>29, <1>30, <1>31, <1>32, <1>33, <1>34, <1>35, <1>36, <1>37, <1>38
  DEF Move, Step

\* A statement reads one file from its version check to its end, and prepares its
\* changes on that file, for any number of processes.
THEOREM ReadersAreUndisturbed == Spec => Undisturbed
<1> DEFINE A == \A p \in Procs : pc[p] \in InsideSteps /\ pc'[p] \in InsideSteps => file' = file
<1>1. IInv /\ [Next]_vars => [A]_vars
  <2> SUFFICES ASSUME IInv, [Next]_vars, NEW p \in Procs,
                      pc[p] \in InsideSteps, pc'[p] \in InsideSteps
               PROVE  file' = file
    BY DEF A
  <2>1. ASSUME NEW q \in Procs, Move(q) PROVE file' = file
    <3>1. file' = file \/ (lock[q] = L!EXCLUSIVE_LOCK /\ pc'[q] \notin InsideSteps)
      BY <2>1, OnlyExclusiveWrites DEF IInv
    <3>2. lock[q] = L!EXCLUSIVE_LOCK => q = p
      BY DEF IInv, LocksMatch, L!Exclusion
    <3> QED
      BY <3>1, <3>2
  <2>2. CASE PowerLoss
    BY <2>2 DEF PowerLoss
  <2>3. CASE UNCHANGED vars
    BY <2>3 DEF vars, files
  <2> QED
    BY <2>1, <2>2, <2>3 DEF Next, Move, Error
<1> QED
  BY <1>1, LocksAndJournalsMatch, PTL DEF Spec, Undisturbed
=============================================================================
