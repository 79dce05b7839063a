---------------------------- MODULE WinLockProofs ----------------------------
(***************************************************************************)
(* Proofs about WinLock, for any number of processes: the inductive        *)
(* invariant, what it says of readers and writers, and that the calls      *)
(* implement the contract DbLock.                                          *)
(***************************************************************************)
EXTENDS WinLock, TLAPS

USE DEF NO_LOCK, SHARED_LOCK, RESERVED_LOCK, PENDING_LOCK, EXCLUSIVE_LOCK,
        Levels, Ranges, Steps, Files

Step(p) ==
    \/ Call(p) \/ CallTest(p) \/ CallUnlock(p, SHARED_LOCK) \/ CallUnlock(p, NO_LOCK)
    \/ LockStep(p) \/ UnlockStep(p) \/ Kill(p)

-----------------------------------------------------------------------------
\* The inductive invariant

\* Nothing is locked at first.
LEMMA InitInv == Init => IInv
BY DEF Init, IInv, TypeOK, RangesExclude, PendingRange, ReservedRange, SharedRange,
       WriterAlone, CallsMatch, InPending

\* Each system call keeps the ranges in step with the levels: one part of the
\* invariant at a time.
LEMMA StepInv ==
    ASSUME IInv, NEW p \in Procs, Step(p)
    PROVE  IInv'
<1> USE DEF IInv, TypeOK, RangesExclude, PendingRange, ReservedRange, SharedRange,
            WriterAlone, CallsMatch, InPending
<1>1. CASE Call(p)
  <2>1. TypeOK'
    BY <1>1 DEF Call, AskShared, AskReserved, AskExclusive, Go
  <2>2. RangesExclude'
    BY <1>1 DEF Call, AskShared, AskReserved, AskExclusive, Go
  <2>3. PendingRange'
    BY <1>1 DEF Call, AskShared, AskReserved, AskExclusive, Go
  <2>4. ReservedRange'
    BY <1>1 DEF Call, AskShared, AskReserved, AskExclusive, Go
  <2>5. SharedRange'
    BY <1>1 DEF Call, AskShared, AskReserved, AskExclusive, Go
  <2>6. CallsMatch'
    BY <1>1 DEF Call, AskShared, AskReserved, AskExclusive, Go
  <2>7. WriterAlone'
    BY <1>1 DEF Call, AskShared, AskReserved, AskExclusive, Go
  <2> QED BY <2>1, <2>2, <2>3, <2>4, <2>5, <2>6, <2>7
<1>2. CASE CallTest(p)
  <2>1. TypeOK'
    BY <1>2 DEF CallTest, Go
  <2>2. RangesExclude'
    BY <1>2 DEF CallTest, Go
  <2>3. PendingRange'
    BY <1>2 DEF CallTest, Go
  <2>4. ReservedRange'
    BY <1>2 DEF CallTest, Go
  <2>5. SharedRange'
    BY <1>2 DEF CallTest, Go
  <2>6. CallsMatch'
    BY <1>2 DEF CallTest, Go
  <2>7. WriterAlone'
    BY <1>2 DEF CallTest, Go
  <2> QED BY <2>1, <2>2, <2>3, <2>4, <2>5, <2>6, <2>7
<1>3. CASE CallUnlock(p, SHARED_LOCK)
  <2>1. TypeOK'
    BY <1>3 DEF CallUnlock, FirstUnlock, Go
  <2>2. RangesExclude'
    BY <1>3 DEF CallUnlock, FirstUnlock, Go
  <2>3. PendingRange'
    BY <1>3 DEF CallUnlock, FirstUnlock, Go
  <2>4. ReservedRange'
    BY <1>3 DEF CallUnlock, FirstUnlock, Go
  <2>5. SharedRange'
    BY <1>3 DEF CallUnlock, FirstUnlock, Go
  <2>6. CallsMatch'
    BY <1>3 DEF CallUnlock, FirstUnlock, Go
  <2>7. WriterAlone'
    BY <1>3 DEF CallUnlock, FirstUnlock, Go
  <2> QED BY <2>1, <2>2, <2>3, <2>4, <2>5, <2>6, <2>7
<1>4. CASE CallUnlock(p, NO_LOCK)
  <2>1. TypeOK'
    BY <1>4 DEF CallUnlock, FirstUnlock, Go
  <2>2. RangesExclude'
    BY <1>4 DEF CallUnlock, FirstUnlock, Go
  <2>3. PendingRange'
    BY <1>4 DEF CallUnlock, FirstUnlock, Go
  <2>4. ReservedRange'
    BY <1>4 DEF CallUnlock, FirstUnlock, Go
  <2>5. SharedRange'
    BY <1>4 DEF CallUnlock, FirstUnlock, Go
  <2>6. CallsMatch'
    BY <1>4 DEF CallUnlock, FirstUnlock, Go
  <2>7. WriterAlone'
    BY <1>4 DEF CallUnlock, FirstUnlock, Go
  <2> QED BY <2>1, <2>2, <2>3, <2>4, <2>5, <2>6, <2>7
<1>5. CASE TakePending(p)
  <2>1. TypeOK'
    BY <1>5 DEF TakePending, CanTake, Hold, Go
  <2>2. RangesExclude'
    BY <1>5 DEF TakePending, CanTake, Hold, Go
  <2>3. PendingRange'
    BY <1>5 DEF TakePending, CanTake, Hold, Go
  <2>4. ReservedRange'
    BY <1>5 DEF TakePending, CanTake, Hold, Go
  <2>5. SharedRange'
    BY <1>5 DEF TakePending, CanTake, Hold, Go
  <2>6. CallsMatch'
    BY <1>5 DEF TakePending, CanTake, Hold, Go
  <2>7. WriterAlone'
    BY <1>5 DEF TakePending, CanTake, Hold, Go
  <2> QED BY <2>1, <2>2, <2>3, <2>4, <2>5, <2>6, <2>7
<1>6. CASE PendingTaken(p)
  <2>1. TypeOK'
    BY <1>6 DEF PendingTaken, Busy, Go
  <2>2. RangesExclude'
    BY <1>6 DEF PendingTaken, Busy, Go
  <2>3. PendingRange'
    BY <1>6 DEF PendingTaken, Busy, Go
  <2>4. ReservedRange'
    BY <1>6 DEF PendingTaken, Busy, Go
  <2>5. SharedRange'
    BY <1>6 DEF PendingTaken, Busy, Go
  <2>6. CallsMatch'
    BY <1>6 DEF PendingTaken, Busy, Go
  <2>7. WriterAlone'
    BY <1>6 DEF PendingTaken, Busy, Go
  <2> QED BY <2>1, <2>2, <2>3, <2>4, <2>5, <2>6, <2>7
<1>7. CASE ReadLock(p)
  <2>1. TypeOK'
    BY <1>7 DEF ReadLock, CanTake, Hold, Go
  <2>2. RangesExclude'
    BY <1>7 DEF ReadLock, CanTake, Hold, Go
  <2>3. PendingRange'
    BY <1>7 DEF ReadLock, CanTake, Hold, Go
  <2>4. ReservedRange'
    BY <1>7 DEF ReadLock, CanTake, Hold, Go
  <2>5. SharedRange'
    BY <1>7 DEF ReadLock, CanTake, Hold, Go
  <2>6. CallsMatch'
    BY <1>7 DEF ReadLock, CanTake, Hold, Go
  <2>7. WriterAlone'
    BY <1>7 DEF ReadLock, CanTake, Hold, Go
  <2> QED BY <2>1, <2>2, <2>3, <2>4, <2>5, <2>6, <2>7
<1>8. CASE DropPending(p)
  <2>1. TypeOK'
    <3>1. (held \in [Ranges -> [Procs -> {"none", "read", "write"}]])' BY <1>8 DEF TypeOK, DropPending, Hold, Grant, Busy, Go
    <3>2. (locktype \in [Procs -> Levels])' BY <1>8 DEF TypeOK, DropPending, Hold, Grant, Busy, Go
    <3>3. (eLock \in [Procs -> Levels])' BY <1>8 DEF TypeOK, DropPending, Hold, Grant, Busy, Go
    <3>4. (at \in [Procs -> Steps])' BY <1>8 DEF TypeOK, DropPending, Hold, Grant, Busy, Go
    <3>5. (want \in [Procs -> Levels] /\ told \in [Procs -> {"free", "taken"}])' BY <1>8 DEF TypeOK, DropPending, Hold, Grant, Busy, Go
    <3> QED BY <3>1, <3>2, <3>3, <3>4, <3>5 DEF TypeOK
  <2>2. RangesExclude'
    BY <1>8 DEF DropPending, Hold, Grant, Busy, Go
  <2>3. PendingRange'
    BY <1>8 DEF DropPending, Hold, Grant, Busy, Go
  <2>4. ReservedRange'
    BY <1>8 DEF DropPending, Hold, Grant, Busy, Go
  <2>5. SharedRange'
    BY <1>8 DEF DropPending, Hold, Grant, Busy, Go
  <2>6. CallsMatch'
    BY <1>8 DEF DropPending, Hold, Grant, Busy, Go
  <2>7. WriterAlone'
    BY <1>8 DEF DropPending, Hold, Grant, Busy, Go
  <2> QED BY <2>1, <2>2, <2>3, <2>4, <2>5, <2>6, <2>7
<1>9. CASE Reserve(p)
  <2>1. TypeOK'
    <3>1. (held \in [Ranges -> [Procs -> {"none", "read", "write"}]])' BY <1>9 DEF TypeOK, Reserve, CanTake, Hold, Grant, Busy, Go
    <3>2. (locktype \in [Procs -> Levels])' BY <1>9 DEF TypeOK, Reserve, CanTake, Hold, Grant, Busy, Go
    <3>3. (eLock \in [Procs -> Levels])' BY <1>9 DEF TypeOK, Reserve, CanTake, Hold, Grant, Busy, Go
    <3>4. (at \in [Procs -> Steps])' BY <1>9 DEF TypeOK, Reserve, CanTake, Hold, Grant, Busy, Go
    <3>5. (want \in [Procs -> Levels] /\ told \in [Procs -> {"free", "taken"}])' BY <1>9 DEF TypeOK, Reserve, CanTake, Hold, Grant, Busy, Go
    <3> QED BY <3>1, <3>2, <3>3, <3>4, <3>5 DEF TypeOK
  <2>2. RangesExclude'
    BY <1>9 DEF Reserve, CanTake, Hold, Grant, Busy, Go
  <2>3. PendingRange'
    BY <1>9 DEF Reserve, CanTake, Hold, Grant, Busy, Go
  <2>4. ReservedRange'
    BY <1>9 DEF Reserve, CanTake, Hold, Grant, Busy, Go
  <2>5. SharedRange'
    BY <1>9 DEF Reserve, CanTake, Hold, Grant, Busy, Go
  <2>6. CallsMatch'
    BY <1>9 DEF Reserve, CanTake, Hold, Grant, Busy, Go
  <2>7. WriterAlone'
    BY <1>9 DEF Reserve, CanTake, Hold, Grant, Busy, Go
  <2> QED BY <2>1, <2>2, <2>3, <2>4, <2>5, <2>6, <2>7
<1>10. CASE DropRead(p)
  <2>1. TypeOK'
    BY <1>10 DEF DropRead, Hold, Go
  <2>2. RangesExclude'
    BY <1>10 DEF DropRead, Hold, Go
  <2>3. PendingRange'
    BY <1>10 DEF DropRead, Hold, Go
  <2>4. ReservedRange'
    BY <1>10 DEF DropRead, Hold, Go
  <2>5. SharedRange'
    BY <1>10 DEF DropRead, Hold, Go
  <2>6. CallsMatch'
    BY <1>10 DEF DropRead, Hold, Go
  <2>7. WriterAlone'
    BY <1>10 DEF DropRead, Hold, Go
  <2> QED BY <2>1, <2>2, <2>3, <2>4, <2>5, <2>6, <2>7
<1>11. CASE WriteLock(p)
  <2>1. TypeOK'
    BY <1>11 DEF WriteLock, CanTake, Hold, Grant, Go
  <2>2. RangesExclude'
    BY <1>11 DEF WriteLock, CanTake, Hold, Grant, Go
  <2>3. PendingRange'
    BY <1>11 DEF WriteLock, CanTake, Hold, Grant, Go
  <2>4. ReservedRange'
    BY <1>11 DEF WriteLock, CanTake, Hold, Grant, Go
  <2>5. SharedRange'
    BY <1>11 DEF WriteLock, CanTake, Hold, Grant, Go
  <2>6. CallsMatch'
    BY <1>11 DEF WriteLock, CanTake, Hold, Grant, Go
  <2>7. WriterAlone'
    BY <1>11 DEF WriteLock, CanTake, Hold, Grant, Go
  <2> QED BY <2>1, <2>2, <2>3, <2>4, <2>5, <2>6, <2>7
<1>12. CASE RangeTaken(p)
  <2>1. TypeOK'
    BY <1>12 DEF RangeTaken, Go
  <2>2. RangesExclude'
    BY <1>12 DEF RangeTaken, Go
  <2>3. PendingRange'
    BY <1>12 DEF RangeTaken, Go
  <2>4. ReservedRange'
    BY <1>12 DEF RangeTaken, Go
  <2>5. SharedRange'
    BY <1>12 DEF RangeTaken, Go
  <2>6. CallsMatch'
    BY <1>12 DEF RangeTaken, Go
  <2>7. WriterAlone'
    BY <1>12 DEF RangeTaken, Go
  <2> QED BY <2>1, <2>2, <2>3, <2>4, <2>5, <2>6, <2>7
<1>13. CASE ReRead(p)
  <2>1. TypeOK'
    BY <1>13 DEF ReRead, CanTake, Hold, Busy, Go
  <2>2. RangesExclude'
    BY <1>13 DEF ReRead, CanTake, Hold, Busy, Go
  <2>3. PendingRange'
    BY <1>13 DEF ReRead, CanTake, Hold, Busy, Go
  <2>4. ReservedRange'
    BY <1>13 DEF ReRead, CanTake, Hold, Busy, Go
  <2>5. SharedRange'
    BY <1>13 DEF ReRead, CanTake, Hold, Busy, Go
  <2>6. CallsMatch'
    BY <1>13 DEF ReRead, CanTake, Hold, Busy, Go
  <2>7. WriterAlone'
    BY <1>13 DEF ReRead, CanTake, Hold, Busy, Go
  <2> QED BY <2>1, <2>2, <2>3, <2>4, <2>5, <2>6, <2>7
<1>14. CASE Test(p)
  <2>1. TypeOK'
    BY <1>14 DEF Test, TestMode, CanTake, Hold, Go
  <2>2. RangesExclude'
    BY <1>14 DEF Test, TestMode, CanTake, Hold, Go
  <2>3. PendingRange'
    BY <1>14 DEF Test, TestMode, CanTake, Hold, Go
  <2>4. ReservedRange'
    BY <1>14 DEF Test, TestMode, CanTake, Hold, Go
  <2>5. SharedRange'
    BY <1>14 DEF Test, TestMode, CanTake, Hold, Go
  <2>6. CallsMatch'
    BY <1>14 DEF Test, TestMode, CanTake, Hold, Go
  <2>7. WriterAlone'
    BY <1>14 DEF Test, TestMode, CanTake, Hold, Go
  <2> QED BY <2>1, <2>2, <2>3, <2>4, <2>5, <2>6, <2>7
<1>15. CASE DropTest(p)
  <2>1. TypeOK'
    BY <1>15 DEF DropTest, Hold, Go
  <2>2. RangesExclude'
    BY <1>15 DEF DropTest, Hold, Go
  <2>3. PendingRange'
    BY <1>15 DEF DropTest, Hold, Go
  <2>4. ReservedRange'
    BY <1>15 DEF DropTest, Hold, Go
  <2>5. SharedRange'
    BY <1>15 DEF DropTest, Hold, Go
  <2>6. CallsMatch'
    BY <1>15 DEF DropTest, Hold, Go
  <2>7. WriterAlone'
    BY <1>15 DEF DropTest, Hold, Go
  <2> QED BY <2>1, <2>2, <2>3, <2>4, <2>5, <2>6, <2>7
<1>16. CASE UnlockRange(p)
  <2>1. TypeOK'
    BY <1>16 DEF UnlockRange, Hold, Go
  <2>2. RangesExclude'
    BY <1>16 DEF UnlockRange, Hold, Go
  <2>3. PendingRange'
    BY <1>16 DEF UnlockRange, Hold, Go
  <2>4. ReservedRange'
    BY <1>16 DEF UnlockRange, Hold, Go
  <2>5. SharedRange'
    BY <1>16 DEF UnlockRange, Hold, Go
  <2>6. CallsMatch'
    BY <1>16 DEF UnlockRange, Hold, Go
  <2>7. WriterAlone'
    BY <1>16 DEF UnlockRange, Hold, Go
  <2> QED BY <2>1, <2>2, <2>3, <2>4, <2>5, <2>6, <2>7
<1>17. CASE UnlockReRead(p)
  <2>1. TypeOK'
    BY <1>17 DEF UnlockReRead, CanTake, Hold, Go
  <2>2. RangesExclude'
    BY <1>17 DEF UnlockReRead, CanTake, Hold, Go
  <2>3. PendingRange'
    BY <1>17 DEF UnlockReRead, CanTake, Hold, Go
  <2>4. ReservedRange'
    BY <1>17 DEF UnlockReRead, CanTake, Hold, Go
  <2>5. SharedRange'
    BY <1>17 DEF UnlockReRead, CanTake, Hold, Go
  <2>6. CallsMatch'
    BY <1>17 DEF UnlockReRead, CanTake, Hold, Go
  <2>7. WriterAlone'
    BY <1>17 DEF UnlockReRead, CanTake, Hold, Go
  <2> QED BY <2>1, <2>2, <2>3, <2>4, <2>5, <2>6, <2>7
<1>18. CASE UnlockReserved(p)
  <2>1. TypeOK'
    <3>1. (held \in [Ranges -> [Procs -> {"none", "read", "write"}]])' BY <1>18 DEF TypeOK, UnlockReserved, ThenPending, Unlocked, Hold, Go
    <3>2. (locktype \in [Procs -> Levels])' BY <1>18 DEF TypeOK, UnlockReserved, ThenPending, Unlocked, Hold, Go
    <3>3. (eLock \in [Procs -> Levels])' BY <1>18 DEF TypeOK, UnlockReserved, ThenPending, Unlocked, Hold, Go
    <3>4. (at \in [Procs -> Steps])' BY <1>18 DEF TypeOK, UnlockReserved, ThenPending, Unlocked, Hold, Go
    <3>5. (want \in [Procs -> Levels] /\ told \in [Procs -> {"free", "taken"}])' BY <1>18 DEF TypeOK, UnlockReserved, ThenPending, Unlocked, Hold, Go
    <3> QED BY <3>1, <3>2, <3>3, <3>4, <3>5 DEF TypeOK
  <2>2. RangesExclude'
    BY <1>18 DEF UnlockReserved, ThenPending, Unlocked, Hold, Go
  <2>3. PendingRange'
    BY <1>18 DEF UnlockReserved, ThenPending, Unlocked, Hold, Go
  <2>4. ReservedRange'
    BY <1>18 DEF UnlockReserved, ThenPending, Unlocked, Hold, Go
  <2>5. SharedRange'
    BY <1>18 DEF UnlockReserved, ThenPending, Unlocked, Hold, Go
  <2>6. CallsMatch'
    BY <1>18 DEF UnlockReserved, ThenPending, Unlocked, Hold, Go
  <2>7. WriterAlone'
    BY <1>18 DEF UnlockReserved, ThenPending, Unlocked, Hold, Go
  <2> QED BY <2>1, <2>2, <2>3, <2>4, <2>5, <2>6, <2>7
<1>19. CASE UnlockRead(p)
  <2>1. TypeOK'
    <3>1. (held \in [Ranges -> [Procs -> {"none", "read", "write"}]])' BY <1>19 DEF TypeOK, UnlockRead, ThenPending, Unlocked, Hold, Go
    <3>2. (locktype \in [Procs -> Levels])' BY <1>19 DEF TypeOK, UnlockRead, ThenPending, Unlocked, Hold, Go
    <3>3. (eLock \in [Procs -> Levels])' BY <1>19 DEF TypeOK, UnlockRead, ThenPending, Unlocked, Hold, Go
    <3>4. (at \in [Procs -> Steps])' BY <1>19 DEF TypeOK, UnlockRead, ThenPending, Unlocked, Hold, Go
    <3>5. (want \in [Procs -> Levels] /\ told \in [Procs -> {"free", "taken"}])' BY <1>19 DEF TypeOK, UnlockRead, ThenPending, Unlocked, Hold, Go
    <3> QED BY <3>1, <3>2, <3>3, <3>4, <3>5 DEF TypeOK
  <2>2. RangesExclude'
    BY <1>19 DEF UnlockRead, ThenPending, Unlocked, Hold, Go
  <2>3. PendingRange'
    BY <1>19 DEF UnlockRead, ThenPending, Unlocked, Hold, Go
  <2>4. ReservedRange'
    BY <1>19 DEF UnlockRead, ThenPending, Unlocked, Hold, Go
  <2>5. SharedRange'
    BY <1>19 DEF UnlockRead, ThenPending, Unlocked, Hold, Go
  <2>6. CallsMatch'
    BY <1>19 DEF UnlockRead, ThenPending, Unlocked, Hold, Go
  <2>7. WriterAlone'
    BY <1>19 DEF UnlockRead, ThenPending, Unlocked, Hold, Go
  <2> QED BY <2>1, <2>2, <2>3, <2>4, <2>5, <2>6, <2>7
<1>20. CASE UnlockPending(p)
  <2>1. TypeOK'
    BY <1>20 DEF UnlockPending, Unlocked, Hold, Go
  <2>2. RangesExclude'
    BY <1>20 DEF UnlockPending, Unlocked, Hold, Go
  <2>3. PendingRange'
    BY <1>20 DEF UnlockPending, Unlocked, Hold, Go
  <2>4. ReservedRange'
    BY <1>20 DEF UnlockPending, Unlocked, Hold, Go
  <2>5. SharedRange'
    BY <1>20 DEF UnlockPending, Unlocked, Hold, Go
  <2>6. CallsMatch'
    BY <1>20 DEF UnlockPending, Unlocked, Hold, Go
  <2>7. WriterAlone'
    BY <1>20 DEF UnlockPending, Unlocked, Hold, Go
  <2> QED BY <2>1, <2>2, <2>3, <2>4, <2>5, <2>6, <2>7
<1>21. CASE Kill(p)
  <2>1. TypeOK'
    BY <1>21 DEF Kill, Go
  <2>2. RangesExclude'
    BY <1>21 DEF Kill, Go
  <2>3. PendingRange'
    BY <1>21 DEF Kill, Go
  <2>4. ReservedRange'
    BY <1>21 DEF Kill, Go
  <2>5. SharedRange'
    BY <1>21 DEF Kill, Go
  <2>6. CallsMatch'
    BY <1>21 DEF Kill, Go
  <2>7. WriterAlone'
    BY <1>21 DEF Kill, Go
  <2> QED BY <2>1, <2>2, <2>3, <2>4, <2>5, <2>6, <2>7
<1> QED
  BY <1>1, <1>2, <1>3, <1>4, <1>5, <1>6, <1>7, <1>8, <1>9, <1>10, <1>11, <1>12, <1>13,
     <1>14, <1>15, <1>16, <1>17, <1>18, <1>19, <1>20, <1>21 DEF Step, LockStep, UnlockStep
-----------------------------------------------------------------------------
\* What the invariant says

\* Every step of the specification is a step of one process or a stutter, and
\* keeps the invariant.
LEMMA NextInv == IInv /\ [Next]_vars => IInv'
<1> SUFFICES ASSUME IInv, [Next]_vars PROVE IInv'
  OBVIOUS
<1>1. CASE UNCHANGED vars
  BY <1>1 DEF vars, IInv, TypeOK, RangesExclude, PendingRange, ReservedRange, SharedRange,
     WriterAlone, CallsMatch, InPending
<1>2. CASE Next
  <2> PICK p \in Procs : Step(p)
    BY <1>2 DEF Next, Step, Release
  <2> QED BY StepInv
<1> QED BY <1>1, <1>2

\* At every point of every call the locks on the byte ranges match the levels:
\* what winLock and winUnlock leave behind on each return, for any number of
\* processes.
THEOREM RangesMatchLevels == Spec => []IInv
BY InitInv, NextInv, PTL DEF Spec

\* The read lock that winLock drops for a try at EXCLUSIVE, and winUnlock on the
\* way down, is always to be had again (os_win.c ignores the failure).
THEOREM ReadersKeepTheirLock == Spec => []ReadersKeepLock
<1>1. IInv => ReadersKeepLock
  BY DEF IInv, TypeOK, SharedRange, ReadersKeepLock
<1> QED BY <1>1, RangesMatchLevels, PTL

\* A writer alone and writers apart: no two processes hold levels that DbLock
\* keeps apart, whatever call each of them is in.
THEOREM LevelsExcludeEachOther == Spec => []LevelsExclude
<1>1. IInv => LevelsExclude
  BY DEF IInv, TypeOK, RangesExclude, PendingRange, ReservedRange, SharedRange, CallsMatch,
     InPending, LevelsExclude, LockOf, DL!Exclusion, DL!NO_LOCK, DL!SHARED_LOCK,
     DL!RESERVED_LOCK, DL!EXCLUSIVE_LOCK
<1> QED BY <1>1, RangesMatchLevels, PTL

\* A process that waits for EXCLUSIVE keeps new readers out: they come through
\* PENDING, which it holds.
THEOREM NoNewReadersBesidePending == Spec => NoNewReaders
<1>1. IInv /\ [Next]_vars =>
          [\A p, q \in Procs :
               /\ p # q
               /\ locktype[p] = NO_LOCK /\ locktype'[p] = SHARED_LOCK
               => locktype[q] < PENDING_LOCK]_vars
  <2> SUFFICES ASSUME IInv, Next, NEW r \in Procs, NEW q \in Procs, r # q,
                      locktype[r] = NO_LOCK, locktype'[r] = SHARED_LOCK
               PROVE  locktype[q] < PENDING_LOCK
    OBVIOUS
  <2>1. PICK p \in Procs : Step(p)
    BY DEF Next, Step, Release
  <2>2. DropPending(r)
    BY <2>1 DEF Step, LockStep, UnlockStep, Call, CallTest, CallUnlock, TakePending,
       PendingTaken, ReadLock, DropPending, Reserve, DropRead, WriteLock, RangeTaken, ReRead,
       Test, DropTest, UnlockRange, UnlockReRead, UnlockReserved, UnlockRead, UnlockPending,
       Kill, Grant, Busy, Unlocked, ThenPending, IInv, TypeOK, CallsMatch
  <2>3. held["PENDING"][r] = "write"
    BY <2>2 DEF DropPending, IInv, PendingRange, InPending
  <2>4. held["PENDING"][q] = "none"
    BY <2>3 DEF IInv, RangesExclude
  <2> QED BY <2>4 DEF IInv, TypeOK, PendingRange
<1> QED BY <1>1, RangesMatchLevels, PTL DEF Spec, NoNewReaders

-----------------------------------------------------------------------------
\* The calls implement the contract.

\* A step of one process leaves the levels of the others alone.
LEMMA OthersKeepLevel ==
    ASSUME IInv, NEW p \in Procs, Step(p), NEW q \in Procs \ {p}
    PROVE  LockOf(q)' = LockOf(q)
BY DEF Step, LockStep, UnlockStep, Call, AskShared, AskReserved, AskExclusive, CallTest,
   CallUnlock, TakePending, PendingTaken, ReadLock, DropPending, Reserve, DropRead, WriteLock,
   RangeTaken, ReRead, Test, DropTest, UnlockRange, UnlockReRead, UnlockReserved, UnlockRead,
   UnlockPending, Kill, Grant, Busy, Unlocked, ThenPending, Hold, Go, IInv, TypeOK, LockOf

\* Where each call changes the level of its process, and what that took.
Raises(p) ==
    \/ /\ LockOf(p) = NO_LOCK /\ LockOf(p)' = SHARED_LOCK
       /\ \A q \in Procs \ {p} : LockOf(q) # EXCLUSIVE_LOCK
    \/ /\ LockOf(p) = SHARED_LOCK /\ LockOf(p)' = RESERVED_LOCK
       /\ \A q \in Procs \ {p} : LockOf(q) \in {NO_LOCK, SHARED_LOCK}
    \/ /\ LockOf(p) \in {SHARED_LOCK, RESERVED_LOCK} /\ LockOf(p)' = EXCLUSIVE_LOCK
       /\ \A q \in Procs \ {p} : LockOf(q) = NO_LOCK

Lowers(p) == LockOf(p)' < LockOf(p) /\ LockOf(p)' \in {NO_LOCK, SHARED_LOCK}

LEMMA OwnLevel ==
    ASSUME IInv, NEW p \in Procs, Step(p)
    PROVE  \/ LockOf(p)' = LockOf(p)
           \/ ~ Test(p) /\ (Raises(p) \/ Lowers(p))
<1> USE DEF IInv, TypeOK, RangesExclude, PendingRange, ReservedRange, SharedRange,
            WriterAlone, CallsMatch, InPending, LockOf
<1>1. Call(p) => LockOf(p)' = LockOf(p)
  BY DEF Call, AskShared, AskReserved, AskExclusive, Go
<1>2. CallTest(p) => LockOf(p)' = LockOf(p)
  BY DEF CallTest, Go
<1>3. CallUnlock(p, SHARED_LOCK) => LockOf(p)' = LockOf(p)
  BY DEF CallUnlock, FirstUnlock, Go
<1>4. CallUnlock(p, NO_LOCK) => LockOf(p)' = LockOf(p)
  BY DEF CallUnlock, FirstUnlock, Go
<1>5. TakePending(p) => LockOf(p)' = LockOf(p)
  BY DEF TakePending, CanTake, Hold, Go
<1>6. PendingTaken(p) => LockOf(p)' = LockOf(p)
  BY DEF PendingTaken, Busy, Go
<1>7. ReadLock(p) => LockOf(p)' = LockOf(p)
  BY DEF ReadLock, CanTake, Hold, Go
<1>8. DropPending(p) => LockOf(p)' = LockOf(p) \/ (~ Test(p) /\ Raises(p))
  BY DEF DropPending, Grant, Busy, Hold, Go, Raises, Test
<1>9. Reserve(p) => LockOf(p)' = LockOf(p) \/ (~ Test(p) /\ Raises(p))
  BY DEF Reserve, CanTake, Grant, Busy, Hold, Go, Raises, Test
<1>10. DropRead(p) => LockOf(p)' = LockOf(p)
  BY DEF DropRead, Hold, Go
<1>11. WriteLock(p) => LockOf(p)' = LockOf(p) \/ (~ Test(p) /\ Raises(p))
  BY DEF WriteLock, CanTake, Grant, Hold, Go, Raises, Test
<1>12. RangeTaken(p) => LockOf(p)' = LockOf(p)
  BY DEF RangeTaken, CanTake, Go
<1>13. ReRead(p) => LockOf(p)' = LockOf(p)
  BY DEF ReRead, CanTake, Busy, Hold, Go
<1>14. Test(p) => LockOf(p)' = LockOf(p)
  BY DEF Test, TestMode, CanTake, Hold, Go
<1>15. DropTest(p) => LockOf(p)' = LockOf(p)
  BY DEF DropTest, Hold, Go
<1>16. UnlockRange(p) => LockOf(p)' = LockOf(p) \/ (~ Test(p) /\ Lowers(p))
  BY DEF UnlockRange, Hold, Go, Lowers, Test
<1>17. UnlockReRead(p) => LockOf(p)' = LockOf(p)
  BY DEF UnlockReRead, CanTake, Hold, Go
<1>18. UnlockReserved(p) => LockOf(p)' = LockOf(p) \/ (~ Test(p) /\ Lowers(p))
  BY DEF UnlockReserved, ThenPending, Unlocked, Hold, Go, Lowers, Test
<1>19. UnlockRead(p) => LockOf(p)' = LockOf(p) \/ (~ Test(p) /\ Lowers(p))
  BY DEF UnlockRead, ThenPending, Unlocked, Hold, Go, Lowers, Test
<1>20. UnlockPending(p) => LockOf(p)' = LockOf(p)
  BY DEF UnlockPending, Unlocked, Hold, Go
<1>21. Kill(p) => LockOf(p)' = LockOf(p) \/ (~ Test(p) /\ Lowers(p))
  BY DEF Kill, Go, Lowers, Test
<1> QED
  BY <1>1, <1>2, <1>3, <1>4, <1>5, <1>6, <1>7, <1>8, <1>9, <1>10, <1>11, <1>12, <1>13,
     <1>14, <1>15, <1>16, <1>17, <1>18, <1>19, <1>20, <1>21 DEF Step, LockStep, UnlockStep

\* What a call does to told: only the test for RESERVED answers, and exactly.
LEMMA Answer ==
    ASSUME IInv, NEW p \in Procs, Step(p)
    PROVE  \/ told' = told
           \/ /\ Test(p)
              /\ LockOf(p) = SHARED_LOCK
              /\ told' = [told EXCEPT ![p] =
                             IF \E q \in Procs \ {p} : LockOf(q) \in {RESERVED_LOCK, EXCLUSIVE_LOCK}
                             THEN "taken"
                             ELSE "free"]
<1>1. CASE Test(p)
  <2>1. LockOf(p) = SHARED_LOCK
    BY <1>1 DEF Test, LockOf, IInv, TypeOK, ReservedRange, SharedRange, CallsMatch
  <2>2. CanTake("RESERVED", "read")
        <=> ~ \E q \in Procs \ {p} : LockOf(q) \in {RESERVED_LOCK, EXCLUSIVE_LOCK}
    <3>1. ASSUME NEW q \in Procs \ {p}
          PROVE  held["RESERVED"][q] = "write" <=> LockOf(q) \in {RESERVED_LOCK, EXCLUSIVE_LOCK}
      BY <1>1 DEF Test, LockOf, IInv, TypeOK, RangesExclude, PendingRange, ReservedRange,
         SharedRange, WriterAlone, CallsMatch, InPending
    <3>2. held["RESERVED"][p] # "write"
      BY <1>1 DEF Test, IInv, TypeOK, ReservedRange, CallsMatch
    <3> QED BY <3>1, <3>2 DEF CanTake, IInv, TypeOK
  <2> QED BY <1>1, <2>1, <2>2 DEF Test, TestMode
<1>2. CASE ~ Test(p)
  BY <1>2 DEF Step, LockStep, UnlockStep, Call, CallTest, CallUnlock, TakePending,
     PendingTaken, ReadLock, DropPending, Reserve, DropRead, WriteLock, RangeTaken, ReRead,
     DropTest, UnlockRange, UnlockReRead, UnlockReserved, UnlockRead, UnlockPending, Kill
<1> QED BY <1>1, <1>2

\* A step of the calls is a step of the contract, or leaves it as it was.
LEMMA StepContract ==
    IInv /\ [Next]_vars => [DL!Next]_<<[p \in Procs |-> LockOf(p)], told>>
<1> SUFFICES ASSUME IInv, [Next]_vars
             PROVE  DL!Next \/ UNCHANGED <<[p \in Procs |-> LockOf(p)], told>>
  OBVIOUS
<1> DEFINE L == [p \in Procs |-> LockOf(p)]
<1>1. CASE UNCHANGED vars
  BY <1>1 DEF vars, LockOf
<1>2. CASE Next
  <2>1. PICK p \in Procs : Step(p)
    BY <1>2 DEF Next, Step, Release
  <2>2. \A q \in Procs \ {p} : LockOf(q)' = LockOf(q)
    BY <2>1, OthersKeepLevel
  <2>3. L' = [L EXCEPT ![p] = LockOf(p)']
    BY <2>2
  <2>5. \/ LockOf(p)' = LockOf(p)
        \/ ~ Test(p) /\ (Raises(p) \/ Lowers(p))
    BY <2>1, OwnLevel
  <2>6. \/ told' = told
        \/ /\ Test(p)
           /\ LockOf(p) = SHARED_LOCK
           /\ told' = [told EXCEPT ![p] =
                          IF \E q \in Procs \ {p} : LockOf(q) \in {RESERVED_LOCK, EXCLUSIVE_LOCK}
                          THEN "taken"
                          ELSE "free"]
    BY <2>1, Answer
  <2> HIDE DEF L
  <2>7. \A q \in Procs : L[q] = LockOf(q)
    BY DEF L
  <2> USE DEF DL!NO_LOCK, DL!SHARED_LOCK, DL!RESERVED_LOCK, DL!EXCLUSIVE_LOCK, DL!Others
  <2>8. CASE LockOf(p)' = LockOf(p)
    <3>1. L' = L
      BY <2>3, <2>7, <2>8 DEF L
    <3>2. CASE told' = told
      BY <3>1, <3>2 DEF L
    <3>3. CASE told' # told
      <4>1. DL!CheckReserved(p)
        BY <2>6, <2>7, <3>1, <3>3 DEF DL!CheckReserved, DL!ReservedByOther, L
      <4> QED BY <4>1 DEF DL!Next
    <3> QED BY <3>2, <3>3
  <2>9. CASE ~ Test(p) /\ Raises(p)
    <3>1. told' = told
      BY <2>6, <2>9
    <3>2. DL!Shared(p) \/ DL!Reserved(p) \/ DL!Exclusive(p)
      BY <2>3, <2>7, <2>9, <3>1 DEF Raises, DL!Shared, DL!Reserved, DL!Exclusive, L
    <3> QED BY <3>2 DEF DL!Next
  <2>10. CASE ~ Test(p) /\ Lowers(p)
    <3>1. told' = told
      BY <2>6, <2>10
    <3>2. DL!Lower(p)
      BY <2>3, <2>7, <2>10, <3>1 DEF Lowers, DL!Lower, DL!LowerTo, L
    <3> QED BY <3>2 DEF DL!Next
  <2> QED BY <2>5, <2>8, <2>9, <2>10
<1> QED BY <1>1, <1>2

\* LockFileEx call by LockFileEx call, with kills between any two, winLock,
\* winUnlock and winCheckReservedLock do what the comment on sqlite3OsLock says,
\* for any number of processes.
THEOREM CallsImplementContract == Spec => Contract
<1>1. Init => DL!Init
  BY DEF Init, DL!Init, LockOf, DL!NO_LOCK
<1> QED BY <1>1, StepContract, RangesMatchLevels, PTL DEF Spec, Contract, DL!Spec
=============================================================================
