--------------------------- MODULE Locking_proofs ---------------------------
(***************************************************************************)
(* Proofs about Locking for every set of processes.                        *)
(***************************************************************************)
EXTENDS Locking, TLAPS

\* Without a lock file and with every process idle the invariant holds.
LEMMA InitInv == Init => Inv
  BY NoneAssumption
  DEF Init, Inv, TypeOK, LocksAreOwned, RemovedIsGone, Attended

\* Every step of acquire(), release() and __unlink_lockfile(), and the death
\* of a process, preserves the types.
LEMMA StepTypeOK ==
    ASSUME Inv, NEW p \in Procs, Step(p)
    PROVE  TypeOK'
<1> USE NoneAssumption DEF Inv, TypeOK, Goto
<1>1. CASE Acquire(p)
  BY <1>1 DEF Acquire
<1>2. CASE AcquireOpen(p)
  BY <1>2 DEF AcquireOpen, Open
<1>3. CASE AcquireLock(p)
  BY <1>3 DEF AcquireLock, CanLock, Lock
<1>4. CASE AcquireRetry(p)
  BY <1>4 DEF AcquireRetry, CanLock
<1>5. CASE AcquireTimeout(p)
  BY <1>5 DEF AcquireTimeout, CanLock
<1>6. CASE Release(p)
  BY <1>6 DEF Release, Unlock
<1>7. CASE UnlinkOpen(p)
  BY <1>7 DEF UnlinkOpen, Open
<1>8. CASE UnlinkLock(p)
  BY <1>8 DEF UnlinkLock, CanLock, Lock
<1>9. CASE UnlinkSkip(p)
  BY <1>9 DEF UnlinkSkip, CanLock
<1>10. CASE Unlink(p)
  BY <1>10 DEF Unlink
<1>11. CASE UnlinkClose(p)
  BY <1>11 DEF UnlinkClose, Unlock
<1>12. CASE Crash(p)
  BY <1>12 DEF Crash, Unlock
<1>13. QED
  BY <1>1, <1>2, <1>3, <1>4, <1>5, <1>6, <1>7,
     <1>8, <1>9, <1>10, <1>11, <1>12 DEF Step

\* Every step keeps the locks and what the processes believe of them equal.
LEMMA StepLocks ==
    ASSUME Inv, NEW p \in Procs, Step(p)
    PROVE  LocksAreOwned'
<1> USE NoneAssumption DEF Inv, TypeOK, LocksAreOwned, Goto
<1>1. CASE Acquire(p)
  BY <1>1 DEF Acquire
<1>2. CASE AcquireOpen(p)
  BY <1>2 DEF AcquireOpen, Open
<1>3. CASE AcquireLock(p)
  BY <1>3 DEF AcquireLock, CanLock, Lock
<1>4. CASE AcquireRetry(p)
  BY <1>4 DEF AcquireRetry, CanLock
<1>5. CASE AcquireTimeout(p)
  BY <1>5 DEF AcquireTimeout, CanLock
<1>6. CASE Release(p)
  BY <1>6 DEF Release, Unlock
<1>7. CASE UnlinkOpen(p)
  BY <1>7 DEF UnlinkOpen, Open
<1>8. CASE UnlinkLock(p)
  BY <1>8 DEF UnlinkLock, CanLock, Lock
<1>9. CASE UnlinkSkip(p)
  BY <1>9 DEF UnlinkSkip, CanLock
<1>10. CASE Unlink(p)
  BY <1>10 DEF Unlink
<1>11. CASE UnlinkClose(p)
  BY <1>11 DEF UnlinkClose, Unlock
<1>12. CASE Crash(p)
  BY <1>12 DEF Crash, Unlock
<1>13. QED
  BY <1>1, <1>2, <1>3, <1>4, <1>5, <1>6, <1>7,
     <1>8, <1>9, <1>10, <1>11, <1>12 DEF Step

\* No step makes the path name a file whose remover still has it open: a new
\* file is none that is open.
LEMMA StepRemoved ==
    ASSUME Inv, NEW p \in Procs, Step(p)
    PROVE  RemovedIsGone'
<1> USE NoneAssumption DEF Inv, TypeOK, RemovedIsGone, Goto
<1>1. CASE Acquire(p)
  BY <1>1 DEF Acquire
<1>2. CASE AcquireOpen(p)
  BY <1>2 DEF AcquireOpen, Open
<1>3. CASE AcquireLock(p)
  BY <1>3 DEF AcquireLock, CanLock, Lock
<1>4. CASE AcquireRetry(p)
  BY <1>4 DEF AcquireRetry, CanLock
<1>5. CASE AcquireTimeout(p)
  BY <1>5 DEF AcquireTimeout, CanLock
<1>6. CASE Release(p)
  BY <1>6 DEF Release, Unlock
<1>7. CASE UnlinkOpen(p)
  BY <1>7 DEF UnlinkOpen, Open
<1>8. CASE UnlinkLock(p)
  BY <1>8 DEF UnlinkLock, CanLock, Lock
<1>9. CASE UnlinkSkip(p)
  BY <1>9 DEF UnlinkSkip, CanLock
<1>10. CASE Unlink(p)
  BY <1>10 DEF Unlink
<1>11. CASE UnlinkClose(p)
  BY <1>11 DEF UnlinkClose, Unlock
<1>12. CASE Crash(p)
  BY <1>12 DEF Crash, Unlock
<1>13. QED
  BY <1>1, <1>2, <1>3, <1>4, <1>5, <1>6, <1>7,
     <1>8, <1>9, <1>10, <1>11, <1>12 DEF Step

\* Every step leaves a process in charge of the file that the path names: one
\* that gives up has found the file locked, and the holder of that lock is in
\* charge.
LEMMA StepAttended ==
    ASSUME Inv, NEW p \in Procs, Step(p)
    PROVE  Attended'
<1> USE NoneAssumption DEF Inv, TypeOK, LocksAreOwned, RemovedIsGone, Attended, Responsible, Goto
<1>1. CASE Acquire(p)
  BY <1>1 DEF Acquire
<1>2. CASE AcquireOpen(p)
  BY <1>2 DEF AcquireOpen, Open
<1>3. CASE AcquireLock(p)
  BY <1>3 DEF AcquireLock, CanLock, Lock
<1>4. CASE AcquireRetry(p)
  BY <1>4 DEF AcquireRetry, CanLock
<1>5. CASE AcquireTimeout(p)
  BY <1>5 DEF AcquireTimeout, CanLock
<1>6. CASE Release(p)
  BY <1>6 DEF Release, Unlock
<1>7. CASE UnlinkOpen(p)
  BY <1>7 DEF UnlinkOpen, Open
<1>8. CASE UnlinkLock(p)
  BY <1>8 DEF UnlinkLock, CanLock, Lock
<1>9. CASE UnlinkSkip(p)
  BY <1>9 DEF UnlinkSkip, CanLock
<1>10. CASE Unlink(p)
  BY <1>10 DEF Unlink
<1>11. CASE UnlinkClose(p)
  BY <1>11 DEF UnlinkClose, Unlock
<1>12. CASE Crash(p)
  BY <1>12 DEF Crash, Unlock
<1>13. QED
  BY <1>1, <1>2, <1>3, <1>4, <1>5, <1>6, <1>7,
     <1>8, <1>9, <1>10, <1>11, <1>12 DEF Step

\* The inductive invariant is preserved by every step.
LEMMA NextInv == Inv /\ [Next]_vars => Inv'
<1> SUFFICES ASSUME Inv, [Next]_vars
             PROVE  Inv'
  OBVIOUS
<1>1. ASSUME NEW p \in Procs, Step(p)
      PROVE  Inv'
  BY <1>1, StepTypeOK, StepLocks, StepRemoved, StepAttended DEF Inv
<1>2. CASE UNCHANGED vars
  BY <1>2 DEF vars, Inv, TypeOK, LocksAreOwned, RemovedIsGone, Attended, Responsible
<1>3. QED
  BY <1>1, <1>2 DEF Next

\* The inductive invariant holds in every reachable state of the lock.
THEOREM Invariance == Spec => []Inv
  BY InitInv, NextInv, PTL DEF Spec

\* The lock file, its inodes and the descriptors keep their types.
THEOREM LockingTypes == Spec => []TypeOK
<1>1. Inv => TypeOK
  BY DEF Inv
<1>2. QED
  BY <1>1, Invariance, PTL

\* A process that believes it holds the lock has locked the file it opened,
\* and no other process has, for any number of processes.
THEOREM Ownership == Spec => []LocksAreOwned
<1>1. Inv => LocksAreOwned
  BY DEF Inv
<1>2. QED
  BY <1>1, Invariance, PTL

\* When all processes are done with the lock and none died, the lock file is
\* gone: of the processes that release, the last always removes it.
THEOREM Removal == Spec => []LockFileRemoved
<1>1. Inv => LockFileRemoved
  BY DEF Inv, Attended, Responsible, LockFileRemoved
<1>2. QED
  BY <1>1, Invariance, PTL
=============================================================================
