-------------------------- MODULE DriverLockProofs --------------------------
(***************************************************************************)
(* Exclusion between any number of processes, for a driver that locks the  *)
(* database, does not ignore a refusal, and whose lock table nobody drops; *)
(* and, for every driver, that its value knows of the lock of its session. *)
(***************************************************************************)
EXTENDS DriverLock, TLAPS

\* No driver that ignores a refusal, and no Drop of a lock table.
Careful ==
  /\ \A d \in Drivers : d.taken # "ignored"
  /\ ~Drops

\* A process from the grant of the lock until the database has forgotten it.
Holds(p) == pc[p] \in {"inside", "dropped", "unlocking"}

\* The lock table is there as soon as somebody locks; the lock of a session has
\* one owner, the one who holds it; a row stands for at most one holder.
ExclusionInv ==
  /\ TypeOK
  /\ InTable => \A p \in Procs : pc[p] = "locking" \/ Holds(p) \/ pc[p] = "idle" => table
  /\ driver.kind = "session" => \A p \in Procs : Holds(p) => owner = p
  /\ InTable => \A p \in Procs : Holds(p) => locks > 0
  /\ InTable => \A p, q \in Procs : Holds(p) /\ Holds(q) => p = q

\* Nobody holds the lock in the first state.
LEMMA ExclusionInit == Init => ExclusionInv
<1> SUFFICES ASSUME Init PROVE ExclusionInv
  OBVIOUS
<1>1. TypeOK
  <2>1. isLocked \in [Procs -> BOOLEAN] /\ opening \in [Procs -> BOOLEAN]
    BY Zenon DEF Init
  <2>2. table \in BOOLEAN
    BY Zenon DEF Init
  <2> QED
    BY <2>1, <2>2 DEF Init, TypeOK
<1>2. \A p \in Procs : ~Holds(p) /\ pc[p] = "closed"
  BY DEF Init, Holds
<1> QED
  BY <1>1, <1>2 DEF ExclusionInv

\* Every step of every process keeps the invariant.
LEMMA ExclusionStep ==
  ASSUME Careful, ExclusionInv, [Next]_vars
  PROVE  ExclusionInv'
<1> USE DriverLockAssumption DEF ExclusionInv, InTable, Holds, db
<1> SUFFICES ASSUME Next PROVE ExclusionInv'
  BY DEF vars, TypeOK
<1>0. PICK p \in Procs :
        \/ Open(p) \/ OpenError(p) \/ Lock(p)
        \/ LockGranted(p) \/ LockRefused(p) \/ LockError(p)
        \/ Drop(p) \/ Unlock(p) \/ Unlocked(p) \/ UnlockError(p) \/ Crash(p)
  BY DEF Next
<1>1. CASE Open(p)
  BY <1>1, ZenonT(30) DEF Open, Swap, Flag, Goto, TypeOK, Driver
<1>2. CASE OpenError(p)
  BY <1>2 DEF OpenError, Goto, TypeOK
<1>3. CASE Lock(p)
  BY <1>3 DEF Lock, Swap, Flag, Goto, TypeOK, Driver
<1>4. CASE LockGranted(p)
  BY <1>4 DEF LockGranted, Careful, Record, Taken, Goto, TypeOK
<1>5. CASE LockRefused(p)
  BY <1>5 DEF LockRefused, Fail, Flag, Goto, TypeOK
<1>6. CASE LockError(p)
  BY <1>6 DEF LockError, Record, Taken, Fail, Flag, Goto, TypeOK
<1>7. CASE Drop(p)
  BY <1>7 DEF Drop, Careful, Goto, TypeOK
<1>8. CASE Unlock(p)
  BY <1>8, ZenonT(30) DEF Unlock, Flag, Goto, TypeOK
<1>9. CASE Unlocked(p)
  BY <1>9 DEF Unlocked, Forget, Goto, TypeOK
<1>10. CASE UnlockError(p)
  BY <1>10 DEF UnlockError, Forget, Fail, Flag, Goto, TypeOK
<1>11. CASE Crash(p)
  BY <1>11 DEF Crash, Flag, Goto, TypeOK
<1> QED
  BY <1>0, <1>1, <1>2, <1>3, <1>4, <1>5, <1>6, <1>7, <1>8, <1>9, <1>10, <1>11

\* The invariant says that two processes inside are one.
LEMMA ExclusionImplies == ASSUME ExclusionInv PROVE OneProcess
  BY DriverLockAssumption DEF ExclusionInv, OneProcess, Holds, InTable, TypeOK, Driver

\* Lock and Unlock of the drivers that lock the database keep migration processes
\* apart, for any number of them, with failing calls, lost answers and crashes.
THEOREM DriverExclusion == Careful => (Spec => []OneProcess)
<1> SUFFICES ASSUME Careful PROVE Spec => []OneProcess
  OBVIOUS
<1>1. Init => ExclusionInv
  BY ExclusionInit
<1>2. ExclusionInv /\ [Next]_vars => ExclusionInv'
  BY ExclusionStep
<1>3. ExclusionInv => OneProcess
  BY ExclusionImplies
<1> QED
  BY <1>1, <1>2, <1>3, PTL DEF Spec

-----------------------------------------------------------------------------
(***************************************************************************)
(* No orphaned lock.  The flag is up from the swap in Lock to the swap in  *)
(* Unlock, and a value whose flag is down asks for a lock that its session *)
(* does not have: an error of Lock may then put the flag down again.       *)
(***************************************************************************)
OrphanInv ==
  /\ TypeOK
  /\ NoOrphan
  /\ owner # NoProc => driver.kind = "session"
  /\ \A p \in Procs : pc[p] \in {"locking", "inside", "dropped"} => isLocked[p]
  /\ \A p \in Procs : pc[p] \in {"closed", "locking"} => owner # p

\* No process has a lock when none has opened the database.
LEMMA OrphanInit == Init => OrphanInv
<1> SUFFICES ASSUME Init PROVE OrphanInv
  OBVIOUS
<1>1. TypeOK
  BY ExclusionInit DEF ExclusionInv
<1> QED
  BY <1>1, DriverLockAssumption DEF Init, OrphanInv, NoOrphan

\* Every step of Lock, Unlock, Open and Drop, failed or not, keeps OrphanInv.
LEMMA OrphanStep ==
  ASSUME OrphanInv, [Next]_vars
  PROVE  OrphanInv'
<1> USE DriverLockAssumption DEF OrphanInv, NoOrphan, InTable, db
<1> SUFFICES ASSUME Next PROVE OrphanInv'
  BY DEF vars, TypeOK
<1>0. PICK p \in Procs :
        \/ Open(p) \/ OpenError(p) \/ Lock(p)
        \/ LockGranted(p) \/ LockRefused(p) \/ LockError(p)
        \/ Drop(p) \/ Unlock(p) \/ Unlocked(p) \/ UnlockError(p) \/ Crash(p)
  BY DEF Next
<1>1. CASE Open(p)
  BY <1>1 DEF Open, Swap, Flag, Goto, TypeOK
<1>2. CASE OpenError(p)
  BY <1>2 DEF OpenError, Goto, TypeOK
<1>3. CASE Lock(p)
  BY <1>3 DEF Lock, Swap, Flag, Goto, TypeOK
<1>4. CASE LockGranted(p)
  BY <1>4 DEF LockGranted, Record, Taken, Goto, TypeOK
<1>5. CASE LockRefused(p)
  BY <1>5 DEF LockRefused, Fail, Flag, Goto, TypeOK
<1>6. CASE LockError(p)
  BY <1>6 DEF LockError, Record, Fail, Flag, Goto, TypeOK
<1>7. CASE Drop(p)
  <2>1. table' \in BOOLEAN
    BY <1>7, Zenon DEF Drop, TypeOK
  <2>2. locks' \in 0..2
    BY <1>7 DEF Drop, TypeOK
  <2>3. UNCHANGED <<driver, owner, isLocked, opening>> /\ Goto(p, "dropped") /\ pc[p] = "inside"
    BY <1>7, Zenon DEF Drop
  <2> QED
    BY <2>1, <2>2, <2>3 DEF Goto, TypeOK
<1>8. CASE Unlock(p)
  BY <1>8, ZenonT(30) DEF Unlock, Flag, Goto, TypeOK
<1>9. CASE Unlocked(p)
  BY <1>9 DEF Unlocked, Forget, Goto, TypeOK
<1>10. CASE UnlockError(p)
  BY <1>10 DEF UnlockError, Forget, Fail, Flag, Goto, TypeOK
<1>11. CASE Crash(p)
  BY <1>11 DEF Crash, Flag, Goto, TypeOK
<1> QED
  BY <1>0, <1>1, <1>2, <1>3, <1>4, <1>5, <1>6, <1>7, <1>8, <1>9, <1>10, <1>11

\* CasRestoreOnErr of Lock and Unlock keeps the flag and the lock of the session
\* together: whatever failed before, a lock that a session owns is one that its
\* driver value can still unlock.  This holds for every driver, Drop included.
THEOREM DriverKnowsLock == Spec => []NoOrphan
<1>1. OrphanInv => NoOrphan
  BY DEF OrphanInv
<1> QED
  BY <1>1, OrphanInit, OrphanStep, PTL DEF Spec
=============================================================================
