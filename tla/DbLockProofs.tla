---------------------------- MODULE DbLockProofs ----------------------------
(***************************************************************************)
(* Proofs about DbLock for every set of threads and processes: types,      *)
(* mutual exclusion, the fate of the kernel lock after a crash, and the    *)
(* refinement of Mutex.                                                    *)
(***************************************************************************)
EXTENDS DbLock, TLAPS

\* What a thread's position says about its depth, its handle, its gate and the
\* kernel lock.
Position ==
    \A t \in Thread :
        /\ pc[t] \in {"want", "gated", "flocking", "dead"} => depth[t] = 0
        /\ pc[t] \in {"flocking", "closing"} => ProcOf[t] \in fds[t]
        /\ pc[t] = "dead" => ProcOf[t] \notin fds[t]
        /\ UsesGate(t) => /\ gate[ProcOf[t]].owner = t
                          /\ gate[ProcOf[t]].count # 0

\* A handle is open only in living processes, and only the supervisor's handles
\* are open in a process that did not open them.
Descriptors ==
    \A t \in Thread : \A p \in fds[t] :
        /\ Alive(p)
        /\ p = ProcOf[t] \/ ProcOf[t] = Parent

\* While no unlock has failed, a depth above zero means the kernel lock.
Locked ==
    NoUnlockFault =>
        \A t \in Thread : pc[t] = "run" /\ depth[t] > 0 =>
            flock = t /\ ProcOf[t] \in fds[t]

\* The kernel lock belongs to a thread inside its blocks, or to a dead thread of
\* the supervisor whose workers have inherited the handle.
Holder ==
    flock # None =>
        \/ pc[flock] = "run" /\ depth[flock] > 0
        \/ pc[flock] = "dead" /\ ProcOf[flock] = Parent

\* The inductive invariant.
LockInv ==
    TypeOK /\ Position /\ Descriptors /\ Holder /\ FlockHasLivingHolder /\ Locked

\* Giving the gate back once leaves a gate.
LEMMA UngateType ==
  ASSUME NEW g \in Gate, g.count # 0
  PROVE  UngateOnce(g) \in Gate
  <1>1. CASE g.count = 1
    BY <1>1 DEF UngateOnce, Free, Gate
  <1>2. CASE g.count # 1
    <2>1. g.count - 1 \in Nat
      BY <1>2 DEF Gate
    <2> QED
      BY <1>2, <2>1 DEF UngateOnce, Gate
  <1> QED
    BY <1>1, <1>2

\* A thread that uses the gate of its process owns it.
LEMMA UserOwnsGate ==
  ASSUME LockInv, NEW t \in Thread, UsesGate(t)
  PROVE  /\ gate[ProcOf[t]] \in Gate
         /\ gate[ProcOf[t]].count # 0
         /\ UngateOnce(gate[ProcOf[t]]) \in Gate
  <1>1. gate[ProcOf[t]] \in Gate
    BY LockAssumption DEF LockInv, TypeOK
  <1>2. gate[ProcOf[t]].count # 0
    BY DEF LockInv, Position
  <1> QED
    BY <1>1, <1>2, UngateType

LEMMA InitInv == Init => LockInv
  BY LockAssumption
  DEF Init, LockInv, TypeOK, PC, Gate, Free, Position, UsesGate, HoldsHandle,
      Descriptors, Holder, FlockHasLivingHolder, Locked, NoUnlockFault

LEMMA StepType == LockInv /\ [Next]_vars => TypeOK'
  <1> SUFFICES ASSUME LockInv, [Next]_vars PROVE TypeOK'
    OBVIOUS
  <1> USE LockAssumption DEF LockInv, TypeOK, PC, Fault
  <1>1. ASSUME NEW t \in Thread, Acquire(t) PROVE TypeOK'
    BY <1>1 DEF Acquire
  <1>2. ASSUME NEW t \in Thread, Reacquire(t) PROVE TypeOK'
    BY <1>2 DEF Reacquire
  <1>3. ASSUME NEW t \in Thread, EnterGate(t) PROVE TypeOK'
    BY <1>3 DEF EnterGate, Gate
  <1>4. ASSUME NEW t \in Thread, OpenFails(t) PROVE TypeOK'
    BY <1>4 DEF OpenFails
  <1>5. ASSUME NEW t \in Thread, OpenHandle(t) PROVE TypeOK'
    BY <1>5 DEF OpenHandle
  <1>6. ASSUME NEW t \in Thread, FlockGranted(t) PROVE TypeOK'
    BY <1>6 DEF FlockGranted
  <1>7. ASSUME NEW t \in Thread, FlockFails(t) PROVE TypeOK'
    BY <1>7, UserOwnsGate DEF FlockFails, Kernel, UsesGate
  <1>8. ASSUME NEW t \in Thread, ReleaseInner(t) PROVE TypeOK'
    BY <1>8 DEF ReleaseInner
  <1>9. ASSUME NEW t \in Thread, Unlock(t) PROVE TypeOK'
    BY <1>9 DEF Unlock
  <1>10. ASSUME NEW t \in Thread, FinishRelease(t) PROVE TypeOK'
    BY <1>10, UserOwnsGate DEF FinishRelease, Kernel, UsesGate
  <1>11. ASSUME NEW t \in Thread, UnlockFails(t) PROVE TypeOK'
    BY <1>11, UserOwnsGate DEF UnlockFails, Kernel, UsesGate
  <1>12. ASSUME NEW p \in Process, Crash(p) PROVE TypeOK'
    BY <1>12 DEF Crash, Kernel, Gate, Free
  <1>13. ASSUME NEW t \in Thread, NEW c \in Thread, Fork(t, c) PROVE TypeOK'
    <2>1. gate[Parent] \in Gate /\ [gate[Parent] EXCEPT !.owner = c] \in Gate
      BY DEF Gate
    <2>2. gate' \in [Process -> Gate]
      BY <1>13, <2>1 DEF Fork
    <2>3. fds' \in [Thread -> SUBSET Process]
      BY <1>13 DEF Fork
    <2> QED
      BY <1>13, <2>2, <2>3 DEF Fork
  <1>14. CASE UNCHANGED vars
    BY <1>14 DEF vars
  <1> QED
    BY <1>1, <1>2, <1>3, <1>4, <1>5, <1>6, <1>7, <1>8, <1>9, <1>10, <1>11,
       <1>12, <1>13, <1>14 DEF Next, AcquireSteps, ReleaseSteps

LEMMA StepPosition == LockInv /\ [Next]_vars => Position'
  <1> SUFFICES ASSUME LockInv, [Next]_vars PROVE Position'
    OBVIOUS
  <1> USE LockAssumption
      DEF LockInv, TypeOK, PC, Fault, Position, UsesGate, HoldsHandle
  <1>1. ASSUME NEW t \in Thread, Acquire(t) PROVE Position'
    BY <1>1 DEF Acquire
  <1>2. ASSUME NEW t \in Thread, Reacquire(t) PROVE Position'
    BY <1>2 DEF Reacquire
  <1>3. ASSUME NEW t \in Thread, EnterGate(t) PROVE Position'
    BY <1>3 DEF EnterGate, Gate
  <1>4. ASSUME NEW t \in Thread, OpenFails(t) PROVE Position'
    BY <1>4 DEF OpenFails
  <1>5. ASSUME NEW t \in Thread, OpenHandle(t) PROVE Position'
    BY <1>5 DEF OpenHandle
  <1>6. ASSUME NEW t \in Thread, FlockGranted(t) PROVE Position'
    BY <1>6 DEF FlockGranted
  <1>7. ASSUME NEW t \in Thread, FlockFails(t) PROVE Position'
    BY <1>7 DEF FlockFails, Kernel
  <1>8. ASSUME NEW t \in Thread, ReleaseInner(t) PROVE Position'
    BY <1>8 DEF ReleaseInner
  <1>9. ASSUME NEW t \in Thread, Unlock(t) PROVE Position'
    BY <1>9 DEF Unlock
  <1>10. ASSUME NEW t \in Thread, FinishRelease(t) PROVE Position'
    BY <1>10 DEF FinishRelease, Kernel
  <1>11. ASSUME NEW t \in Thread, UnlockFails(t) PROVE Position'
    BY <1>11 DEF UnlockFails, Kernel
  <1>12. ASSUME NEW p \in Process, Crash(p) PROVE Position'
    BY <1>12 DEF Crash, Kernel
  <1>13. ASSUME NEW t \in Thread, NEW c \in Thread, Fork(t, c) PROVE Position'
    BY <1>13 DEF Fork, Inside, ThreadsOf, Descriptors
  <1>14. CASE UNCHANGED vars
    BY <1>14 DEF vars
  <1> QED
    BY <1>1, <1>2, <1>3, <1>4, <1>5, <1>6, <1>7, <1>8, <1>9, <1>10, <1>11,
       <1>12, <1>13, <1>14 DEF Next, AcquireSteps, ReleaseSteps

LEMMA StepDescriptors == LockInv /\ [Next]_vars => Descriptors'
  <1> SUFFICES ASSUME LockInv, [Next]_vars PROVE Descriptors'
    OBVIOUS
  <1> USE LockAssumption
      DEF LockInv, TypeOK, PC, Descriptors, Alive, ThreadsOf
  <1>1. ASSUME NEW t \in Thread, Acquire(t) PROVE Descriptors'
    BY <1>1 DEF Acquire
  <1>2. ASSUME NEW t \in Thread, Reacquire(t) PROVE Descriptors'
    BY <1>2 DEF Reacquire
  <1>3. ASSUME NEW t \in Thread, EnterGate(t) PROVE Descriptors'
    BY <1>3 DEF EnterGate
  <1>4. ASSUME NEW t \in Thread, OpenFails(t) PROVE Descriptors'
    BY <1>4 DEF OpenFails
  <1>5. ASSUME NEW t \in Thread, OpenHandle(t) PROVE Descriptors'
    BY <1>5 DEF OpenHandle
  <1>6. ASSUME NEW t \in Thread, FlockGranted(t) PROVE Descriptors'
    BY <1>6 DEF FlockGranted
  <1>7. ASSUME NEW t \in Thread, FlockFails(t) PROVE Descriptors'
    BY <1>7 DEF FlockFails, Kernel
  <1>8. ASSUME NEW t \in Thread, ReleaseInner(t) PROVE Descriptors'
    BY <1>8 DEF ReleaseInner
  <1>9. ASSUME NEW t \in Thread, Unlock(t) PROVE Descriptors'
    BY <1>9 DEF Unlock
  <1>10. ASSUME NEW t \in Thread, FinishRelease(t) PROVE Descriptors'
    BY <1>10 DEF FinishRelease, Kernel
  <1>11. ASSUME NEW t \in Thread, UnlockFails(t) PROVE Descriptors'
    BY <1>11 DEF UnlockFails, Kernel
  <1>12. ASSUME NEW p \in Process, Crash(p) PROVE Descriptors'
    BY <1>12 DEF Crash, Kernel
  <1>13. ASSUME NEW t \in Thread, NEW c \in Thread, Fork(t, c) PROVE Descriptors'
    BY <1>13 DEF Fork
  <1>14. CASE UNCHANGED vars
    BY <1>14 DEF vars
  <1> QED
    BY <1>1, <1>2, <1>3, <1>4, <1>5, <1>6, <1>7, <1>8, <1>9, <1>10, <1>11,
       <1>12, <1>13, <1>14 DEF Next, AcquireSteps, ReleaseSteps

LEMMA StepHolder == LockInv /\ [Next]_vars => Holder'
  <1> SUFFICES ASSUME LockInv, [Next]_vars PROVE Holder'
    OBVIOUS
  <1> USE LockAssumption
      DEF LockInv, TypeOK, PC, Holder, FlockHasLivingHolder, Descriptors, Position,
          HoldsHandle
  <1>1. ASSUME NEW t \in Thread, Acquire(t) PROVE Holder'
    BY <1>1 DEF Acquire
  <1>2. ASSUME NEW t \in Thread, Reacquire(t) PROVE Holder'
    BY <1>2 DEF Reacquire
  <1>3. ASSUME NEW t \in Thread, EnterGate(t) PROVE Holder'
    BY <1>3 DEF EnterGate
  <1>4. ASSUME NEW t \in Thread, OpenFails(t) PROVE Holder'
    BY <1>4 DEF OpenFails
  <1>5. ASSUME NEW t \in Thread, OpenHandle(t) PROVE Holder'
    BY <1>5 DEF OpenHandle
  <1>6. ASSUME NEW t \in Thread, FlockGranted(t) PROVE Holder'
    BY <1>6 DEF FlockGranted
  <1>7. ASSUME NEW t \in Thread, FlockFails(t) PROVE Holder'
    BY <1>7 DEF FlockFails, Kernel
  <1>8. ASSUME NEW t \in Thread, ReleaseInner(t) PROVE Holder'
    BY <1>8 DEF ReleaseInner
  <1>9. ASSUME NEW t \in Thread, Unlock(t) PROVE Holder'
    BY <1>9 DEF Unlock
  <1>10. ASSUME NEW t \in Thread, FinishRelease(t) PROVE Holder'
    BY <1>10 DEF FinishRelease, Kernel
  <1>11. ASSUME NEW t \in Thread, UnlockFails(t) PROVE Holder'
    BY <1>11 DEF UnlockFails, Kernel
  <1>12. ASSUME NEW p \in Process, Crash(p) PROVE Holder'
    BY <1>12 DEF Crash, Kernel
  <1>13. ASSUME NEW t \in Thread, NEW c \in Thread, Fork(t, c) PROVE Holder'
    BY <1>13 DEF Fork, ThreadsOf
  <1>14. CASE UNCHANGED vars
    BY <1>14 DEF vars
  <1> QED
    BY <1>1, <1>2, <1>3, <1>4, <1>5, <1>6, <1>7, <1>8, <1>9, <1>10, <1>11,
       <1>12, <1>13, <1>14 DEF Next, AcquireSteps, ReleaseSteps

LEMMA StepKernel == LockInv /\ [Next]_vars => FlockHasLivingHolder'
  <1> SUFFICES ASSUME LockInv, [Next]_vars PROVE FlockHasLivingHolder'
    OBVIOUS
  <1> USE LockAssumption
      DEF LockInv, TypeOK, PC, FlockHasLivingHolder, Holder, Descriptors, Position,
          HoldsHandle, Alive, ThreadsOf
  <1>1. ASSUME NEW t \in Thread, Acquire(t) PROVE FlockHasLivingHolder'
    BY <1>1 DEF Acquire
  <1>2. ASSUME NEW t \in Thread, Reacquire(t) PROVE FlockHasLivingHolder'
    BY <1>2 DEF Reacquire
  <1>3. ASSUME NEW t \in Thread, EnterGate(t) PROVE FlockHasLivingHolder'
    BY <1>3 DEF EnterGate
  <1>4. ASSUME NEW t \in Thread, OpenFails(t) PROVE FlockHasLivingHolder'
    BY <1>4 DEF OpenFails
  <1>5. ASSUME NEW t \in Thread, OpenHandle(t) PROVE FlockHasLivingHolder'
    BY <1>5 DEF OpenHandle
  <1>6. ASSUME NEW t \in Thread, FlockGranted(t) PROVE FlockHasLivingHolder'
    BY <1>6 DEF FlockGranted
  <1>7. ASSUME NEW t \in Thread, FlockFails(t) PROVE FlockHasLivingHolder'
    BY <1>7 DEF FlockFails, Kernel
  <1>8. ASSUME NEW t \in Thread, ReleaseInner(t) PROVE FlockHasLivingHolder'
    BY <1>8 DEF ReleaseInner
  <1>9. ASSUME NEW t \in Thread, Unlock(t) PROVE FlockHasLivingHolder'
    BY <1>9 DEF Unlock
  <1>10. ASSUME NEW t \in Thread, FinishRelease(t) PROVE FlockHasLivingHolder'
    BY <1>10 DEF FinishRelease, Kernel
  <1>11. ASSUME NEW t \in Thread, UnlockFails(t) PROVE FlockHasLivingHolder'
    BY <1>11 DEF UnlockFails, Kernel
  <1>12. ASSUME NEW p \in Process, Crash(p) PROVE FlockHasLivingHolder'
    <2>1. flock' # None => flock' = flock /\ fds'[flock] # {}
      BY <1>12 DEF Crash, Kernel
    <2>2. Descriptors'
      BY StepDescriptors
    <2> QED
      BY <2>1, <2>2 DEF Crash, Kernel
  <1>13. ASSUME NEW t \in Thread, NEW c \in Thread, Fork(t, c) PROVE FlockHasLivingHolder'
    BY <1>13 DEF Fork
  <1>14. CASE UNCHANGED vars
    BY <1>14 DEF vars
  <1> QED
    BY <1>1, <1>2, <1>3, <1>4, <1>5, <1>6, <1>7, <1>8, <1>9, <1>10, <1>11,
       <1>12, <1>13, <1>14 DEF Next, AcquireSteps, ReleaseSteps

LEMMA StepLocked == LockInv /\ [Next]_vars => Locked'
  <1> SUFFICES ASSUME LockInv, [Next]_vars PROVE Locked'
    OBVIOUS
  <1> USE LockAssumption
      DEF LockInv, TypeOK, PC, Fault, Locked, NoUnlockFault, Position, HoldsHandle
  <1>1. ASSUME NEW t \in Thread, Acquire(t) PROVE Locked'
    BY <1>1 DEF Acquire
  <1>2. ASSUME NEW t \in Thread, Reacquire(t) PROVE Locked'
    BY <1>2 DEF Reacquire
  <1>3. ASSUME NEW t \in Thread, EnterGate(t) PROVE Locked'
    BY <1>3 DEF EnterGate
  <1>4. ASSUME NEW t \in Thread, OpenFails(t) PROVE Locked'
    BY <1>4 DEF OpenFails
  <1>5. ASSUME NEW t \in Thread, OpenHandle(t) PROVE Locked'
    BY <1>5 DEF OpenHandle
  <1>6. ASSUME NEW t \in Thread, FlockGranted(t) PROVE Locked'
    BY <1>6 DEF FlockGranted
  <1>7. ASSUME NEW t \in Thread, FlockFails(t) PROVE Locked'
    BY <1>7 DEF FlockFails, Kernel
  <1>8. ASSUME NEW t \in Thread, ReleaseInner(t) PROVE Locked'
    BY <1>8 DEF ReleaseInner
  <1>9. ASSUME NEW t \in Thread, Unlock(t) PROVE Locked'
    BY <1>9 DEF Unlock
  <1>10. ASSUME NEW t \in Thread, FinishRelease(t) PROVE Locked'
    BY <1>10 DEF FinishRelease, Kernel
  <1>11. ASSUME NEW t \in Thread, UnlockFails(t) PROVE Locked'
    BY <1>11 DEF UnlockFails, Kernel
  <1>12. ASSUME NEW p \in Process, Crash(p) PROVE Locked'
    BY <1>12 DEF Crash, Kernel
  <1>13. ASSUME NEW t \in Thread, NEW c \in Thread, Fork(t, c) PROVE Locked'
    BY <1>13 DEF Fork, Inside, ThreadsOf, Descriptors
  <1>14. CASE UNCHANGED vars
    BY <1>14 DEF vars
  <1> QED
    BY <1>1, <1>2, <1>3, <1>4, <1>5, <1>6, <1>7, <1>8, <1>9, <1>10, <1>11,
       <1>12, <1>13, <1>14 DEF Next, AcquireSteps, ReleaseSteps

THEOREM LockInvariant == Spec => []LockInv
  <1>1. LockInv /\ [Next]_vars => LockInv'
    BY StepType, StepPosition, StepDescriptors, StepHolder,
       StepKernel, StepLocked DEF LockInv
  <1> QED
    BY InitInv, <1>1, PTL DEF Spec

\* Every variable keeps its type.
THEOREM TypeCorrect == Spec => []TypeOK
  BY LockInvariant, PTL DEF LockInv

\* No two threads are under the lock together while no unlock has failed.
THEOREM MutualExclusionHolds == Spec => []MutualExclusion
  <1>1. LockInv => MutualExclusion
    BY LockAssumption
    DEF LockInv, TypeOK, Locked, NoUnlockFault, MutualExclusion, InsideSet, Inside,
        HoldsHandle
  <1> QED
    BY LockInvariant, <1>1, PTL

\* The kernel lock is always held through a handle some living process has.
THEOREM CrashReleases == Spec => []FlockHasLivingHolder
  BY LockInvariant, PTL DEF LockInv

-----------------------------------------------------------------------------
(* Refinement: the lock implements Mutex. *)

\* With no failed unlock, a thread under the lock holds the kernel lock.
LEMMA InsideHolds ==
  ASSUME LockInv, NoUnlockFault, NEW t \in InsideSet
  PROVE  flock = t /\ HoldsHandle(t)
  BY LockAssumption
  DEF LockInv, TypeOK, Locked, NoUnlockFault, InsideSet, Inside, HoldsHandle

LEMMA MutexStep ==
  ASSUME LockInv, LockInv', [Next]_vars, NoUnlockFault, NoUnlockFault'
  PROVE  [M!Next]_(M!vars)
  <1> USE LockAssumption DEF LockInv, TypeOK, PC, InsideSet, Inside, HoldsHandle,
          NoUnlockFault
  <1>0. UNCHANGED (~NoUnlockFault)
    OBVIOUS
  <1>1. ASSUME NEW t \in Thread, Acquire(t) PROVE InsideSet' = InsideSet
    BY <1>1 DEF Acquire
  <1>2. ASSUME NEW t \in Thread, Reacquire(t) PROVE InsideSet' = InsideSet
    BY <1>2, InsideHolds DEF Reacquire, Locked
  <1>3. ASSUME NEW t \in Thread, EnterGate(t) PROVE InsideSet' = InsideSet
    BY <1>3 DEF EnterGate
  <1>4. ASSUME NEW t \in Thread, OpenFails(t) PROVE InsideSet' = InsideSet
    BY <1>4 DEF OpenFails, Position
  <1>5. ASSUME NEW t \in Thread, OpenHandle(t) PROVE InsideSet' = InsideSet
    BY <1>5 DEF OpenHandle
  <1>6. ASSUME NEW t \in Thread, FlockGranted(t) PROVE M!Enter(t)
    <2>1. InsideSet = {}
      BY <1>6, InsideHolds DEF FlockGranted
    <2>2. InsideSet' = {t}
      BY <1>6, <2>1 DEF FlockGranted, Position
    <2> QED
      BY <1>0, <2>1, <2>2 DEF M!Enter
  <1>7. ASSUME NEW t \in Thread, FlockFails(t) PROVE InsideSet' = InsideSet
    BY <1>7 DEF FlockFails, Kernel, Position
  <1>8. ASSUME NEW t \in Thread, ReleaseInner(t) PROVE InsideSet' = InsideSet
    BY <1>8, InsideHolds DEF ReleaseInner, Locked
  <1>9. ASSUME NEW t \in Thread, Unlock(t) PROVE M!Leave(t)
    <2>1. t \in InsideSet /\ InsideSet' = InsideSet \ {t}
      BY <1>9 DEF Unlock
    <2> QED
      BY <1>0, <2>1 DEF M!Leave
  <1>10. ASSUME NEW t \in Thread, FinishRelease(t) PROVE InsideSet' = InsideSet
    BY <1>10 DEF FinishRelease, Kernel
  <1>11. ASSUME NEW t \in Thread, UnlockFails(t) PROVE FALSE
    BY <1>11 DEF UnlockFails, Kernel, Fault
  <1>12. ASSUME NEW p \in Process, Crash(p)
         PROVE  InsideSet' = InsideSet \/ \E t \in Thread : M!Leave(t)
    <2>1. InsideSet' = {t \in InsideSet : ProcOf[t] # p}
      BY <1>12 DEF Crash, Kernel
    <2>2. CASE \E t \in InsideSet : ProcOf[t] = p
      <3>1. PICK t \in InsideSet : ProcOf[t] = p
        BY <2>2
      <3>2. InsideSet = {t}
        BY <3>1, InsideHolds
      <3> QED
        BY <1>0, <2>1, <3>1, <3>2 DEF M!Leave
    <2>3. CASE ~\E t \in InsideSet : ProcOf[t] = p
      BY <2>1, <2>3
    <2> QED
      BY <2>2, <2>3
  <1>13. ASSUME NEW t \in Thread, NEW c \in Thread, Fork(t, c)
         PROVE  InsideSet' = InsideSet
    BY <1>13 DEF Fork, Position, Locked, Descriptors, ThreadsOf
  <1>14. ASSUME UNCHANGED vars PROVE InsideSet' = InsideSet
    BY <1>14 DEF vars
  <1>15. \/ InsideSet' = InsideSet
         \/ \E t \in Thread : M!Enter(t) \/ M!Leave(t)
    BY <1>1, <1>2, <1>3, <1>4, <1>5, <1>6, <1>7, <1>8, <1>9, <1>10, <1>11,
       <1>12, <1>13, <1>14 DEF Next, AcquireSteps, ReleaseSteps
  <1> HIDE DEF NoUnlockFault, InsideSet
  <1> QED
    BY <1>0, <1>15 DEF M!Next, M!vars

\* A failed unlock is never taken back.
LEMMA FaultsStay == LockInv /\ [Next]_vars /\ ~NoUnlockFault => ~NoUnlockFault'
  <1> SUFFICES ASSUME LockInv, [Next]_vars, ~NoUnlockFault PROVE ~NoUnlockFault'
    OBVIOUS
  <1>1. /\ faults \in [DOMAIN MaxFaults -> Nat]
        /\ DOMAIN MaxFaults = {"open", "unlock", "crash"}
    BY LockAssumption DEF LockInv, TypeOK
  <1>2. ASSUME NEW k, Fault(k) PROVE ~NoUnlockFault'
    BY <1>1, <1>2 DEF Fault, NoUnlockFault
  <1>3. CASE UNCHANGED faults
    BY <1>3 DEF NoUnlockFault
  <1>4. UNCHANGED faults \/ \E k : Fault(k)
    BY DEF vars, Next, AcquireSteps, ReleaseSteps, Acquire, Reacquire, EnterGate,
           OpenFails, OpenHandle, FlockGranted, FlockFails, ReleaseInner, Unlock,
           FinishRelease, UnlockFails, Crash, Fork
  <1> QED
    BY <1>2, <1>3, <1>4

\* The lock is a Mutex, for ever or until an unlock fails.
THEOREM ImplementsMutexHolds == Spec => ImplementsMutex
  <1>1. Init => M!Init
    BY LockAssumption
    DEF Init, M!Init, InsideSet, Inside, HoldsHandle, NoUnlockFault
  <1>2. LockInv /\ LockInv' /\ [Next]_vars => [M!Next]_(M!vars)
    <2> SUFFICES ASSUME LockInv, LockInv', [Next]_vars PROVE [M!Next]_(M!vars)
      OBVIOUS
    <2>1. CASE NoUnlockFault'
      BY <2>1, MutexStep, FaultsStay
    <2>2. CASE ~NoUnlockFault'
      BY <2>2 DEF M!Next, M!Break, InsideSet
    <2> QED
      BY <2>1, <2>2
  <1> QED
    BY LockInvariant, <1>1, <1>2, PTL DEF Spec, ImplementsMutex, M!Spec
=============================================================================
