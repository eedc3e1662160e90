-------------------------- MODULE ProcessMutexProofs --------------------------
(***************************************************************************)
(* What TLAPS proves of ProcessMutex for every set of threads, every set   *)
(* of objects and every polling limit.                                     *)
(*                                                                         *)
(* The argument.  O_CREAT|O_EXCL lets one thread at a time create, and     *)
(* only the creator unlinks, before it has published: so the name stays    *)
(* bound to the creator's object, and a Valid object keeps the name for    *)
(* ever.  All kept mappings are therefore mappings of one object, whose    *)
(* mutex has one owner.                                                    *)
(***************************************************************************)
EXTENDS ProcessMutex, TLAPS

USE ProcessMutexAssumption
USE DEF At, GoTo, kernelVars, lockVars, localVars, PC, ConstructPC, CreatorPC,
        OpenerPC, SharedMutexState

(***************************************************************************)
(* The inductive invariant                                                 *)
(***************************************************************************)
\* The initial state satisfies every part of the invariant.
LEMMA MutexInvInit == Init => MutexInv
BY DEF Init, MutexInv, TypeOK, CreatorInv, MappingInv, ValidInv, OwnerInv,
       RecoveredBeforeUse

\* Every step of a live thread, a failed call included, preserves the invariant.
LEMMA StepPreserves ==
  ASSUME MutexInv, NEW p \in Proc, Step(p) \/ Crash(p)
  PROVE  MutexInv'
<1> USE DEF MutexInv, TypeOK, CreatorInv, MappingInv, ValidInv, OwnerInv,
            RecoveredBeforeUse
<1>1. CASE Enter(p)
  BY <1>1 DEF Enter
<1>2. CASE CreateShm(p)
  BY <1>2 DEF CreateShm, Unreferenced
<1>3. CASE CreateExists(p)
  BY <1>3 DEF CreateExists
<1>4. CASE CreateShmFails(p)
  BY <1>4 DEF CreateShmFails, Throw
<1>5. CASE Truncate(p)
  BY <1>5 DEF Truncate
<1>6. CASE MapNew(p)
  BY <1>6 DEF MapNew
<1>7. CASE MarkInitializing(p)
  BY <1>7 DEF MarkInitializing
<1>8. CASE InitMutex(p)
  BY <1>8 DEF InitMutex
<1>9. CASE Publish(p)
  BY <1>9 DEF Publish
<1>10. CASE CreateFails(p)
  BY <1>10 DEF CreateFails, Cleanup
<1>11. CASE Unlink(p)
  BY <1>11 DEF Unlink
<1>12. CASE OpenShm(p)
  BY <1>12 DEF OpenShm
<1>13. CASE OpenMissing(p)
  BY <1>13 DEF OpenMissing, Throw
<1>14. CASE OpenFails(p)
  BY <1>14 DEF OpenFails, Throw
<1>15. CASE StatSize(p)
  BY <1>15 DEF StatSize, PollAgain, Throw, Cleanup
<1>16. CASE MapOld(p)
  BY <1>16 DEF MapOld
<1>17. CASE PollState(p)
  BY <1>17 DEF PollState, PollAgain, Throw, Cleanup
<1>18. CASE OpenerFails(p)
  BY <1>18 DEF OpenerFails, Throw, Cleanup
<1>19. CASE Lock(p)
  BY <1>19 DEF Lock
<1>20. CASE MakeConsistent(p)
  BY <1>20 DEF MakeConsistent
<1>21. CASE Unlock(p)
  BY <1>21 DEF Unlock
<1>22. CASE ThreadExit(p)
  BY <1>22 DEF ThreadExit, Cleanup
<1>23. CASE Crash(p)
  BY <1>23 DEF Crash, Cleanup
<1>24. CASE LockFails(p)
  BY <1>24 DEF LockFails, Throw
<1> QED
  BY <1>1, <1>2, <1>3, <1>4, <1>5, <1>6, <1>7, <1>8, <1>9, <1>10, <1>11, <1>12, <1>13, <1>14, <1>15, <1>16, <1>17, <1>18, <1>19, <1>20, <1>21, <1>22, <1>23, <1>24
  DEF Step, Create, Open, Use, Fail

\* The invariant holds in every reachable state.
THEOREM MutexInvariant == Spec => []MutexInv
<1>1. MutexInv /\ [Next]_vars => MutexInv'
  <2> SUFFICES ASSUME MutexInv, [Next]_vars PROVE MutexInv'
    OBVIOUS
  <2>1. CASE Next
    BY <2>1, StepPreserves DEF Next
  <2>2. CASE UNCHANGED vars
    BY <2>2 DEF vars, MutexInv, TypeOK, CreatorInv, MappingInv, ValidInv, OwnerInv,
                RecoveredBeforeUse
  <2> QED
    BY <2>1, <2>2
<1> QED
  BY MutexInvInit, <1>1, PTL DEF Spec

(***************************************************************************)
(* The properties of the safety run                                        *)
(***************************************************************************)
\* Every variable keeps its type through every step, failures and crashes included.
THEOREM TypeCorrect == Spec => []TypeOK
<1>1. MutexInv => TypeOK
  BY DEF MutexInv
<1> QED
  BY <1>1, MutexInvariant, PTL

\* Two threads past the constructor hold the one mutex all kept mappings map.
THEOREM MutualExclusionHolds == Spec => []MutualExclusion
<1>1. MutexInv => MutualExclusion
  BY DEF MutexInv, ValidInv, OwnerInv, MutualExclusion
<1> QED
  BY <1>1, MutexInvariant, PTL

\* A thread locks only what it has found, or itself published, Valid.
THEOREM LocksInitialisedMutexHolds == Spec => []LocksInitialisedMutex
<1>1. MutexInv => LocksInitialisedMutex
  BY DEF MutexInv, TypeOK, ValidInv, LocksInitialisedMutex
<1> QED
  BY <1>1, MutexInvariant, PTL

\* The GPU is never used under a mutex that has not been made consistent.
THEOREM RecoveredBeforeUseHolds == Spec => []RecoveredBeforeUse
<1>1. MutexInv => RecoveredBeforeUse
  BY DEF MutexInv, OwnerInv
<1> QED
  BY <1>1, MutexInvariant, PTL

\* A refused command leaves no descriptor and no mapping behind.
THEOREM NoLeakHolds == Spec => []NoLeak
<1>1. MutexInv => NoLeak
  BY DEF MutexInv, MappingInv, ValidInv, NoLeak
<1> QED
  BY <1>1, MutexInvariant, PTL

\* A published mutex is neither unlinked nor destroyed by any later step.
THEOREM ValidStaysNamedHolds == Spec => ValidStaysNamed
<1> DEFINE Stays == \A o \in Obj : state[o] = "Valid" => state'[o] = "Valid" /\ shm' = o
<1>1. MutexInv /\ MutexInv' /\ [Next]_vars => [Stays]_vars
  <2> SUFFICES ASSUME MutexInv, Next, NEW o \in Obj, state[o] = "Valid"
               PROVE  state'[o] = "Valid" /\ shm' = o
    BY DEF vars
  <2> PICK p \in Proc : Step(p) \/ Crash(p)
    BY DEF Next
  <2> USE DEF MutexInv, TypeOK, CreatorInv, MappingInv, ValidInv
  <2>1. shm = o /\ pc[p] \notin CreatorPC
    OBVIOUS
  <2>2. CASE Create(p)
    BY <2>1, <2>2 DEF Create, CreateShm, CreateExists, Truncate, MapNew,
                      MarkInitializing, InitMutex, Publish, Unlink
  <2>3. CASE Open(p)
    BY <2>1, <2>3 DEF Open, OpenShm, OpenMissing, StatSize, MapOld, PollState,
                      PollAgain, Throw
  <2>4. CASE Use(p)
    BY <2>1, <2>4 DEF Use, Lock, MakeConsistent, Unlock
  <2>5. CASE Fail(p)
    BY <2>1, <2>5 DEF Fail, CreateShmFails, CreateFails, OpenFails, OpenerFails, LockFails,
                      Throw
  <2>6. CASE Enter(p) \/ ThreadExit(p) \/ Crash(p)
    BY <2>1, <2>6 DEF Enter, ThreadExit, Crash
  <2> QED
    BY <2>2, <2>3, <2>4, <2>5, <2>6 DEF Step
<1> QED
  BY <1>1, MutexInvariant, PTL DEF Spec, ValidStaysNamed

(***************************************************************************)
(* The mutex implements the abstract lock                                  *)
(***************************************************************************)
\* Every step of the mutex is a step of GpuLock on phaseOf, or leaves phaseOf alone.
LEMMA StepRefines ==
  ASSUME MutexInv, NEW p \in Proc, Step(p) \/ Crash(p)
  PROVE  [Lock_!Next]_phaseOf
<1> USE DEF MutexInv, TypeOK, ValidInv, OwnerInv, phaseOf
<1> DEFINE To(l) == phaseOf' = [phaseOf EXCEPT ![p] = l]
<1>1. CASE Enter(p)
  <2>1. To("waiting")
    BY <1>1 DEF Enter
  <2> QED
    BY <1>1, <2>1 DEF Enter, Lock_!Next, Lock_!Ask
<1>2. CASE pc'[p] = "cs" /\ ~At(p, "cs") /\ pc' = [pc EXCEPT ![p] = "cs"]
  <2>1. Lock(p) \/ MakeConsistent(p)
    BY <1>2 DEF Step, Create, Open, Use, Fail, Crash, Enter, CreateShm, CreateExists,
       Truncate, MapNew, MarkInitializing, InitMutex, Publish, Unlink, OpenShm,
       OpenMissing, StatSize, MapOld, PollState, PollAgain, Throw, Unlock,
       CreateShmFails, CreateFails, OpenFails, OpenerFails, LockFails, ThreadExit
  <2>2. \A q \in Proc : ~At(q, "cs")
    BY <2>1 DEF Lock, MakeConsistent
  <2>3. To("running")
    BY <1>2, <2>1 DEF Lock, MakeConsistent
  <2> QED
    BY <2>1, <2>2, <2>3 DEF Lock, MakeConsistent, Lock_!Next, Lock_!Acquire
<1>3. CASE ~At(p, "out") /\ pc' = [pc EXCEPT ![p] = "out"]
  <2>1. To("out")
    BY <1>3
  <2> QED
    BY <1>3, <2>1 DEF Lock_!Next, Lock_!Leave
<1>4. CASE ~At(p, "out") /\ ~At(p, "cs") /\ pc'[p] \notin {"out", "cs"}
           /\ pc' = [pc EXCEPT ![p] = pc'[p]]
  BY <1>4
<1>5. CASE pc' = pc
  BY <1>5
<1> QED
  BY <1>1, <1>2, <1>3, <1>4, <1>5
  DEF Step, Create, Open, Use, Fail, Crash, CreateShm, CreateExists, Truncate, MapNew,
      MarkInitializing, InitMutex, Publish, Unlink, OpenShm, OpenMissing, StatSize, MapOld,
      PollState, PollAgain, Throw, Lock, MakeConsistent, Unlock, CreateShmFails,
      CreateFails, OpenFails, OpenerFails, LockFails, ThreadExit

\* The Linux implementation of ScopedProcessMutex is a lock for the GPU.
THEOREM MutexImplementsGpuLock == Spec => ImplementsGpuLock
<1>1. Init => Lock_!Init
  BY DEF Init, Lock_!Init, phaseOf
<1>2. MutexInv /\ [Next]_vars => [Lock_!Next]_phaseOf
  <2> SUFFICES ASSUME MutexInv, [Next]_vars PROVE [Lock_!Next]_phaseOf
    OBVIOUS
  <2>1. CASE Next
    BY <2>1, StepRefines DEF Next
  <2>2. CASE UNCHANGED vars
    BY <2>2 DEF vars, phaseOf
  <2> QED
    BY <2>1, <2>2
<1> QED
  BY <1>1, <1>2, MutexInvariant, PTL DEF Spec, ImplementsGpuLock, Lock_!Spec
=============================================================================
