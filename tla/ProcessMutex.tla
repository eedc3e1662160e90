----------------------------- MODULE ProcessMutex -----------------------------
(***************************************************************************)
(* ScopedProcessMutex on Linux (ScopedProcessMutex.cpp, the branch         *)
(* USE_PTHREADS_ROBUST_MUTEX): a robust pthread mutex in a POSIX shared    *)
(* memory object that the first caller creates and the others open.        *)
(*                                                                         *)
(* One step is one system call or one access to the shared memory, so that *)
(* every interleaving of creators, openers and lockers is explored, with a *)
(* failure of any call that the code checks and the death of a thread at   *)
(* any point.  A thread that dies comes back as a new one (restart).       *)
(*                                                                         *)
(* The kernel's part (names, sizes, mappings, the robust list) is what     *)
(* POSIX says of the calls the code makes.  An object that has no name, no *)
(* descriptor and no mapping is destroyed by the kernel and its identity   *)
(* is used again, which keeps the state space finite without a bound on    *)
(* the number of creations.  remove(), which nothing in the repository     *)
(* calls, is left out: it would take the name from under its users.        *)
(***************************************************************************)
EXTENDS Naturals, FiniteSets

CONSTANTS
  Proc,       \* threads (of any process of one user): procMutex is thread_local
  Obj,        \* identities of shared memory objects
  NoProc,     \* a mutex nobody holds
  NoObj,      \* no object: an unbound name, shm_fd = -1, sharedMem = nullptr
  ChkLimit    \* const int chkLimit = 100: polls before an opener gives up

ASSUME ProcessMutexAssumption ==
  /\ NoProc \notin Proc
  /\ NoObj \notin Obj
  /\ ChkLimit \in Nat \ {0}

VARIABLES
  shm,        \* the object the name is bound to
  sized,      \* the objects that ftruncate has given their size
  state,      \* SharedMemMutex::state of each object
  ready,      \* the objects whose pthread_mutex_init succeeded
  owner,      \* the thread that holds the mutex of each object
  orphaned,   \* the objects whose mutex reports EOWNERDEAD to the next owner
  pc,         \* where each thread is
  fd,         \* PThreadMutex::shm_fd of each thread
  map,        \* PThreadMutex::sharedMem of each thread
  chk,        \* the loop counter i of try_open_mutex
  procMutex   \* the threads whose procMutex is not null

vars == <<shm, sized, state, ready, owner, orphaned, pc, fd, map, chk, procMutex>>

kernelVars == <<shm, sized, state, ready>>
lockVars   == <<owner, orphaned>>
localVars  == <<fd, map, chk, procMutex>>

SharedMutexState == {"Uninitialized", "Initializing", "Valid"}

\* try_create_mutex after O_EXCL succeeded, until Valid is stored or the name unlinked.
CreatorPC == {"truncate", "mapNew", "mark", "init", "publish", "unlink"}
\* try_open_mutex after shm_open succeeded.
OpenerPC == {"stat", "mapOld", "poll"}
ConstructPC == CreatorPC \cup OpenerPC \cup {"create", "open"}
PC == ConstructPC \cup {"out", "lock", "recover", "cs"}

TypeOK ==
  /\ shm \in Obj \cup {NoObj}
  /\ sized \in SUBSET Obj
  /\ state \in [Obj -> SharedMutexState]
  /\ ready \in SUBSET Obj
  /\ owner \in [Obj -> Proc \cup {NoProc}]
  /\ orphaned \in SUBSET Obj
  /\ pc \in [Proc -> PC]
  /\ fd \in [Proc -> Obj \cup {NoObj}]
  /\ map \in [Proc -> Obj \cup {NoObj}]
  /\ chk \in [Proc -> 0 .. ChkLimit]
  /\ procMutex \in SUBSET Proc

Init ==
  /\ shm = NoObj
  /\ sized = {}
  /\ state = [o \in Obj |-> "Uninitialized"]
  /\ ready = {}
  /\ owner = [o \in Obj |-> NoProc]
  /\ orphaned = {}
  /\ pc = [p \in Proc |-> "out"]
  /\ fd = [p \in Proc |-> NoObj]
  /\ map = [p \in Proc |-> NoObj]
  /\ chk = [p \in Proc |-> 0]
  /\ procMutex = {}

At(p, l) == pc[p] = l
GoTo(p, l) == pc' = [pc EXCEPT ![p] = l]

\* Objects the kernel can hand to a new shm_open(O_CREAT): nothing refers to them.
Unreferenced == {o \in Obj \ {shm} : \A p \in Proc : fd[p] # o /\ map[p] # o}

(***************************************************************************)
(* Clean-up helpers of PThreadMutex                                        *)
(***************************************************************************)
\* cleanup(): safe_unmap_mem, safe_close_shm.
Cleanup(p) ==
  /\ fd' = [fd EXCEPT ![p] = NoObj]
  /\ map' = [map EXCEPT ![p] = NoObj]
  /\ chk' = [chk EXCEPT ![p] = 0]

\* An exception leaves the constructor: procMutex stays null, the command is refused.
Throw(p) == GoTo(p, "out") /\ UNCHANGED <<kernelVars, lockVars, procMutex>>

(***************************************************************************)
(* ScopedProcessMutex::ScopedProcessMutex                                  *)
(***************************************************************************)
Enter(p) ==
  /\ At(p, "out")
  /\ GoTo(p, IF p \in procMutex THEN "lock" ELSE "create")
  /\ UNCHANGED <<kernelVars, lockVars, localVars>>

(***************************************************************************)
(* try_create_mutex                                                        *)
(***************************************************************************)
\* shm_open(O_CREAT|O_EXCL) on a free name: a zero-filled object of size 0.
CreateShm(p) ==
  /\ At(p, "create")
  /\ shm = NoObj
  /\ \E o \in Unreferenced :
       /\ shm' = o
       /\ fd' = [fd EXCEPT ![p] = o]
       /\ state' = [state EXCEPT ![o] = "Uninitialized"]
       /\ sized' = sized \ {o}
       /\ ready' = ready \ {o}
       /\ owner' = [owner EXCEPT ![o] = NoProc]
       /\ orphaned' = orphaned \ {o}
  /\ GoTo(p, "truncate")
  /\ UNCHANGED <<map, chk, procMutex>>

\* EEXIST: somebody created it before, try_open_mutex.
CreateExists(p) ==
  /\ At(p, "create")
  /\ shm # NoObj
  /\ GoTo(p, "open")
  /\ UNCHANGED <<kernelVars, lockVars, localVars>>

\* Any other errno.
CreateShmFails(p) ==
  /\ At(p, "create")
  /\ Throw(p)
  /\ UNCHANGED <<fd, map, chk>>

Truncate(p) ==
  /\ At(p, "truncate")
  /\ sized' = sized \cup {fd[p]}
  /\ GoTo(p, "mapNew")
  /\ UNCHANGED <<shm, state, ready, lockVars, localVars>>

MapNew(p) ==
  /\ At(p, "mapNew")
  /\ map' = [map EXCEPT ![p] = fd[p]]
  /\ GoTo(p, "mark")
  /\ UNCHANGED <<kernelVars, lockVars, fd, chk, procMutex>>

\* What-if: Valid is stored before the mutex is initialised.
MarkValid(p) ==
  /\ At(p, "mark")
  /\ state' = [state EXCEPT ![map[p]] = "Valid"]
  /\ GoTo(p, "init")
  /\ UNCHANGED <<shm, sized, ready, lockVars, localVars>>

\* state.store(Initializing)
MarkInitializing(p) ==
  /\ At(p, "mark")
  /\ state' = [state EXCEPT ![map[p]] = "Initializing"]
  /\ GoTo(p, "init")
  /\ UNCHANGED <<shm, sized, ready, lockVars, localVars>>

\* The attribute calls are local; pthread_mutex_init makes the mutex usable.
InitMutex(p) ==
  /\ At(p, "init")
  /\ ready' = ready \cup {map[p]}
  /\ GoTo(p, "publish")
  /\ UNCHANGED <<shm, sized, state, lockVars, localVars>>

\* state.store(Valid); the constructor returns and procMutex is assigned.
Publish(p) ==
  /\ At(p, "publish")
  /\ state' = [state EXCEPT ![map[p]] = "Valid"]
  /\ procMutex' = procMutex \cup {p}
  /\ GoTo(p, "lock")
  /\ UNCHANGED <<shm, sized, ready, lockVars, fd, map, chk>>

\* ftruncate, mmap, an attribute call or pthread_mutex_init failed: the local part
\* of err_create_cleanup.  safe_destroy_mutex acts only on a Valid mutex.
CreateFails(p) ==
  /\ pc[p] \in {"truncate", "mapNew", "init"}
  /\ LET o == map[p]
         destroys == o # NoObj /\ state[o] = "Valid"
     IN /\ state' = IF destroys THEN [state EXCEPT ![o] = "Uninitialized"] ELSE state
        /\ ready' = IF destroys THEN ready \ {o} ELSE ready
  /\ Cleanup(p)
  /\ GoTo(p, "unlink")
  /\ UNCHANGED <<shm, sized, lockVars, procMutex>>

\* force_unlink(name), then throw: the name is removed, whatever it is bound to.
Unlink(p) ==
  /\ At(p, "unlink")
  /\ shm' = NoObj
  /\ GoTo(p, "out")
  /\ UNCHANGED <<sized, state, ready, lockVars, localVars>>

(***************************************************************************)
(* try_open_mutex                                                          *)
(***************************************************************************)
OpenShm(p) ==
  /\ At(p, "open")
  /\ shm # NoObj
  /\ fd' = [fd EXCEPT ![p] = shm]
  /\ chk' = [chk EXCEPT ![p] = 0]
  /\ GoTo(p, "stat")
  /\ UNCHANGED <<kernelVars, lockVars, map, procMutex>>

\* ENOENT: the creator failed and unlinked the name since the EEXIST.
OpenMissing(p) ==
  /\ At(p, "open")
  /\ shm = NoObj
  /\ Throw(p)
  /\ UNCHANGED <<fd, map, chk>>

\* Any other errno.
OpenFails(p) ==
  /\ At(p, "open")
  /\ shm # NoObj
  /\ Throw(p)
  /\ UNCHANGED <<fd, map, chk>>

\* What-if: the timeout throws without cleanup.
PollNoCleanup(p) ==
  IF chk[p] + 1 < ChkLimit
  THEN /\ chk' = [chk EXCEPT ![p] = @ + 1]
       /\ UNCHANGED <<kernelVars, lockVars, pc, fd, map, procMutex>>
  ELSE Throw(p) /\ UNCHANGED <<fd, map, chk>>

\* What-if: a timed-out opener takes the name for stale and unlinks it.
PollUnlinks(p) ==
  IF chk[p] + 1 < ChkLimit
  THEN /\ chk' = [chk EXCEPT ![p] = @ + 1]
       /\ UNCHANGED <<kernelVars, lockVars, pc, fd, map, procMutex>>
  ELSE /\ shm' = NoObj
       /\ Cleanup(p)
       /\ GoTo(p, "out")
       /\ UNCHANGED <<sized, state, ready, lockVars, procMutex>>

\* What-if: the polling loop has no limit.
PollForever(p) == UNCHANGED vars

\* One more turn of a polling loop whose condition does not hold yet: sleep and try
\* again, or after chkLimit turns the timeout failure: cleanup and throw.
PollAgain(p) ==
  IF chk[p] + 1 < ChkLimit
  THEN /\ chk' = [chk EXCEPT ![p] = @ + 1]
       /\ UNCHANGED <<kernelVars, lockVars, pc, fd, map, procMutex>>
  ELSE Throw(p) /\ Cleanup(p)

\* "Wait for the shared-mem to be properly resized (ftruncate)".
StatSize(p) ==
  /\ At(p, "stat")
  /\ IF fd[p] \in sized
     THEN /\ chk' = [chk EXCEPT ![p] = 0]
          /\ GoTo(p, "mapOld")
          /\ UNCHANGED <<kernelVars, lockVars, fd, map, procMutex>>
     ELSE PollAgain(p)

MapOld(p) ==
  /\ At(p, "mapOld")
  /\ map' = [map EXCEPT ![p] = fd[p]]
  /\ GoTo(p, "poll")
  /\ UNCHANGED <<kernelVars, lockVars, fd, chk, procMutex>>

\* What-if: any state the creator has written is taken for initialised.
PollWritten(p) ==
  /\ At(p, "poll")
  /\ IF state[map[p]] # "Uninitialized"
     THEN /\ procMutex' = procMutex \cup {p}
          /\ chk' = [chk EXCEPT ![p] = 0]
          /\ GoTo(p, "lock")
          /\ UNCHANGED <<kernelVars, lockVars, fd, map>>
     ELSE PollAgain(p)

\* "Wait for the mutex to be properly initialized".
PollState(p) ==
  /\ At(p, "poll")
  /\ IF state[map[p]] = "Valid"
     THEN /\ procMutex' = procMutex \cup {p}
          /\ chk' = [chk EXCEPT ![p] = 0]
          /\ GoTo(p, "lock")
          /\ UNCHANGED <<kernelVars, lockVars, fd, map>>
     ELSE PollAgain(p)

\* fstat or mmap failed: cleanup and throw.
OpenerFails(p) ==
  /\ pc[p] \in {"stat", "mapOld"}
  /\ Throw(p)
  /\ Cleanup(p)

(***************************************************************************)
(* lock, unlock, the end of a thread                                       *)
(***************************************************************************)
\* What-if: EOWNERDEAD is taken for success.
LockIgnoresDeath(p) ==
  /\ At(p, "lock")
  /\ owner[map[p]] = NoProc
  /\ owner' = [owner EXCEPT ![map[p]] = p]
  /\ GoTo(p, "cs")
  /\ UNCHANGED <<kernelVars, orphaned, localVars>>

\* What-if: the mutex is not PTHREAD_PROCESS_SHARED.
LockPrivate(p) ==
  /\ At(p, "lock")
  /\ owner' = [owner EXCEPT ![map[p]] = p]
  /\ GoTo(p, IF map[p] \in orphaned THEN "recover" ELSE "cs")
  /\ UNCHANGED <<kernelVars, orphaned, localVars>>

\* What-if: the mutex is not PTHREAD_MUTEX_ROBUST.
LockNotRobust(p) ==
  /\ At(p, "lock")
  /\ owner[map[p]] = NoProc /\ map[p] \notin orphaned
  /\ owner' = [owner EXCEPT ![map[p]] = p]
  /\ GoTo(p, "cs")
  /\ UNCHANGED <<kernelVars, orphaned, localVars>>

\* pthread_mutex_lock returns: 0, or EOWNERDEAD when the last owner died.
Lock(p) ==
  /\ At(p, "lock")
  /\ owner[map[p]] = NoProc
  /\ owner' = [owner EXCEPT ![map[p]] = p]
  /\ GoTo(p, IF map[p] \in orphaned THEN "recover" ELSE "cs")
  /\ UNCHANGED <<kernelVars, orphaned, localVars>>

\* pthread_mutex_lock fails: lock throws and the command is refused, but procMutex is
\* assigned by now, so its descriptor and mapping stay for the next call.
LockFails(p) ==
  /\ At(p, "lock")
  /\ Throw(p)
  /\ UNCHANGED <<fd, map, chk>>

\* pthread_mutex_consistent.
MakeConsistent(p) ==
  /\ At(p, "recover")
  /\ orphaned' = orphaned \ {map[p]}
  /\ GoTo(p, "cs")
  /\ UNCHANGED <<kernelVars, owner, localVars>>

\* ~ScopedProcessMutex at the end of execute: the mapping is kept in procMutex.
Unlock(p) ==
  /\ At(p, "cs")
  /\ owner' = [owner EXCEPT ![map[p]] = NoProc]
  /\ GoTo(p, "out")
  /\ UNCHANGED <<kernelVars, orphaned, localVars>>

\* What-if: the end of a thread runs err_create_cleanup.
ThreadExitUnlinks(p) ==
  /\ At(p, "out")
  /\ p \in procMutex
  /\ Cleanup(p)
  /\ procMutex' = procMutex \ {p}
  /\ shm' = NoObj
  /\ UNCHANGED <<sized, state, ready, lockVars, pc>>

\* The thread ends between two commands: ~PThreadMutex of the thread_local procMutex.
ThreadExit(p) ==
  /\ At(p, "out")
  /\ p \in procMutex
  /\ Cleanup(p)
  /\ procMutex' = procMutex \ {p}
  /\ UNCHANGED <<kernelVars, lockVars, pc>>

\* The process is killed, or terminates on an exception in a parallel region or out of
\* ~ScopedProcessMutex: the kernel drops its descriptors and mappings and walks its
\* robust list.
Crash(p) ==
  /\ ~At(p, "out")
  /\ GoTo(p, "out")
  /\ Cleanup(p)
  /\ procMutex' = procMutex \ {p}
  /\ owner' = [o \in Obj |-> IF owner[o] = p THEN NoProc ELSE owner[o]]
  /\ orphaned' = orphaned \cup {o \in Obj : owner[o] = p}
  /\ UNCHANGED kernelVars

Create(p) ==
  \/ CreateShm(p) \/ CreateExists(p) \/ Truncate(p) \/ MapNew(p)
  \/ MarkInitializing(p) \/ InitMutex(p) \/ Publish(p) \/ Unlink(p)
Open(p) == OpenShm(p) \/ OpenMissing(p) \/ StatSize(p) \/ MapOld(p) \/ PollState(p)
Use(p) == Lock(p) \/ MakeConsistent(p) \/ Unlock(p)
Fail(p) ==
  CreateShmFails(p) \/ CreateFails(p) \/ OpenFails(p) \/ OpenerFails(p) \/ LockFails(p)

Step(p) == Enter(p) \/ Create(p) \/ Open(p) \/ Use(p) \/ Fail(p) \/ ThreadExit(p)

Next == \E p \in Proc : Step(p) \/ Crash(p)

Spec == Init /\ [][Next]_vars

(***************************************************************************)
(* Fairness: the operating system runs every thread, the GPU work of a     *)
(* command ends.  Nothing is assumed of who calls, fails, ends or dies,    *)
(* nor of which waiter gets the mutex (it has no queue).                   *)
(***************************************************************************)
Proceed(p) == Create(p) \/ Open(p) \/ Use(p)
FairSpec == Spec /\ \A p \in Proc : WF_vars(Proceed(p))

-----------------------------------------------------------------------------
(***************************************************************************)
(* Properties                                                              *)
(***************************************************************************)
\* "run only a single GPU kernel at a time" (ScriptCommandImpl.h): two threads are
\* never both past the constructor, whatever creations fail and whoever dies.
MutualExclusion ==
  \A p, q \in Proc : At(p, "cs") /\ At(q, "cs") => p = q

\* "Guard other processes from using mutex until it's initialized": nobody is in
\* pthread_mutex_lock, or past it, on a mutex that is not initialised and published.
LocksInitialisedMutex ==
  \A p \in Proc : pc[p] \in {"lock", "recover", "cs"} =>
    map[p] # NoObj /\ map[p] \in ready /\ state[map[p]] = "Valid"

\* A mutex whose owner died is made consistent before the GPU is used under it: an
\* unlock of an inconsistent mutex would make it unusable for ever.
RecoveredBeforeUse ==
  \A p \in Proc : At(p, "cs") => map[p] \notin orphaned

\* A refused command leaves neither a descriptor nor a mapping behind (every throw
\* of try_create_mutex and try_open_mutex), and a kept procMutex has both.
NoLeak ==
  \A p \in Proc : At(p, "out") =>
    IF p \in procMutex THEN map[p] # NoObj /\ fd[p] = map[p]
                       ELSE map[p] = NoObj /\ fd[p] = NoObj

\* Once published, a mutex is never destroyed and never loses its name: no thread can
\* come to lock another one (err_create_cleanup of a failed creator, timed-out opener).
ValidStaysNamed ==
  [][\A o \in Obj : state[o] = "Valid" => state'[o] = "Valid" /\ shm' = o]_vars

\* The mutex is the abstract lock: it is held exactly in "cs".
phaseOf == [p \in Proc |-> IF At(p, "cs") THEN "running"
                           ELSE IF At(p, "out") THEN "out" ELSE "waiting"]
Lock_ == INSTANCE GpuLock WITH phase <- phaseOf
ImplementsGpuLock == Lock_!Spec

\* Every construction ends, granted or refused, even when the creator died half-way
\* or unlinked the name: the polling loops of try_open_mutex are bounded.
ConstructionEnds ==
  \A p \in Proc : (pc[p] \in ConstructPC) ~> (pc[p] \in {"lock", "out"})

\* From some point on no call fails and nobody dies (a timeout, or finding the name
\* gone, is a step of the code: it may look like the death of the thread).
EventuallyNoFaults == <>[][\A p \in Proc : Fail(p) \/ Crash(p) => Proceed(p)]_vars

\* The name is bound to an object that nobody will ever initialise.
Wedged ==
  /\ shm # NoObj
  /\ state[shm] # "Valid"
  /\ \A p \in Proc : pc[p] \notin CreatorPC

Called == \E p \in Proc : ~At(p, "out")
Granted == \E p \in Proc : At(p, "cs")

\* Threads that keep calling get the GPU again and again once the faults stop, also
\* after owners died in the critical section or between EOWNERDEAD and recovery.
\* The one exception is a wedged name.
GrantedUnlessWedged ==
  EventuallyNoFaults /\ []<>Called /\ []<>~Wedged => []<>Granted

\* The same without the exception: "Treat a previous crash as ok" (comment in
\* ScopedProcessMutex.cpp on WAIT_ABANDONED).
GrantedAfterAnyCrash ==
  EventuallyNoFaults /\ []<>Called => []<>Granted

-----------------------------------------------------------------------------
(***************************************************************************)
(* The inductive invariant: why the properties above hold                  *)
(***************************************************************************)
\* O_EXCL makes the creator unique, and the name stays bound to its unpublished object.
CreatorInv ==
  /\ \A p \in Proc : pc[p] \in CreatorPC => shm # NoObj /\ state[shm] # "Valid"
  /\ \A p \in Proc : pc[p] \in CreatorPC \ {"unlink"} => fd[p] = shm
  /\ \A p, q \in Proc : pc[p] \in CreatorPC /\ pc[q] \in CreatorPC => p = q

\* What a thread has opened and mapped at each point of its construction.
MappingInv ==
  /\ \A p \in Proc : pc[p] \in {"mark", "init", "publish", "poll"} => map[p] = fd[p]
  /\ \A p \in Proc : pc[p] \in OpenerPC => fd[p] # NoObj
  /\ \A p \in Proc : At(p, "publish") => shm \in ready
  /\ \A p \in Proc : pc[p] \in {"truncate", "mapNew", "stat", "mapOld"} => map[p] = NoObj
  /\ \A p \in Proc : pc[p] \in {"create", "open", "unlink"}
                        \/ (At(p, "out") /\ p \notin procMutex)
                      => fd[p] = NoObj /\ map[p] = NoObj

\* A published mutex has the name and is initialised; every kept procMutex maps it.
ValidInv ==
  /\ \A o \in Obj : state[o] = "Valid" => shm = o /\ o \in ready
  /\ \A p \in Proc : p \in procMutex =>
       /\ shm # NoObj
       /\ state[shm] = "Valid"
       /\ fd[p] = shm
       /\ map[p] = shm
       /\ pc[p] \in {"out", "lock", "recover", "cs"}
  /\ \A p \in Proc : pc[p] \in {"lock", "recover", "cs"} => p \in procMutex

\* The owner recorded in a mutex is the thread that is past pthread_mutex_lock on it.
OwnerInv ==
  /\ \A p \in Proc : pc[p] \in {"recover", "cs"} => owner[map[p]] = p
  /\ \A o \in Obj, p \in Proc : owner[o] = p => pc[p] \in {"recover", "cs"} /\ map[p] = o
  /\ RecoveredBeforeUse

MutexInv == TypeOK /\ CreatorInv /\ MappingInv /\ ValidInv /\ OwnerInv
=============================================================================
