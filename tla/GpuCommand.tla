------------------------------ MODULE GpuCommand ------------------------------
(***************************************************************************)
(* A script command from the call to its return (convert_dispatch and      *)
(* execute in ScriptCommandImpl.h), in several processes that share one    *)
(* device: the command takes the process mutex, reads how much memory is   *)
(* free (CudaDevices), sizes its buffers by it and allocates them.  The    *)
(* mutex is what GpuLock promises; ProcessMutex shows that the code keeps  *)
(* the promise, and ChunkedFilter is what happens while the buffers are    *)
(* held.                                                                   *)
(***************************************************************************)
EXTENDS Integers

CONSTANTS
  Proc,           \* the processes, one script thread each
  TotalMem,       \* device memory
  Needs,          \* what commands would allocate if the memory had no end
  Leaks,          \* of what it allocates, what a command leaves: 0, or a kernel (cNLMeans)
  CallLimit       \* bound: calls a process makes

ASSUME GpuCommandAssumption ==
  /\ TotalMem \in Nat
  /\ Needs \subseteq Nat
  /\ Leaks \subseteq Nat /\ \E k \in Leaks : \A j \in Leaks : j <= k
  /\ CallLimit \in Nat

VARIABLES
  phase,          \* the mutex, see GpuLock
  pc,             \* "idle", "lock", "type", "malloc", "filter", "unlock", "dead"
  calls,          \* calls begun so far
  need,           \* what the command in progress would allocate
  availMem,       \* CudaDevices::availMem of the command
  held,           \* device memory of the process
  free            \* what cudaMemGetInfo reports

vars == <<phase, pc, calls, need, availMem, held, free>>

Lock == INSTANCE GpuLock

Init ==
  /\ Lock!Init
  /\ pc = [p \in Proc |-> "idle"]
  /\ calls = [p \in Proc |-> 0]
  /\ need = [p \in Proc |-> 0]
  /\ availMem = [p \in Proc |-> 0]
  /\ held = [p \in Proc |-> 0]
  /\ free = TotalMem

Goto(p, where) == pc' = [pc EXCEPT ![p] = where]
Begin(p) == calls[p] < CallLimit /\ calls' = [calls EXCEPT ![p] = @ + 1]

\* The arguments do not convert: ArgError before execute is reached.
RejectArguments(p) ==
  /\ pc[p] = "idle"
  /\ Begin(p)
  /\ UNCHANGED <<phase, pc, need, availMem, held, free>>

\* execute: SCOPED_PROCESS_MUTEX is constructed.
Call(p) ==
  /\ pc[p] = "idle"
  /\ Begin(p)
  /\ Lock!Ask(p)
  /\ \E n \in Needs : need' = [need EXCEPT ![p] = n]
  /\ Goto(p, "lock")
  /\ UNCHANGED <<availMem, held, free>>

\* The mutex could not be made, opened or locked: "Internal error: ...".
LockFails(p) ==
  /\ pc[p] = "lock"
  /\ Lock!Leave(p)
  /\ Goto(p, "idle")
  /\ UNCHANGED <<calls, need, availMem, held, free>>

\* What-if: built without USE_PROCESS_MUTEX, the macro is empty.
NoProcessMutex(p) ==
  /\ pc[p] = "lock"
  /\ phase' = [phase EXCEPT ![p] = "running"]
  /\ Goto(p, "type")
  /\ UNCHANGED <<calls, need, availMem, held, free>>

TakeLock(p) ==
  /\ pc[p] = "lock"
  /\ Lock!Acquire(p)
  /\ Goto(p, "type")
  /\ UNCHANGED <<calls, need, availMem, held, free>>

\* What-if: the mutex is not released by an exception.
ThrowKeepsLock(p) ==
  /\ pc[p] = "type"
  /\ Goto(p, "idle")
  /\ UNCHANGED <<phase, calls, need, availMem, held, free>>

\* An exception before the parallel region (no such image type, a failed query, no host
\* memory): the mutex's destructor releases it and the caller gets a message.
Throw(p) ==
  /\ pc[p] = "type"
  /\ Lock!Leave(p)
  /\ Goto(p, "idle")
  /\ UNCHANGED <<calls, need, availMem, held, free>>

\* CudaDevices: cudaMemGetInfo, times MAX_MEM_AVAIL.
GetCudaInfo(p) ==
  /\ pc[p] = "type"
  /\ availMem' = [availMem EXCEPT ![p] = (free * 95) \div 100]
  /\ Goto(p, "malloc")
  /\ UNCHANGED <<phase, calls, need, held, free>>

\* What the chunks are cut to: the whole image if it fits availMem.
Request(p) == IF need[p] < availMem[p] THEN need[p] ELSE availMem[p]

\* CudaDeviceImages: the buffers, sized by the memory that was free a while ago.
AllocateBuffers(p) ==
  /\ pc[p] = "malloc"
  /\ Request(p) <= free
  /\ free' = free - Request(p)
  /\ held' = [held EXCEPT ![p] = @ + Request(p)]
  /\ Goto(p, "filter")
  /\ UNCHANGED <<phase, calls, need, availMem>>

\* What-if: the buffers are not released with the region.
FilterKeepsBuffers(p) ==
  /\ pc[p] = "filter"
  /\ Goto(p, "unlock")
  /\ UNCHANGED <<phase, calls, need, availMem, held, free>>

\* The chunks are filtered and the buffers released, but for what the command leaks.
Filter(p) ==
  /\ pc[p] = "filter"
  /\ \E k \in Leaks :
       /\ k <= Request(p)
       /\ held' = [held EXCEPT ![p] = @ - (Request(p) - k)]
       /\ free' = free + (Request(p) - k)
  /\ Goto(p, "unlock")
  /\ UNCHANGED <<phase, calls, need, availMem>>

\* The end of execute: ~ScopedProcessMutex; the output is handed over.
Unlock(p) ==
  /\ pc[p] = "unlock"
  /\ Lock!Leave(p)
  /\ Goto(p, "idle")
  /\ UNCHANGED <<calls, need, availMem, held, free>>

\* The process dies (a signal, or an exception inside the parallel region): the mutex is
\* robust, and the driver takes its memory back.
Die(p) ==
  /\ pc[p] \in {"lock", "type", "malloc", "filter", "unlock"}
  /\ Lock!Leave(p)
  /\ free' = free + held[p]
  /\ held' = [held EXCEPT ![p] = 0]
  /\ Goto(p, "dead")
  /\ UNCHANGED <<calls, need, availMem>>

Step(p) ==
  \/ LockFails(p) \/ TakeLock(p) \/ Throw(p) \/ GetCudaInfo(p)
  \/ AllocateBuffers(p) \/ Filter(p) \/ Unlock(p)

Over == (\A p \in Proc : pc[p] = "dead" \/ (pc[p] = "idle" /\ calls[p] = CallLimit)) /\ UNCHANGED vars

Next ==
  \/ \E p \in Proc : RejectArguments(p) \/ Call(p) \/ Step(p) \/ Die(p)
  \/ Over

Spec == Init /\ [][Next]_vars

\* A call that can go on does, once it has the mutex or can have it; nobody has to call,
\* to fail or to die.
Proceed(p) ==
  TakeLock(p) \/ GetCudaInfo(p) \/ AllocateBuffers(p) \/ Filter(p) \/ Unlock(p)
FairSpec == Spec /\ \A p \in Proc : WF_vars(Proceed(p))

-----------------------------------------------------------------------------
(***************************************************************************)
(* Properties                                                              *)
(***************************************************************************)
Inside == {"type", "malloc", "filter", "unlock"}

TypeOK ==
  /\ phase \in [Proc -> {"out", "waiting", "running"}]
  /\ pc \in [Proc -> {"idle", "lock", "dead"} \cup Inside]
  /\ calls \in [Proc -> 0 .. CallLimit]
  /\ need \in [Proc -> {0} \cup Needs]
  /\ availMem \in [Proc -> Nat]
  /\ held \in [Proc -> Nat]
  /\ free \in Nat

\* The mutex follows the program: it is held exactly by who is inside execute, and by
\* nobody who has returned, by an exception or not, or has died.
LockFollowsCommand ==
  \A p \in Proc : /\ phase[p] = "running" <=> pc[p] \in Inside
                  /\ phase[p] = "waiting" <=> pc[p] = "lock"

OneInside == \A p, q \in Proc : pc[p] \in Inside /\ pc[q] \in Inside => p = q

\* The memory that was free when the buffers were sized is still free when they are
\* allocated: no other process allocates in between.
AllocationFits == \A p \in Proc : pc[p] = "malloc" => Request(p) <= free

\* A process holds its buffers until it gives them back or dies.
BuffersHeld == \A p \in Proc : pc[p] = "filter" => held[p] >= Request(p)

\* What TLAPS proves AllocationFits from.
CommandInv == TypeOK /\ LockFollowsCommand /\ OneInside /\ AllocationFits /\ BuffersHeld

\* A call ends, with an answer or the death of the process, once the others stop calling.
CallEnds == \A p \in Proc : pc[p] \in {"lock"} \cup Inside ~> pc[p] \in {"idle", "dead"}

\* What a process holds between its calls is what its commands leaked, at most a kernel
\* each: no path through a command keeps the buffers, and a dead process keeps nothing.
LargestLeak == CHOOSE k \in Leaks : \A j \in Leaks : j <= k
OnlyLeaksHeld ==
  \A p \in Proc :
    /\ pc[p] \in {"idle", "lock", "type", "malloc"} => held[p] <= calls[p] * LargestLeak
    /\ pc[p] = "dead" => held[p] = 0

\* What TLAPS proves OnlyLeaksHeld from: a command under way has leaked nothing yet.
LeaksInv ==
  \A p \in Proc :
    /\ pc[p] = "idle" => held[p] <= calls[p] * LargestLeak
    /\ pc[p] \in {"lock", "type", "malloc"} =>
         calls[p] > 0 /\ held[p] <= (calls[p] - 1) * LargestLeak
    /\ pc[p] = "filter" =>
         calls[p] > 0 /\ held[p] <= (calls[p] - 1) * LargestLeak + Request(p)
    /\ pc[p] = "unlock" => held[p] <= calls[p] * LargestLeak
    /\ pc[p] = "dead" => held[p] = 0
=============================================================================
