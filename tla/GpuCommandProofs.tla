--------------------------- MODULE GpuCommandProofs ---------------------------
(***************************************************************************)
(* That the buffers of a command fit the memory it read, for any number of *)
(* processes, any memory and any commands, and that a command is a user of *)
(* the mutex as GpuLock describes it.                                      *)
(***************************************************************************)
EXTENDS GpuCommand, TLAPS

\* 95 percent of the free memory is no more than the free memory.
LEMMA ShareOfFree ==
  ASSUME NEW n \in Nat
  PROVE  (n * 95) \div 100 \in Nat /\ (n * 95) \div 100 <= n
OBVIOUS

\* What a command asks for is a number: both operands of the minimum are.
LEMMA RequestIsNat ==
  ASSUME TypeOK, NEW p \in Proc
  PROVE  Request(p) \in Nat
<1>1. need[p] \in {0} \cup Needs /\ availMem[p] \in Nat
  BY DEF TypeOK
<1>2. need[p] \in Nat
  <2>1. {0} \cup Needs \subseteq Nat
    BY GpuCommandAssumption
  <2> QED
    BY <1>1, <2>1
<1> QED
  BY <1>1, <1>2 DEF Request

\* No process is inside, and nothing is allocated, at the start.
LEMMA CommandInvInit == Init => CommandInv
BY GpuCommandAssumption
   DEF Init, Lock!Init, CommandInv, TypeOK, LockFollowsCommand, OneInside, AllocationFits,
       BuffersHeld, Inside

\* The mutex lets one process in, so that two are never between their query of the
\* memory and the release of their buffers.
LEMMA OneInsideStep ==
  ASSUME CommandInv, [Next]_vars
  PROVE  OneInside'
<1> USE DEF CommandInv, TypeOK, LockFollowsCommand, OneInside, Inside
<1>1. ASSUME NEW p \in Proc, TakeLock(p)
      PROVE  OneInside'
  BY <1>1 DEF TakeLock, Goto, Lock!Acquire
<1>2. ASSUME NEW p \in Proc, RejectArguments(p) \/ Call(p) \/ LockFails(p) \/ Throw(p)
                               \/ Unlock(p) \/ Die(p)
      PROVE  OneInside'
  BY <1>2 DEF RejectArguments, Call, LockFails, Throw, Unlock, Die, Goto
<1>3. ASSUME NEW p \in Proc, GetCudaInfo(p) \/ AllocateBuffers(p) \/ Filter(p)
      PROVE  OneInside'
  BY <1>3 DEF GetCudaInfo, AllocateBuffers, Filter, Goto
<1>4. CASE UNCHANGED vars
  BY <1>4 DEF vars
<1>5. CASE Over
  BY <1>5 DEF Over, vars
<1> QED
  BY <1>1, <1>2, <1>3, <1>4, <1>5 DEF Next, Step

\* Every action that enters or leaves the inside of execute takes or leaves the mutex.
LEMMA LockFollowsStep ==
  ASSUME CommandInv, [Next]_vars
  PROVE  LockFollowsCommand'
<1> USE DEF CommandInv, TypeOK, LockFollowsCommand, Inside, Goto
<1>1. ASSUME NEW p \in Proc, Call(p)
      PROVE  LockFollowsCommand'
  BY <1>1 DEF Call, Lock!Ask
<1>2. ASSUME NEW p \in Proc, TakeLock(p)
      PROVE  LockFollowsCommand'
  BY <1>2 DEF TakeLock, Lock!Acquire
<1>3. ASSUME NEW p \in Proc, LockFails(p) \/ Throw(p) \/ Unlock(p) \/ Die(p)
      PROVE  LockFollowsCommand'
  BY <1>3 DEF LockFails, Throw, Unlock, Die, Lock!Leave
<1>4. ASSUME NEW p \in Proc, RejectArguments(p) \/ GetCudaInfo(p) \/ AllocateBuffers(p) \/ Filter(p)
      PROVE  LockFollowsCommand'
  BY <1>4 DEF RejectArguments, GetCudaInfo, AllocateBuffers, Filter
<1>5. CASE UNCHANGED vars
  BY <1>5 DEF vars
<1>6. CASE Over
  BY <1>6 DEF Over, vars
<1> QED
  BY <1>1, <1>2, <1>3, <1>4, <1>5, <1>6 DEF Next, Step

\* No action takes a variable out of its type: the memory never becomes negative.
LEMMA TypeStep ==
  ASSUME CommandInv, [Next]_vars
  PROVE  TypeOK'
<1> USE GpuCommandAssumption DEF CommandInv, TypeOK, Inside, Goto
<1>1. ASSUME NEW p \in Proc, RejectArguments(p) \/ Call(p)
      PROVE  TypeOK'
  BY <1>1 DEF RejectArguments, Call, Begin, Lock!Ask
<1>2. ASSUME NEW p \in Proc, LockFails(p) \/ TakeLock(p) \/ Throw(p) \/ Unlock(p)
      PROVE  TypeOK'
  BY <1>2 DEF LockFails, TakeLock, Throw, Unlock, Lock!Leave, Lock!Acquire
<1>3. ASSUME NEW p \in Proc, GetCudaInfo(p)
      PROVE  TypeOK'
  BY <1>3, ShareOfFree DEF GetCudaInfo
<1>4. ASSUME NEW p \in Proc, AllocateBuffers(p)
      PROVE  TypeOK'
  <2>1. Request(p) \in Nat
    BY RequestIsNat
  <2> QED
    BY <1>4, <2>1 DEF AllocateBuffers
<1>5. ASSUME NEW p \in Proc, Filter(p)
      PROVE  TypeOK'
  <2>1. Request(p) \in Nat /\ Request(p) <= held[p]
    BY <1>5, RequestIsNat DEF Filter, BuffersHeld
  <2>2. PICK k \in Leaks : /\ k <= Request(p)
                           /\ held' = [held EXCEPT ![p] = @ - (Request(p) - k)]
                           /\ free' = free + (Request(p) - k)
    BY <1>5 DEF Filter
  <2>3. Request(p) - k \in Nat /\ held[p] - (Request(p) - k) \in Nat
    BY <2>1, <2>2
  <2> QED
    BY <1>5, <2>2, <2>3 DEF Filter
<1>6. ASSUME NEW p \in Proc, Die(p)
      PROVE  TypeOK'
  BY <1>6 DEF Die, Lock!Leave
<1>7. CASE UNCHANGED vars
  BY <1>7 DEF vars
<1>8. CASE Over
  BY <1>8 DEF Over, vars
<1> QED
  BY <1>1, <1>2, <1>3, <1>4, <1>5, <1>6, <1>7, <1>8 DEF Next, Step

\* While a process is between its query and its allocation, only deaths change the free
\* memory, and they add to it: nobody else is inside.
LEMMA MemoryStep ==
  ASSUME CommandInv, [Next]_vars
  PROVE  AllocationFits' /\ BuffersHeld'
<1> USE DEF CommandInv, TypeOK, Inside, Goto, AllocationFits, BuffersHeld, Request
<1>1. ASSUME NEW p \in Proc, RejectArguments(p) \/ LockFails(p) \/ TakeLock(p)
                               \/ Throw(p) \/ Unlock(p)
      PROVE  AllocationFits' /\ BuffersHeld'
  BY <1>1 DEF RejectArguments, LockFails, TakeLock, Throw, Unlock
<1>2. ASSUME NEW p \in Proc, Call(p)
      PROVE  AllocationFits' /\ BuffersHeld'
  BY <1>2 DEF Call
<1>3. ASSUME NEW p \in Proc, GetCudaInfo(p)
      PROVE  AllocationFits' /\ BuffersHeld'
  <2>1. availMem'[p] <= free /\ availMem'[p] \in Nat /\ free' = free
    BY <1>3, ShareOfFree DEF GetCudaInfo
  <2>2. need'[p] = need[p] /\ need[p] \in {0} \cup Needs
    BY <1>3 DEF GetCudaInfo
  <2>3. need[p] \in Nat
    <3>1. {0} \cup Needs \subseteq Nat
      BY GpuCommandAssumption
    <3> QED
      BY <2>2, <3>1
  <2>4. Request(p)' <= free'
    BY <2>1, <2>2, <2>3
  <2>5. \A q \in Proc : q # p => /\ Request(q)' = Request(q)
                                 /\ pc'[q] = pc[q] /\ held'[q] = held[q]
    BY <1>3 DEF GetCudaInfo
  <2>6. pc'[p] = "malloc"
    BY <1>3 DEF GetCudaInfo
  <2> HIDE DEF Request
  <2> QED
    BY <2>1, <2>4, <2>5, <2>6
<1> HIDE DEF Request
<1>9. ASSUME NEW q \in Proc
      PROVE  Request(q) \in Nat /\ (UNCHANGED <<need, availMem>> => Request(q)' = Request(q))
  BY RequestIsNat DEF Request
<1>4. ASSUME NEW p \in Proc, AllocateBuffers(p)
      PROVE  AllocationFits' /\ BuffersHeld'
  <2>1. \A q \in Proc : Request(q)' = Request(q) /\ Request(q) \in Nat
    BY <1>4, <1>9 DEF AllocateBuffers
  <2>2. AllocationFits'
    BY <1>4, <2>1 DEF AllocateBuffers, OneInside
  <2>3. BuffersHeld'
    BY <1>4, <2>1 DEF AllocateBuffers, OneInside
  <2> QED
    BY <2>2, <2>3
<1>5. ASSUME NEW p \in Proc, Filter(p)
      PROVE  AllocationFits' /\ BuffersHeld'
  <2>1. \A q \in Proc : Request(q)' = Request(q) /\ Request(q) \in Nat
    BY <1>5, <1>9 DEF Filter
  <2>2. \A q \in Proc : pc'[q] \notin {"malloc", "filter"}
    BY <1>5 DEF Filter, OneInside
  <2> QED
    BY <2>2
<1>6. ASSUME NEW p \in Proc, Die(p)
      PROVE  AllocationFits' /\ BuffersHeld'
  <2>1. \A q \in Proc : Request(q)' = Request(q) /\ Request(q) \in Nat
    BY <1>6, <1>9 DEF Die
  <2>2. free' >= free /\ free' \in Nat
    BY <1>6 DEF Die
  <2>3. \A q \in Proc : pc'[q] \in {"malloc", "filter"} => q # p /\ pc'[q] = pc[q] /\ held'[q] = held[q]
    BY <1>6 DEF Die
  <2> QED
    BY <2>1, <2>2, <2>3
<1>7. CASE UNCHANGED vars
  BY <1>7 DEF vars, Request
<1>8. CASE Over
  BY <1>8 DEF Over, vars, Request
<1> QED
  BY <1>1, <1>2, <1>3, <1>4, <1>5, <1>6, <1>7, <1>8 DEF Next, Step

\* The invariant holds in every state of every behaviour.
THEOREM CommandInvariant == Spec => []CommandInv
<1>1. CommandInv /\ [Next]_vars => CommandInv'
  BY TypeStep, LockFollowsStep, OneInsideStep, MemoryStep DEF CommandInv
<1> QED
  BY CommandInvInit, <1>1, PTL DEF Spec

\* No process holds the mutex when it has returned from execute, by an exception or not.
THEOREM LockFollowsCommandHolds == Spec => []LockFollowsCommand
<1>1. CommandInv => LockFollowsCommand
  BY DEF CommandInv
<1> QED
  BY CommandInvariant, <1>1, PTL

\* cudaMalloc is never asked for more than is free.
THEOREM AllocationFitsHolds == Spec => []AllocationFits
<1>1. CommandInv => AllocationFits
  BY DEF CommandInv
<1> QED
  BY CommandInvariant, <1>1, PTL
\* The largest leak is one of them, and a call more leaks at most that.
LEMMA LeakSteps ==
  /\ LargestLeak \in Nat /\ \A k \in Leaks : k <= LargestLeak
  /\ \A n \in Nat : /\ n * LargestLeak \in Nat
                    /\ (n + 1 - 1) * LargestLeak = n * LargestLeak
                    /\ n > 0 => (n - 1) * LargestLeak + LargestLeak = n * LargestLeak
                    /\ n > 0 => (n - 1) * LargestLeak <= n * LargestLeak
                    /\ n * LargestLeak <= (n + 1) * LargestLeak
                    /\ n > 0 => (n - 1) * LargestLeak \in Nat
<1>1. LargestLeak \in Leaks /\ \A k \in Leaks : k <= LargestLeak
  BY GpuCommandAssumption DEF LargestLeak
<1>2. LargestLeak \in Nat
  BY <1>1, GpuCommandAssumption
<1> QED
  BY <1>1, <1>2

\* A command adds to what its process holds at most what it leaks, when it ends.
LEMMA LeaksStep ==
  ASSUME CommandInv, LeaksInv, [Next]_vars
  PROVE  LeaksInv'
<1> DEFINE Held(p) ==
      /\ pc[p] = "idle" => held[p] <= calls[p] * LargestLeak
      /\ pc[p] \in {"lock", "type", "malloc"} =>
           calls[p] > 0 /\ held[p] <= (calls[p] - 1) * LargestLeak
      /\ pc[p] = "filter" =>
           calls[p] > 0 /\ held[p] <= (calls[p] - 1) * LargestLeak + Request(p)
      /\ pc[p] = "unlock" => held[p] <= calls[p] * LargestLeak
      /\ pc[p] = "dead" => held[p] = 0
<1>1. \A q \in Proc : /\ Held(q) /\ Request(q) \in Nat /\ calls[q] \in Nat /\ held[q] \in Nat
                      /\ pc[q] \in {"idle", "lock", "dead"} \cup Inside
  BY RequestIsNat, GpuCommandAssumption DEF LeaksInv, CommandInv, TypeOK
<1>2. /\ pc \in [Proc -> {"idle", "lock", "dead"} \cup Inside] /\ calls \in [Proc -> 0 .. CallLimit]
      /\ held \in [Proc -> Nat] /\ need \in [Proc -> {0} \cup Needs]
      /\ availMem \in [Proc -> Nat]
  BY DEF CommandInv, TypeOK
<1>3. SUFFICES \A q \in Proc : Held(q)'
  BY DEF LeaksInv
<1>4. ASSUME NEW q \in Proc, pc'[q] = pc[q], calls'[q] = calls[q], held'[q] = held[q],
             need'[q] = need[q], availMem'[q] = availMem[q]
      PROVE  Held(q)'
  <2>1. Request(q)' = Request(q)
    BY <1>4 DEF Request
  <2> QED
    BY <1>1, <1>4, <2>1
<1>5. ASSUME NEW p \in Proc, RejectArguments(p)
      PROVE  \A q \in Proc : Held(q)'
  <2>1. Held(p)'
    <3>1. pc'[p] = "idle" /\ calls'[p] = calls[p] + 1 /\ held'[p] = held[p]
      BY <1>2, <1>5 DEF RejectArguments, Begin
    <3> QED
      BY <1>1, <1>5, <3>1, LeakSteps DEF RejectArguments
  <2> QED
    BY <1>2, <1>4, <1>5, <2>1 DEF RejectArguments, Begin
<1>6. ASSUME NEW p \in Proc, Call(p)
      PROVE  \A q \in Proc : Held(q)'
  <2>1. Held(p)'
    <3>1. /\ pc[p] = "idle" /\ pc'[p] = "lock" /\ calls'[p] = calls[p] + 1 /\ held'[p] = held[p]
      BY <1>2, <1>6 DEF Call, Begin, Goto
    <3> QED
      BY <1>1, <3>1, LeakSteps
  <2> QED
    BY <1>2, <1>4, <1>6, <2>1 DEF Call, Begin, Goto
<1>7. ASSUME NEW p \in Proc, LockFails(p) \/ Throw(p)
      PROVE  \A q \in Proc : Held(q)'
  <2>1. Held(p)'
    <3>1. /\ pc[p] \in {"lock", "type"} /\ pc'[p] = "idle" /\ calls'[p] = calls[p]
          /\ held'[p] = held[p]
      BY <1>2, <1>7 DEF LockFails, Throw, Goto
    <3> QED
      BY <1>1, <3>1, LeakSteps
  <2> QED
    BY <1>2, <1>4, <1>7, <2>1 DEF LockFails, Throw, Goto
<1>8. ASSUME NEW p \in Proc, TakeLock(p) \/ GetCudaInfo(p)
      PROVE  \A q \in Proc : Held(q)'
  <2>1. Held(p)'
    <3>1. /\ pc[p] \in {"lock", "type"} /\ pc'[p] \in {"type", "malloc"} /\ calls'[p] = calls[p]
          /\ held'[p] = held[p]
      BY <1>2, <1>8 DEF TakeLock, GetCudaInfo, Goto
    <3> QED
      BY <1>1, <3>1
  <2> QED
    BY <1>2, <1>4, <1>8, <2>1 DEF TakeLock, GetCudaInfo, Goto
<1>9. ASSUME NEW p \in Proc, AllocateBuffers(p)
      PROVE  \A q \in Proc : Held(q)'
  <2>1. Held(p)'
    <3>1. /\ pc[p] = "malloc" /\ pc'[p] = "filter" /\ calls'[p] = calls[p]
          /\ held'[p] = held[p] + Request(p) /\ Request(p)' = Request(p)
      BY <1>2, <1>9 DEF AllocateBuffers, Goto, Request
    <3> DEFINE spent == (calls[p] - 1) * LargestLeak
    <3>2. calls[p] > 0 /\ held[p] <= spent /\ spent \in Nat
      BY <1>1, <3>1, LeakSteps
    <3> HIDE DEF spent
    <3>3. held'[p] <= spent + Request(p)
      BY <1>1, <3>1, <3>2
    <3> QED
      BY <3>1, <3>2, <3>3 DEF spent
  <2> QED
    BY <1>2, <1>4, <1>9, <2>1 DEF AllocateBuffers, Goto
<1>10. ASSUME NEW p \in Proc, Filter(p)
       PROVE  \A q \in Proc : Held(q)'
  <2>1. PICK k \in Leaks : /\ k <= Request(p)
                           /\ held' = [held EXCEPT ![p] = @ - (Request(p) - k)]
    BY <1>10 DEF Filter
  <2>2. Held(p)'
    <3>1. /\ pc[p] = "filter" /\ pc'[p] = "unlock" /\ calls'[p] = calls[p]
          /\ held'[p] = held[p] - (Request(p) - k)
      BY <1>2, <1>10, <2>1 DEF Filter, Goto
    <3>2. k \in Nat /\ k <= LargestLeak
      BY LeakSteps, GpuCommandAssumption
    <3> QED
      BY <1>1, <3>1, <3>2, LeakSteps
  <2> QED
    BY <1>2, <1>4, <1>10, <2>1, <2>2 DEF Filter, Goto
<1>11. ASSUME NEW p \in Proc, Unlock(p) \/ Die(p)
       PROVE  \A q \in Proc : Held(q)'
  <2>1. Held(p)'
    <3>1. /\ calls'[p] = calls[p]
          /\ \/ pc[p] = "unlock" /\ pc'[p] = "idle" /\ held'[p] = held[p]
             \/ pc'[p] = "dead" /\ held'[p] = 0
      BY <1>2, <1>11 DEF Unlock, Die, Goto
    <3> QED
      BY <1>1, <3>1
  <2> QED
    BY <1>2, <1>4, <1>11, <2>1 DEF Unlock, Die, Goto
<1>12. CASE UNCHANGED vars
  BY <1>4, <1>12 DEF vars
<1>13. CASE Over
  BY <1>4, <1>13 DEF Over, vars
<1> QED
  BY <1>5, <1>6, <1>7, <1>8, <1>9, <1>10, <1>11, <1>12, <1>13 DEF Next, Step

\* Between its calls a process holds no more device memory than its commands leaked, and
\* none when it is dead.
THEOREM OnlyLeaksHeldHolds == Spec => []OnlyLeaksHeld
<1>1. Init => LeaksInv
  <2>1. 0 <= 0 * LargestLeak
    BY LeakSteps
  <2> QED
    BY <2>1 DEF Init, LeaksInv
<1>2. LeaksInv /\ CommandInv => OnlyLeaksHeld
  <2> SUFFICES ASSUME LeaksInv, CommandInv, NEW p \in Proc
               PROVE  /\ pc[p] \in {"idle", "lock", "type", "malloc"} =>
                           held[p] <= calls[p] * LargestLeak
                      /\ pc[p] = "dead" => held[p] = 0
    BY DEF OnlyLeaksHeld
  <2>1. calls[p] \in Nat /\ held[p] \in Nat
    BY GpuCommandAssumption DEF CommandInv, TypeOK
  <2>2. /\ calls[p] * LargestLeak \in Nat
        /\ calls[p] > 0 => /\ (calls[p] - 1) * LargestLeak \in Nat
                           /\ (calls[p] - 1) * LargestLeak <= calls[p] * LargestLeak
    BY <2>1, LeakSteps
  <2>3. /\ pc[p] = "idle" => held[p] <= calls[p] * LargestLeak
        /\ pc[p] \in {"lock", "type", "malloc"} =>
             calls[p] > 0 /\ held[p] <= (calls[p] - 1) * LargestLeak
        /\ pc[p] = "dead" => held[p] = 0
    BY DEF LeaksInv
  <2> QED
    BY <2>1, <2>2, <2>3
<1>3. CommandInv /\ LeaksInv /\ [Next]_vars => LeaksInv'
  BY LeaksStep
<1> QED
  BY CommandInvariant, <1>1, <1>2, <1>3, PTL DEF Spec
=============================================================================
