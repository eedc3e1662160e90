-------------------------------- MODULE Median --------------------------------
(***************************************************************************)
(* cudaMedianFilter (CudaMedianFilter.cuh) on one block of threads: each   *)
(* copies the neighbours of its voxel that have a weight to its own part   *)
(* of the shared memory and selects the middle one in place, by division   *)
(* around a pivot.  Nothing but the arithmetic of the offsets keeps the    *)
(* parts of the threads apart.                                             *)
(*                                                                         *)
(* The image is a line, the kernel has an odd extent and weights of zero   *)
(* or one.                                                                 *)
(***************************************************************************)
EXTENDS Integers, FiniteSets

CONSTANT
  MedianCalls     \* [image, length, weighted, radius, threads, block]

MedianCall(c) ==
  /\ c.length \in Nat \ {0} /\ c.image \in [0 .. c.length - 1 -> Int]
  /\ c.radius \in Nat /\ c.weighted \in [0 .. 2 * c.radius -> BOOLEAN]
  /\ c.threads \in Nat \ {0}
  /\ c.block \in Nat

ASSUME MedianAssumption == \A c \in MedianCalls : MedianCall(c)

VARIABLES
  call,           \* the launch and the block of it
  at,             \* thread -> "gather", "select", "divide", "write", "done", "undefined"
  iterator,       \* thread -> kIt
  kernelVolume,   \* thread -> the neighbours it has copied
  pB, pE, k,      \* thread -> what SelectElement looks through, and for
  b, e,           \* thread -> pB and pE of SubDivide
  vals,           \* the shared memory of the block
  medianOut       \* thread -> imageOut at its voxel

medianVars == <<call, at, iterator, kernelVolume, pB, pE, k, b, e, vals, medianOut>>

KernelDims1 == 2 * call.radius + 1
Lane == 0 .. call.threads - 1
threadCoordinate(t) == call.block * call.threads + t

\* KernelIterator along a line
kernelStartIdx(v) == IF v < call.radius THEN call.radius - v ELSE 0
kernelEndIdx(v) ==
  IF v + call.radius > call.length - 1
  THEN 2 * call.radius - (v + call.radius - (call.length - 1)) ELSE 2 * call.radius
Neighbour(v, j) == call.image[v - call.radius + j]

\* What-if: the parts are one element too small for the kernel.
OffsetOneShort(t) == t * (KernelDims1 - 1)
\* linearThreadIdx*constKernelMem.getDims().product()
sharedMemOffset(t) == t * KernelDims1

\* Shared memory is not initialised.
Uninitialised == 0

MedianInit ==
  /\ call \in MedianCalls
  /\ at = [t \in Lane |-> IF threadCoordinate(t) < call.length THEN "gather" ELSE "done"]
  /\ iterator = [t \in Lane |-> kernelStartIdx(threadCoordinate(t))]
  /\ kernelVolume = [t \in Lane |-> 0]
  /\ pB = [t \in Lane |-> 0] /\ pE = [t \in Lane |-> 0] /\ k = [t \in Lane |-> 0]
  /\ b = [t \in Lane |-> 0] /\ e = [t \in Lane |-> 0]
  /\ vals = [i \in 0 .. call.threads * KernelDims1 - 1 |-> Uninitialised]
  /\ medianOut = [t \in Lane |-> Uninitialised]

Swapped(i, j) == [vals EXCEPT ![i] = vals[j], ![j] = vals[i]]

\* One turn of the loop over the neighbourhood.
Gather(t) ==
  /\ at[t] = "gather"
  /\ LET v == threadCoordinate(t)
         j == iterator[t]
     IN /\ j <= kernelEndIdx(v)
        /\ IF call.weighted[j]
           THEN /\ vals' = [vals EXCEPT ![sharedMemOffset(t) + kernelVolume[t]] = Neighbour(v, j)]
                /\ kernelVolume' = [kernelVolume EXCEPT ![t] = @ + 1]
           ELSE UNCHANGED <<vals, kernelVolume>>
        /\ iterator' = [iterator EXCEPT ![t] = @ + 1]
  /\ UNCHANGED <<call, at, pB, pE, k, b, e, medianOut>>

\* SelectElement(vals, vals + numVals, numVals / 2)
FindMedian(t) ==
  /\ at[t] = "gather"
  /\ iterator[t] > kernelEndIdx(threadCoordinate(t))
  /\ pB' = [pB EXCEPT ![t] = sharedMemOffset(t)]
  /\ pE' = [pE EXCEPT ![t] = sharedMemOffset(t) + kernelVolume[t]]
  /\ k' = [k EXCEPT ![t] = kernelVolume[t] \div 2]
  /\ at' = [at EXCEPT ![t] = "select"]
  /\ UNCHANGED <<call, iterator, kernelVolume, b, e, vals, medianOut>>

\* SubDivide begins with the last element for its pivot.  When there is none it reads
\* what is before the thread's part, and goes on from there.
SubDivide(t) ==
  /\ at[t] = "select"
  /\ IF pB[t] = pE[t]
     THEN at' = [at EXCEPT ![t] = "undefined"] /\ UNCHANGED <<b, e>>
     ELSE /\ b' = [b EXCEPT ![t] = pB[t]]
          /\ e' = [e EXCEPT ![t] = pE[t] - 1]
          /\ at' = [at EXCEPT ![t] = "divide"]
  /\ UNCHANGED <<call, iterator, kernelVolume, pB, pE, k, vals, medianOut>>

\* One turn of while (pB < pE).
Divide(t) ==
  /\ at[t] = "divide"
  /\ b[t] < e[t]
  /\ IF vals[b[t]] > vals[pE[t] - 1]
     THEN /\ e' = [e EXCEPT ![t] = @ - 1]
          /\ vals' = Swapped(b[t], e[t] - 1)
          /\ UNCHANGED b
     ELSE b' = [b EXCEPT ![t] = @ + 1] /\ UNCHANGED <<e, vals>>
  /\ UNCHANGED <<call, at, iterator, kernelVolume, pB, pE, k, medianOut>>

\* What-if: the pivot is looked through again.
GoOnWithPivot(t) ==
  LET n == e[t] - pB[t]
  IN \/ n = k[t] /\ at' = [at EXCEPT ![t] = "write"]
                  /\ UNCHANGED <<pB, pE, k>>
     \/ n > k[t] /\ pE' = [pE EXCEPT ![t] = e[t] + 1]
                  /\ at' = [at EXCEPT ![t] = "select"] /\ UNCHANGED <<pB, k>>
     \/ n < k[t] /\ pB' = [pB EXCEPT ![t] = e[t] + 1]
                  /\ k' = [k EXCEPT ![t] = @ - (n + 1)]
                  /\ at' = [at EXCEPT ![t] = "select"] /\ UNCHANGED pE

\* What-if: the elements passed over are counted without the pivot.
GoOnMiscounted(t) ==
  LET n == e[t] - pB[t]
  IN \/ n = k[t] /\ at' = [at EXCEPT ![t] = "write"]
                  /\ UNCHANGED <<pB, pE, k>>
     \/ n > k[t] /\ pE' = [pE EXCEPT ![t] = e[t]]
                  /\ at' = [at EXCEPT ![t] = "select"] /\ UNCHANGED <<pB, k>>
     \/ n < k[t] /\ pB' = [pB EXCEPT ![t] = e[t] + 1]
                  /\ k' = [k EXCEPT ![t] = @ - n]
                  /\ at' = [at EXCEPT ![t] = "select"] /\ UNCHANGED pE

\* The pivot is at e; the element looked for is it, before it or after it.
GoOn(t) ==
  LET n == e[t] - pB[t]
  IN \/ n = k[t] /\ at' = [at EXCEPT ![t] = "write"]
                  /\ UNCHANGED <<pB, pE, k>>
     \/ n > k[t] /\ pE' = [pE EXCEPT ![t] = e[t]]
                  /\ at' = [at EXCEPT ![t] = "select"] /\ UNCHANGED <<pB, k>>
     \/ n < k[t] /\ pB' = [pB EXCEPT ![t] = e[t] + 1]
                  /\ k' = [k EXCEPT ![t] = @ - (n + 1)]
                  /\ at' = [at EXCEPT ![t] = "select"] /\ UNCHANGED pE

\* The pivot goes between the two parts.
PlacePivot(t) ==
  /\ at[t] = "divide"
  /\ b[t] >= e[t]
  /\ vals' = Swapped(pE[t] - 1, e[t])
  /\ GoOn(t)
  /\ UNCHANGED <<call, iterator, kernelVolume, b, e, medianOut>>

\* return vals[numVals / 2]
WriteMedian(t) ==
  /\ at[t] = "write"
  /\ medianOut' = [medianOut EXCEPT ![t] = vals[sharedMemOffset(t) + kernelVolume[t] \div 2]]
  /\ at' = [at EXCEPT ![t] = "done"]
  /\ UNCHANGED <<call, iterator, kernelVolume, pB, pE, k, b, e, vals>>

Step(t) ==
  Gather(t) \/ FindMedian(t) \/ SubDivide(t) \/ Divide(t) \/ PlacePivot(t) \/ WriteMedian(t)

MedianNext == \E t \in Lane : Step(t)

MedianSpec == MedianInit /\ [][MedianNext]_medianVars

-----------------------------------------------------------------------------
(***************************************************************************)
(* Properties                                                              *)
(***************************************************************************)
\* The weighted neighbours of a voxel, by their place in the kernel.
Weighted(v) == {j \in kernelStartIdx(v) .. kernelEndIdx(v) : call.weighted[j]}

\* The part of the shared memory that is a thread's, and what it has filled of it.
First(t) == t * KernelDims1
End(t) == First(t) + kernelVolume[t]
Middle(t) == First(t) + kernelVolume[t] \div 2
Part(t) == First(t) .. First(t) + KernelDims1 - 1

\* While a thread copies, it has copied no more than it has looked at.
Gathering(t) ==
  LET v == threadCoordinate(t)
  IN /\ v < call.length
     /\ iterator[t] \in kernelStartIdx(v) .. kernelEndIdx(v) + 1
     /\ kernelVolume[t] <= iterator[t] - kernelStartIdx(v)

\* The middle is between pB and pE, what is before pB is no larger than what is after it,
\* and what is from pE on no smaller than what is before it.
Selecting(t) ==
  /\ First(t) <= pB[t] /\ pB[t] <= pE[t] /\ pE[t] <= End(t)
  /\ 0 <= k[t] /\ pB[t] + k[t] = Middle(t)
  /\ kernelVolume[t] > 0 => pB[t] + k[t] < pE[t]
  /\ \A i \in First(t) .. pB[t] - 1, j \in pB[t] .. End(t) - 1 : vals[i] <= vals[j]
  /\ \A i \in First(t) .. pE[t] - 1, j \in pE[t] .. End(t) - 1 : vals[i] <= vals[j]

\* Between pB and b nothing is larger than the pivot, from e on everything is.
Dividing(t) ==
  /\ kernelVolume[t] > 0
  /\ pB[t] <= b[t] /\ b[t] <= e[t] /\ e[t] <= pE[t] - 1
  /\ \A i \in pB[t] .. b[t] - 1 : vals[i] <= vals[pE[t] - 1]
  /\ \A i \in e[t] .. pE[t] - 2 : vals[i] > vals[pE[t] - 1]

\* The middle element is in its place.
Selected(t) ==
  /\ kernelVolume[t] > 0
  /\ \A i \in First(t) .. Middle(t) - 1 : vals[i] <= vals[Middle(t)]
  /\ \A i \in Middle(t) + 1 .. End(t) - 1 : vals[Middle(t)] <= vals[i]

MedianTypeOK ==
  /\ MedianCall(call)
  /\ at \in [Lane -> {"gather", "select", "divide", "write", "done", "undefined"}]
  /\ kernelVolume \in [Lane -> 0 .. KernelDims1]
  /\ iterator \in [Lane -> Int]
  /\ pB \in [Lane -> Int] /\ pE \in [Lane -> Int] /\ k \in [Lane -> Int]
  /\ b \in [Lane -> Int] /\ e \in [Lane -> Int]
  /\ vals \in [0 .. call.threads * KernelDims1 - 1 -> Int]
  /\ medianOut \in [Lane -> Int]

LaneInv(t) ==
  /\ at[t] = "gather" => Gathering(t)
  /\ at[t] \in {"select", "divide", "write"} => Selecting(t)
  /\ at[t] = "divide" => Dividing(t)
  /\ at[t] = "write" => Selected(t)
  /\ at[t] = "done" /\ threadCoordinate(t) < call.length =>
       Selected(t) /\ medianOut[t] = vals[Middle(t)]
  /\ at[t] = "undefined" => kernelVolume[t] = 0

\* The selection of every thread is where it should be at every moment, whatever the
\* others do, and what a thread has written stands in the middle of its part, with nothing
\* larger before it and nothing smaller after it: the inductive invariant of the kernel.
SelectionInv == MedianTypeOK /\ \A t \in Lane : LaneInv(t)

\* The value a thread writes is the middle one of the weighted neighbours of its voxel,
\* the upper one of two, whatever the other threads of the block do meanwhile.
MedianRight ==
  \A t \in Lane :
    LET v == threadCoordinate(t)
        h == Cardinality(Weighted(v)) \div 2
    IN at[t] = "done" /\ v < call.length =>
         /\ Cardinality({j \in Weighted(v) : Neighbour(v, j) < medianOut[t]}) <= h
         /\ Cardinality({j \in Weighted(v) : Neighbour(v, j) <= medianOut[t]}) > h

\* The places a thread's next step reads or writes.
Touched(t) ==
  CASE at[t] = "gather" -> IF iterator[t] <= kernelEndIdx(threadCoordinate(t))
                           THEN {sharedMemOffset(t) + kernelVolume[t]} ELSE {}
    [] at[t] = "divide" -> IF b[t] < e[t] THEN {b[t], e[t] - 1, pE[t] - 1} ELSE {e[t], pE[t] - 1}
    [] at[t] = "write" -> {sharedMemOffset(t) + kernelVolume[t] \div 2}
    [] OTHER -> {}

\* A thread stays within its own part of the shared memory, and leaves it only for a
\* voxel none of whose neighbours has a weight.
LanesKeepApart ==
  \A t \in Lane : /\ Touched(t) \subseteq Part(t)
                  /\ at[t] = "undefined" => kernelVolume[t] = 0

=============================================================================
