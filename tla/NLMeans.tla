-------------------------------- MODULE NLMeans --------------------------------
(***************************************************************************)
(* cNLMeans (CudaNLMeans.cuh) on one device: for every chunk a launch of   *)
(* cudaMeanAndVariance writes the mean and the variance of each voxel's    *)
(* patch to two further buffers, and a launch of cudaNLMeans_mv compares a *)
(* voxel's with those of its search window and writes the result where the *)
(* mean was.                                                               *)
(*                                                                         *)
(* A chunk is a line.  A cell of a buffer holds the voxels its value was   *)
(* computed from.  Threads of different blocks interleave at every access  *)
(* to the means; a launch starts when the one before it has ended.         *)
(***************************************************************************)
EXTENDS Integers, Sequences, FiniteSets

CONSTANTS
  Lengths,             \* the lengths of the chunks
  searchWindowRadius, nhoodRadius

VARIABLES
  i,                   \* the chunk
  pc,                  \* "send", "means", "compare", "retrieve", "done"
  curBuffer,           \* CudaDeviceImages
  buffers,             \* buffer -> voxel of the chunk -> what its value is computed from
  left,                \* voxel -> what its thread has still to read, or the thread is over
  used,                \* voxel -> neighbour -> the mean its thread has read there
  imageOut             \* chunk -> what was retrieved

vars == <<i, pc, curBuffer, buffers, left, used, imageOut>>

Over == {-1}
Places == 0 .. Lengths[i] - 1
nextBuffer == (curBuffer + 1) % 3
thirdBuffer == (curBuffer + 2) % 3

\* What KernelIterator goes through: the kernel around v, clipped to the chunk.
Window(v, radius) == {u \in Places : u - v \in -radius .. radius}
searchVec == IF Lengths[i] - 1 < searchWindowRadius THEN Lengths[i] - 1 ELSE searchWindowRadius

Init ==
  /\ i = 1 /\ pc = "send" /\ curBuffer = 0
  /\ buffers = [n \in 0 .. 2 |-> <<>>]
  /\ left = <<>> /\ used = <<>>
  /\ imageOut = <<>>

\* sendROI and setAllDims: the other two keep what the chunk before left in them.
Stale(n, v) == IF v \in DOMAIN buffers[n] THEN buffers[n][v] ELSE {}
Send ==
  /\ pc = "send"
  /\ buffers' = [n \in 0 .. 2 |->
       [v \in Places |-> IF n = curBuffer THEN {<<i, v>>} ELSE Stale(n, v)]]
  /\ left' = [v \in Places |-> Window(v, nhoodRadius)]
  /\ pc' = "means"
  /\ UNCHANGED <<i, curBuffer, used, imageOut>>

\* cudaMeanAndVariance: a thread writes both; nothing it reads is written.
MeanAndVariance(v) ==
  LET patch == UNION {buffers[curBuffer][u] : u \in left[v]}
  IN /\ pc = "means" /\ left[v] # Over
     /\ buffers' = [buffers EXCEPT ![nextBuffer][v] = patch, ![thirdBuffer][v] = patch]
     /\ left' = [left EXCEPT ![v] = Over]
     /\ UNCHANGED <<i, pc, curBuffer, used, imageOut>>

LaunchCompare ==
  /\ pc = "means" /\ \A v \in Places : left[v] = Over
  /\ left' = [v \in Places |-> Window(v, searchVec)]
  /\ used' = [v \in Places |-> <<>>]
  /\ pc' = "compare"
  /\ UNCHANGED <<i, curBuffer, buffers, imageOut>>

\* cudaNLMeans_mv reads the means one by one, its own first (line 33, line 46).
ReadMean(v, u) ==
  /\ pc = "compare" /\ u \in left[v] /\ u >= 0
  /\ u # v => v \notin left[v] /\ \A w \in left[v] : u <= w
  /\ used' = [used EXCEPT ![v] = [w \in DOMAIN @ \cup {u} |->
                                    IF w = u THEN buffers[nextBuffer][u] ELSE @[w]]]
  /\ left' = [left EXCEPT ![v] = @ \ {u}]
  /\ UNCHANGED <<i, pc, curBuffer, buffers, imageOut>>

\* imageOutMean(threadCoordinate) = outVal (line 64)
WriteResult(v) ==
  /\ pc = "compare" /\ left[v] = {}
  /\ buffers' = [buffers EXCEPT ![nextBuffer][v] =
       UNION {used[v][u] \cup buffers[thirdBuffer][u] \cup buffers[curBuffer][u]
                : u \in DOMAIN used[v]}]
  /\ left' = [left EXCEPT ![v] = Over]
  /\ UNCHANGED <<i, pc, curBuffer, used, imageOut>>

\* incrementBuffer and retriveROI.
Retrieve ==
  /\ pc = "compare" /\ \A v \in Places : left[v] = Over
  /\ curBuffer' = nextBuffer
  /\ imageOut' = Append(imageOut, buffers[nextBuffer])
  /\ pc' = IF i < Len(Lengths) THEN "send" ELSE "done"
  /\ i' = IF i < Len(Lengths) THEN i + 1 ELSE i
  /\ UNCHANGED <<buffers, left, used>>

Next ==
  \/ Send \/ LaunchCompare \/ Retrieve
  \/ \E v \in Places : \/ MeanAndVariance(v)
                       \/ WriteResult(v)
                       \/ \E u \in Places : ReadMean(v, u)

Spec == Init /\ [][Next]_vars

-----------------------------------------------------------------------------
\* Contradicted by the code: the mean a thread compares with is the mean of a patch,
\* "computed by previous cuda filter" (CudaNLMeans.cuh:18).  A thread that has ended has
\* put its result where the others look for its patch's mean.
MeansAreOfPatches ==
  pc = "compare" =>
    \A v \in Places : \A u \in DOMAIN used[v] :
      used[v][u] = {<<i, w>> : w \in Window(u, nhoodRadius)}
=============================================================================
