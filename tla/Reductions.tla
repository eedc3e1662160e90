------------------------------ MODULE Reductions ------------------------------
(***************************************************************************)
(* cSum (CudaSum.cuh), cMinMax (CudaMinMax.cuh) and the two cGetMinMax     *)
(* (CudaGetMinMax.cuh) on one device: the image goes to the device piece   *)
(* by piece, each block of a launch reduces its elements in shared memory, *)
(* halving the number of threads that work at every __syncthreads, and the *)
(* host reduces what the blocks return.                                    *)
(*                                                                         *)
(* The image is a line of voxels in a few channels.  A sum is abstracted   *)
(* to how often it counts each element of the image; so is a range, which  *)
(* only looks at the elements it counts.                                   *)
(***************************************************************************)
EXTENDS ChunkGeometry

CONSTANT
  Jobs            \* [op, length, channels, room, maxThreads]: room is what a device buffer may hold

Ops == {"Sum", "MinMax", "GetMinMax", "DeviceMinMax"}
Shape(n) == [a \in Axis |-> IF a = "x" THEN n ELSE 1]

\* Without room for a line and its margins calculateChunking divides by zero: Chunking has that.
Job(j) ==
  /\ j.op \in Ops
  /\ {j.length, j.channels, j.room, j.maxThreads} \subseteq Nat \ {0}
  /\ j.op \in {"Sum", "MinMax"} => WellDefined(Shape(j.length), Shape(j.room), Shape(1))

ASSUME ReductionsAssumption == \A j \in Jobs : Job(j)

VARIABLES
  job,            \* the call
  pc,             \* "start", "send", "kernel", "returned", "overrun"
  piece,          \* the loop's i, or startIdx / numValsPerChunk
  phase,          \* block -> "load", "reduce", "written"
  localStride,    \* block -> localStride of its threads
  arrived,        \* block -> its threads that wait at __syncthreads
  shared,         \* block -> thread -> sums[threadIdx.x], or mins and maxs
  arrayOut,       \* the entries the blocks return into, in device memory
  entry,          \* the entry the host looks at next
  outVal          \* the result

vars == <<job, pc, piece, phase, localStride, arrived, shared, arrayOut, entry, outVal>>

\* The last is what cudaMalloc leaves in an entry.
Element == (0 .. job.channels - 1) \X (0 .. job.length - 1)
Garbage == <<-1, -1>>
Countable == Element \cup {Garbage}
Nothing == [e \in Countable |-> 0]
Once(E) == [e \in Countable |-> IF e \in E THEN 1 ELSE 0]
f ++ g == [e \in Countable |-> f[e] + g[e]]

-----------------------------------------------------------------------------
(* cSum and cMinMax cut the image with calculateBuffers: along the line      *)
(* first, then channel by channel.  The kernel is Vec(1,1,1), whose margin   *)
(* is (1+1)/2 = 1.                                                            *)
Cuts == job.op \in {"Sum", "MinMax"}
Delta == ChunkDelta(Shape(job.length), Shape(job.room), Shape(1))["x"]
PerChannel == NumChunks(Shape(job.length), Shape(job.room), Shape(1))["x"]
Start(i) == ImageStart(Delta, Margin(1), i % PerChannel)
ChunkSize(i) == FullChunkSize(job.length, Delta, Margin(1), i % PerChannel)

\* cGetMinMax takes the image as an array, as many elements at a time as there is room for;
\* its overload for an image on the device takes all of it.
NumValues == job.length * job.channels
NumValsPerChunk == IF job.op = "GetMinMax" THEN Least(NumValues, job.room) ELSE NumValues
CurNumVals(i) == Least(NumValsPerChunk, NumValues - i * NumValsPerChunk)

Pieces == IF Cuts THEN PerChannel * job.channels ELSE CeilDiv(NumValues, NumValsPerChunk)
Size(i) == IF Cuts THEN ChunkSize(i) ELSE CurNumVals(i)
Voxel(i, p) ==
  IF Cuts THEN <<i \div PerChannel, Start(i) + p>>
  ELSE LET n == i * NumValsPerChunk + p IN <<n \div job.length, n % job.length>>

\* calcBlockThread of a line; cGetMinMax uses all the threads a block can have.
Threads(i) == IF Cuts THEN Least(Size(i), job.maxThreads) ELSE job.maxThreads

\* blocks = (int)(ceil((double)blocks / 2.0)), and maxBlocks = ceil(numValsPerChunk / (maxThreads * 2.0)).
HalfTheBlocks(i) == CeilDiv(CeilDiv(Size(i), Threads(i)), 2)
\* What-if: the blocks are divided as integers.
MaxBlocksTruncated == IF Cuts THEN CeilDiv(Size(0), Threads(0)) \div 2
                      ELSE NumValsPerChunk \div (2 * job.maxThreads)
MaxBlocks == IF Cuts THEN HalfTheBlocks(0) ELSE CeilDiv(NumValsPerChunk, 2 * job.maxThreads)

\* What-if: the other loop truncates as well.
BlocksTruncated(i) == IF Cuts THEN HalfTheBlocks(i) ELSE CurNumVals(i) \div (2 * job.maxThreads)
\* The loop of cGetMinMax truncates: one fewer than MaxBlocks when a piece does not divide,
\* and none when it is small; a launch of no block does nothing.
Blocks(i) ==
  IF Cuts THEN HalfTheBlocks(i)
  ELSE IF job.op = "GetMinMax" THEN CurNumVals(i) \div (2 * job.maxThreads) ELSE MaxBlocks

\* The entries the host looks at.
Entries == IF Cuts THEN 0 .. Blocks(piece) - 1 ELSE 0 .. MaxBlocks - 1
Block == 0 .. Blocks(piece) - 1
Thread == 0 .. Threads(piece) - 1

Init ==
  /\ job \in Jobs
  /\ pc = "start"
  /\ piece = 0
  /\ phase = <<>> /\ localStride = <<>> /\ arrived = <<>> /\ shared = <<>>
  /\ arrayOut = [b \in 0 .. MaxBlocks - 1 |-> Once({Garbage})]
  /\ entry = 0
  /\ outVal = Nothing

\* cSum and cMinMax: an image no larger than a block stays on the host.
ReduceOnHost ==
  /\ pc = "start"
  /\ Cuts /\ NumValues <= job.maxThreads
  /\ outVal' = Once(Element)
  /\ pc' = "returned"
  /\ UNCHANGED <<job, piece, phase, localStride, arrived, shared, arrayOut, entry>>

UseDevice ==
  /\ pc = "start"
  /\ Cuts => NumValues > job.maxThreads
  /\ pc' = "send"
  /\ UNCHANGED <<job, piece, phase, localStride, arrived, shared, arrayOut, entry, outVal>>

\* The transfer of a piece and the launch.  cSum clears the entries of its blocks, in an
\* array that was made for the blocks of the first chunk; minMaxBuffer begins its range
\* anew with every chunk.
Launch ==
  /\ pc = "send"
  /\ piece < Pieces
  /\ Blocks(piece) <= MaxBlocks
  /\ phase' = [b \in Block |-> "load"]
  /\ localStride' = [b \in Block |-> Threads(piece) \div 2]
  /\ arrived' = [b \in Block |-> {}]
  /\ shared' = [b \in Block |-> [t \in Thread |-> Nothing]]
  /\ arrayOut' = [b \in DOMAIN arrayOut |->
                    IF job.op = "Sum" /\ b \in Block THEN Nothing ELSE arrayOut[b]]
  /\ outVal' = IF job.op = "MinMax" THEN Nothing ELSE outVal
  /\ entry' = 0
  /\ pc' = "kernel"
  /\ UNCHANGED <<job, piece>>

\* A later chunk with more blocks than that: what happens is not defined.
Overrun ==
  /\ pc = "send"
  /\ piece < Pieces
  /\ Blocks(piece) > MaxBlocks
  /\ pc' = "overrun"
  /\ UNCHANGED <<job, piece, phase, localStride, arrived, shared, arrayOut, entry, outVal>>

\* What-if: a thread takes one element, as if the blocks had not been halved.
TakesOne(i, n, imStride) == {i} \cap 0 .. n - 1
\* A thread takes the elements one grid apart.
Takes(i, n, imStride) == {j \in 0 .. n - 1 : j >= i /\ (j - i) % imStride = 0}

Share(b, t) ==
  {Voxel(piece, j) :
     j \in Takes(t + b * Threads(piece), Size(piece), Threads(piece) * Blocks(piece))}

\* A thread reduces its elements, or none, then waits for its block.
Load(b, t) ==
  /\ pc = "kernel" /\ phase[b] = "load" /\ t \notin arrived[b]
  /\ shared' = [shared EXCEPT ![b][t] = Once(Share(b, t))]
  /\ arrived' = [arrived EXCEPT ![b] = @ \cup {t}]
  /\ UNCHANGED <<job, pc, piece, phase, localStride, arrayOut, entry, outVal>>

\* if (threadIdx.x < localStride) sums[threadIdx.x] += sums[threadIdx.x + localStride]
Reduce(b, t) ==
  /\ pc = "kernel" /\ phase[b] = "reduce" /\ t < localStride[b] /\ t \notin arrived[b]
  /\ shared' = [shared EXCEPT ![b][t] = @ ++ shared[b][t + localStride[b]]]
  /\ arrived' = [arrived EXCEPT ![b] = @ \cup {t}]
  /\ UNCHANGED <<job, pc, piece, phase, localStride, arrayOut, entry, outVal>>

\* What-if: a thread goes on without the others.
SyncthreadsNot(b) ==
  /\ pc = "kernel"
  /\ arrived[b] # {}
  /\ \/ phase[b] = "load" /\ phase' = [phase EXCEPT ![b] = "reduce"] /\ UNCHANGED localStride
     \/ /\ phase[b] = "reduce" /\ localStride[b] > 0
        /\ localStride' = [localStride EXCEPT ![b] = @ \div 2] /\ UNCHANGED phase
  /\ arrived' = [arrived EXCEPT ![b] = {}]
  /\ UNCHANGED <<job, pc, piece, shared, arrayOut, entry, outVal>>

\* __syncthreads: the threads with something to do have all done so.
Syncthreads(b) ==
  /\ pc = "kernel"
  /\ \/ /\ phase[b] = "load" /\ arrived[b] = Thread
        /\ phase' = [phase EXCEPT ![b] = "reduce"] /\ UNCHANGED localStride
     \/ /\ phase[b] = "reduce" /\ localStride[b] > 0 /\ arrived[b] = 0 .. localStride[b] - 1
        /\ localStride' = [localStride EXCEPT ![b] = @ \div 2] /\ UNCHANGED phase
  /\ arrived' = [arrived EXCEPT ![b] = {}]
  /\ UNCHANGED <<job, pc, piece, shared, arrayOut, entry, outVal>>

\* Thread 0 returns what the block has.
WriteOut(b) ==
  /\ pc = "kernel" /\ phase[b] = "reduce" /\ localStride[b] = 0
  /\ arrayOut' = [arrayOut EXCEPT ![b] = shared[b][0]]
  /\ phase' = [phase EXCEPT ![b] = "written"]
  /\ UNCHANGED <<job, pc, piece, localStride, arrived, shared, entry, outVal>>

\* cudaMemcpy waits for the kernel.
Finished == \A b \in Block : phase[b] = "written"

\* One turn of the host's loop over the entries.
Collect ==
  /\ pc = "kernel" /\ Finished
  /\ entry \in Entries
  /\ outVal' = outVal ++ arrayOut[entry]
  /\ entry' = entry + 1
  /\ UNCHANGED <<job, pc, piece, phase, localStride, arrived, shared, arrayOut>>

NextPiece ==
  /\ pc = "kernel" /\ Finished
  /\ entry \notin Entries
  /\ piece' = piece + 1
  /\ pc' = "send"
  /\ UNCHANGED <<job, phase, localStride, arrived, shared, arrayOut, entry, outVal>>

Return ==
  /\ pc = "send"
  /\ piece = Pieces
  /\ pc' = "returned"
  /\ UNCHANGED <<job, piece, phase, localStride, arrived, shared, arrayOut, entry, outVal>>

Over == pc \in {"returned", "overrun"} /\ UNCHANGED vars

Next ==
  \/ ReduceOnHost \/ UseDevice \/ Launch \/ Overrun \/ Collect \/ NextPiece \/ Return \/ Over
  \/ \E b \in Block : \/ \E t \in Thread : Load(b, t) \/ Reduce(b, t)
                      \/ Syncthreads(b) \/ WriteOut(b)

Spec == Init /\ [][Next]_vars

-----------------------------------------------------------------------------
(***************************************************************************)
(* Properties                                                              *)
(***************************************************************************)
\* A power of two, so that every halving is even: no divisor is odd but one.
Halves(n) == \A d, q \in 1 .. n : d * q = n => d = 1 \/ d % 2 = 0

\* The slots that hold something not yet added to another one: below twice the stride,
\* but for those whose element a thread has taken since the last __syncthreads.
Live(b) ==
  IF phase[b] = "load" \/ localStride[b] = 0
  THEN {t \in Thread : phase[b] = "load" \/ t = 0}
  ELSE {t \in Thread : t < 2 * localStride[b]} \ {t + localStride[b] : t \in arrived[b]}

\* The elements of the piece a block has loaded.
Loaded(b) ==
  {Voxel(piece, j) : j \in {k \in 0 .. Size(piece) - 1 :
     LET u == k % (Threads(piece) * Blocks(piece))
     IN u \div Threads(piece) = b /\ (phase[b] = "load" => u % Threads(piece) \in arrived[b])}}

\* At any moment of the reduction, in any order of the threads, every element a block has
\* loaded is counted once by one of its live slots and by no other, and nothing else is:
\* none is lost and none is added twice, if the size of the block is a power of two.
BlockKeepsItsElements ==
  pc = "kernel" /\ Halves(Threads(piece)) =>
    \A b \in Block :
      LET live == Live(b)
          mine == Loaded(b)
      IN \A e \in Countable :
           IF e \in mine
           THEN \E t \in live : /\ shared[b][t][e] = 1
                               /\ \A u \in live \ {t} : shared[b][u][e] = 0
           ELSE \A t \in live : shared[b][t][e] = 0

\* "This sums up the entire array in" (ScrCmdSum.h): every element counts once.
SumIsExact == pc = "returned" /\ job.op = "Sum" => outVal = Once(Element)

\* When that is so: the host sums, or the image is not cut and its blocks halve evenly.
SumIsExactWhen ==
  pc = "returned" /\ job.op = "Sum" =>
    (outVal = Once(Element) <=>
       NumValues <= job.maxThreads \/ (PerChannel = 1 /\ Halves(Threads(0))))

\* The entries are enough for every chunk of an image cut in at most two, however much of
\* a margin the first chunk has lost at the edge of the image.
EntriesEnough == pc = "overrun" => Cuts /\ PerChannel > 2

Seen == {e \in Countable : outVal[e] > 0}

\* Every piece has a block's worth of elements.
PiecesFillABlock ==
  /\ NumValsPerChunk >= 2 * job.maxThreads
  /\ NumValues % NumValsPerChunk = 0 \/ NumValues % NumValsPerChunk >= 2 * job.maxThreads

\* No element of a piece is left out of a range, however the number of blocks is rounded,
\* as the threads go on one grid apart, unless the piece is smaller than a block.  But the
\* range of cMinMax begins anew with each chunk: of an image that does not stay on the host
\* it is the range of the last chunk, and of no voxel of another.
NoneLeftOut ==
  pc = "returned" /\ job.op # "Sum" /\ Halves(Threads(Pieces - 1)) =>
    /\ Cuts => Seen = IF NumValues <= job.maxThreads THEN Element
                      ELSE {Voxel(Pieces - 1, p) : p \in 0 .. Size(Pieces - 1) - 1}
    /\ ~Cuts /\ (job.op = "GetMinMax" => PiecesFillABlock) => Element \subseteq Seen

\* A range is that of the image and of nothing else when as many blocks are launched as
\* entries are read; a last piece that is smaller leaves entries of the piece before,
\* which are elements all the same.
NoGarbageSeen ==
  pc = "returned" /\ (Cuts \/ job.op = "DeviceMinMax" \/ NumValsPerChunk % (2 * job.maxThreads) = 0) =>
    Seen \subseteq Element
=============================================================================
