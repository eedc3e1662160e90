----------------------------- MODULE ChunkedFilter -----------------------------
(***************************************************************************)
(* The parallel region every filter has: a team of threads, one per        *)
(* device, sends chunks to its device, goes through the filter's plan      *)
(* (FilterPlans) with launches that return before they are run, and copies *)
(* the chunk back line by line into the one output image of the caller.    *)
(*                                                                         *)
(* The image is reduced to the axis it is cut along (z): a voxel stands    *)
(* for a plane of the one channel, and the kernels have odd extents, so    *)
(* that they are not interpolated.  A voxel's value is reduced to what the *)
(* properties tell apart: which voxel of the image it is, the term it was  *)
(* computed by, and whether it is what that term is on the whole image.    *)
(***************************************************************************)
EXTENDS ChunkGeometry, FilterPlans, FiniteSets

CONSTANTS
  Jobs,           \* the calls to explore: image, buffer and plan, see Job
  NumDevices,     \* cudaDevs.getNumDevices()
  KernelMemory    \* whether the kernel is too large for constant memory

Shape(n) == [a \in Axis |-> IF a = "z" THEN n ELSE 1]

\* length: the image along the cut axis; device: what a buffer may hold along it, as
\* calculateBuffers decided; plan: the filter, with no more buffers than NUM_BUFF_NEEDED;
\* promise: what its help says of the output, and what the plan does step by step.
Job(j) ==
  /\ {j.length, j.device, j.plan.extent, j.plan.ring} \subseteq Nat \ {0}
  /\ {j.plan.scratch, j.plan.needed, j.promise.reach} \subseteq Nat
  /\ j.plan.ring + j.plan.scratch <= j.plan.needed
  /\ WellDefined(Shape(j.length), Shape(j.device), Shape(j.plan.extent))
  /\ WellFormed(j.plan)
  /\ KeepsPromise(j.plan, j.length, j.promise)

ASSUME ChunkedFilterAssumption ==
  /\ \A j \in Jobs : Job(j)
  /\ NumDevices \in Nat \ {0}
  /\ KernelMemory \in BOOLEAN

VARIABLES
  job,            \* the call
  pc,             \* worker -> where it is in the parallel region
  held,           \* worker -> device buffers it has allocated
  kernelHeld,     \* worker -> whether its Kernel owns device memory
  idx,            \* worker -> the loop's i
  image,          \* worker -> buffer -> device position -> voxel
  dims,           \* worker -> imageDims of its buffers
  curBuff,        \* worker -> curBuff of deviceImages
  step,           \* worker -> the step of the plan it is at
  scalars,        \* worker -> what it has reduced of this chunk
  queue,          \* worker -> launches its device has not run yet
  row,            \* worker -> the line retriveROI copies next
  imageOut,       \* the caller's output image, shared by the workers
  status,         \* "running", "returned", "aborted"
  progress        \* history: what has been done of each chunk

vars == <<job, pc, held, kernelHeld, idx, image, dims, curBuff, step, scalars, queue, row,
          imageOut, status, progress>>

Length == job.length
DeviceLength == job.device
KernelLength == job.plan.extent
Steps == job.plan.steps
Ring == job.plan.ring           \* numBuffers of deviceImages
Promised == job.promise.term

-----------------------------------------------------------------------------
(* calculateChunking along the axis *)
Delta == ChunkDelta(Shape(Length), Shape(DeviceLength), Shape(KernelLength))["z"]
NumChunks1 == NumChunks(Shape(Length), Shape(DeviceLength), Shape(KernelLength))["z"]
Chunks == 0 .. NumChunks1 - 1
Start(i) == ImageStart(Delta, Margin(KernelLength), i)
End(i) == ImageEnd(Length, Delta, Margin(KernelLength), i)
Size(i) == End(i) - Start(i) + 1
ROI(i) == ImageROIStart(Delta, i) .. ImageROIEnd(Length, Delta, i)

\* setMaxDeviceDims
MaxDeviceDims == CHOOSE n \in {Size(i) : i \in Chunks} : \A i \in Chunks : Size(i) <= n

\* What-if: a thread per chunk.
TeamPerChunk == NumChunks1

\* omp_set_num_threads(MIN(chunks.size(), cudaDevs.getNumDevices()))
Team == Least(NumChunks1, NumDevices)
Worker == 0 .. Team - 1

\* getDeviceIdx: the list of devices from its end, wrapping around.
DeviceIdx(w) == NumDevices - (w % NumDevices) - 1
Device == 0 .. NumDevices - 1

NumBuffers == Ring + job.plan.scratch
Buffer == 0 .. NumBuffers - 1

\* A voxel of a buffer nothing was sent to, and of the output before the filter writes it.
Unset == [vox |-> -1, term |-> <<"unset">>, exact |-> FALSE]

Init ==
  /\ job \in Jobs
  /\ pc = [w \in Worker |-> "malloc"]
  /\ held = [w \in Worker |-> 0]
  /\ kernelHeld = [w \in Worker |-> FALSE]
  /\ idx = [w \in Worker |-> w]                     \* int i = CUDA_IDX
  /\ image = [w \in Worker |-> [b \in Buffer |-> [p \in 0 .. MaxDeviceDims - 1 |-> Unset]]]
  /\ dims = [w \in Worker |-> MaxDeviceDims]
  /\ curBuff = [w \in Worker |-> 0]
  /\ step = [w \in Worker |-> 1]
  /\ scalars = [w \in Worker |-> <<>>]
  /\ queue = [w \in Worker |-> <<>>]
  /\ row = [w \in Worker |-> 0]
  /\ imageOut = [v \in 0 .. Length - 1 |-> Unset]
  /\ status = "running"
  /\ progress = [i \in Chunks |-> "waiting"]

At(w, where) == status = "running" /\ pc[w] = where
Goto(w, where) == pc' = [pc EXCEPT ![w] = where]

\* CudaDeviceImages(NUM_BUFF_NEEDED, maxDeviceDims, CUR_DEVICE): a cudaMalloc per buffer.
MallocBuffer(w) ==
  /\ At(w, "malloc")
  /\ held' = [held EXCEPT ![w] = @ + 1]
  /\ IF held[w] + 1 = NumBuffers THEN Goto(w, "kernel") ELSE UNCHANGED pc
  /\ UNCHANGED <<kernelHeld, idx, image, dims, curBuff, step, scalars, queue, row,
                 imageOut, status, progress>>

\* Kernel constKernelMem(kernel, CUR_DEVICE): constant memory, or memory of its own.
LoadKernel(w) ==
  /\ At(w, "kernel")
  /\ kernelHeld' = [kernelHeld EXCEPT ![w] = KernelMemory /\ job.plan.loads]
  /\ Goto(w, "loop")
  /\ UNCHANGED <<held, idx, image, dims, curBuff, step, scalars, queue, row,
                 imageOut, status, progress>>

\* A role is one of the buffers at the time of the call.
BufferOf(w, role) == RoleBuffer(job.plan, curBuff[w], role)

\* A chunk is taken: sendROI and setAllDims give the buffers its extents.
TakeChunk(w) ==
  /\ At(w, "loop")
  /\ idx[w] < NumChunks1
  /\ dims' = [dims EXCEPT ![w] = Size(idx[w])]
  /\ step' = [step EXCEPT ![w] = 1]
  /\ scalars' = [scalars EXCEPT ![w] = <<>>]
  /\ progress' = [progress EXCEPT ![idx[w]] = "taken"]
  /\ Goto(w, "body")
  /\ UNCHANGED <<held, kernelHeld, idx, image, curBuff, queue, row, imageOut, status>>

\* The next step of the plan is an op.
AtStep(w, op) == At(w, "body") /\ step[w] \in DOMAIN Steps /\ Steps[step[w]].op = op
StepDone(w) == step' = [step EXCEPT ![w] = @ + 1]

\* The buffer with the chunk's voxels of an image, the rest of it as it was.
Filled(w, buffer, term) ==
  [p \in DOMAIN buffer |->
     IF p < Size(idx[w]) THEN [vox |-> Start(idx[w]) + p, term |-> term, exact |-> TRUE]
     ELSE buffer[p]]

FillBuffer(w, term) ==
  /\ image' = [image EXCEPT ![w][BufferOf(w, Steps[step[w]].into)] = Filled(w, @, term)]
  /\ StepDone(w)
  /\ UNCHANGED <<pc, held, kernelHeld, idx, dims, curBuff, scalars, queue, row,
                 imageOut, status, progress>>

\* What-if: a chunk is sent while launches that use its buffer are pending.
SendROIAsync(w) == AtStep(w, "send") /\ FillBuffer(w, Steps[step[w]].term)

\* sendROI: cudaMemcpy waits for the launches before it.
SendROI(w) == queue[w] = <<>> /\ AtStep(w, "send") /\ FillBuffer(w, Steps[step[w]].term)

\* cudaMemset of the scratch buffer; nothing is pending where cLoG calls it.
Memset(w) == AtStep(w, "clear") /\ FillBuffer(w, <<"zero">>)

\* sumBuffer and minMaxBuffer return a number, so the launches before them have run.  It
\* is the image's if the chunk is the whole image.
ReduceBuffer(w) ==
  /\ AtStep(w, "reduce")
  /\ queue[w] = <<>>
  /\ LET s == Steps[step[w]]
         buffer == image[w][BufferOf(w, s.of)]
     IN scalars' = [scalars EXCEPT ![w] = Append(@,
          [term |-> <<s.fn, buffer[0].term>>,
           exact |-> /\ Size(idx[w]) = Length
                     /\ \A p \in 0 .. dims[w] - 1 :
                          buffer[p].exact /\ buffer[p].term = buffer[0].term])]
  /\ StepDone(w)
  /\ UNCHANGED <<pc, held, kernelHeld, idx, image, dims, curBuff, queue, row,
                 imageOut, status, progress>>

\* A launch has its arguments by value: the buffers, extents and scalars as they are now.
Issue(w) ==
  LET s == Steps[step[w]]
  IN /\ queue' = [queue EXCEPT ![w] = Append(@,
          [fn |-> s.fn, n |-> dims[w], scalars |-> scalars[w], into |-> BufferOf(w, s.into),
           reads |-> [r \in DOMAIN s.reads |->
             [buffer |-> BufferOf(w, s.reads[r].role), extent |-> s.reads[r].extent]]])]
     /\ StepDone(w)
     /\ UNCHANGED <<pc, held, kernelHeld, idx, image, dims, scalars, row,
                    imageOut, status, progress>>

\* cudaXxxFilter<<<...>>>(...), which returns at once; incrementBuffer().
Launch(w) ==
  /\ AtStep(w, "launch")
  /\ Issue(w)
  /\ IF Steps[step[w]].increment THEN curBuff' = [curBuff EXCEPT ![w] = (@ + 1) % Ring]
     ELSE UNCHANGED curBuff

\* What a launch computes at position p: it reads the neighbourhood KernelIterator
\* leaves of the chunk, which is right if that is the neighbourhood in the image.
Filtered(w, l, p) ==
  LET read(r) == image[w][l.reads[r].buffer]
      window(r) == Window(l.n, Shape(l.reads[r].extent), "z", p)
  IN [vox |-> read(1)[p].vox,
      term |-> <<l.fn>> \o [r \in DOMAIN l.reads |-> read(r)[p].term]
                       \o [s \in DOMAIN l.scalars |-> l.scalars[s].term],
      exact |->
        /\ \A s \in DOMAIN l.scalars : l.scalars[s].exact
        /\ \A r \in DOMAIN l.reads :
             /\ \A q \in window(r) : read(r)[q].exact /\ read(r)[q].term = read(r)[p].term
             /\ {read(r)[q].vox : q \in window(r)}
                  = Window(Length, Shape(l.reads[r].extent), "z", read(1)[p].vox)]

\* The device runs its launches one after the other, in the order of the calls.
RunKernel(w) ==
  /\ status = "running"
  /\ queue[w] # <<>>
  /\ LET l == Head(queue[w])
     IN image' = [image EXCEPT ![w][l.into] =
          [p \in DOMAIN @ |-> IF p < l.n THEN Filtered(w, l, p) ELSE @[p]]]
  /\ queue' = [queue EXCEPT ![w] = Tail(@)]
  /\ UNCHANGED <<pc, held, kernelHeld, idx, dims, curBuff, step, scalars, row,
                 imageOut, status, progress>>

\* What-if: the lines are copied without waiting for the device.
SynchronizeNot(w) ==
  /\ At(w, "body") /\ step[w] > Len(Steps)
  /\ row' = [row EXCEPT ![w] = 0]
  /\ Goto(w, "copy")
  /\ UNCHANGED <<held, kernelHeld, idx, image, dims, curBuff, step, scalars, queue,
                 imageOut, status, progress>>

\* retriveROI begins with cudaThreadSynchronize.
Synchronize(w) ==
  /\ At(w, "body") /\ step[w] > Len(Steps)
  /\ queue[w] = <<>>
  /\ row' = [row EXCEPT ![w] = 0]
  /\ Goto(w, "copy")
  /\ UNCHANGED <<held, kernelHeld, idx, image, dims, curBuff, step, scalars, queue,
                 imageOut, status, progress>>

\* What-if: the loop over the chunks is not strided.
NextChunkUnstrided(w) ==
  /\ idx' = [idx EXCEPT ![w] = @ + 1]
  /\ progress' = [progress EXCEPT ![idx[w]] = "done"]
  /\ Goto(w, "loop")

\* What-if: the loop does not move on.
NextChunkStuck(w) ==
  /\ progress' = [progress EXCEPT ![idx[w]] = "done"]
  /\ Goto(w, "loop")
  /\ UNCHANGED idx

\* for (int i = CUDA_IDX; i < chunks.size(); i += N_THREADS)
NextChunk(w) ==
  /\ idx' = [idx EXCEPT ![w] = @ + Team]
  /\ progress' = [progress EXCEPT ![idx[w]] = "done"]
  /\ Goto(w, "loop")

Result(w) == image[w][BufferOf(w, job.plan.result)]

\* A chunk that is the whole image goes back in one copy.
CopyWhole(w) ==
  /\ At(w, "copy")
  /\ Size(idx[w]) = Length
  /\ imageOut' = [v \in DOMAIN imageOut |-> Result(w)[v]]
  /\ NextChunk(w)
  /\ UNCHANGED <<held, kernelHeld, image, dims, curBuff, step, scalars, queue, row, status>>

\* Any other goes back line by line, from imageStart to imageEnd: the margins too.
CopyLine(w) ==
  /\ At(w, "copy")
  /\ Size(idx[w]) # Length
  /\ imageOut' = [imageOut EXCEPT ![Start(idx[w]) + row[w]] = Result(w)[row[w]]]
  /\ IF row[w] + 1 = Size(idx[w])
     THEN NextChunk(w) /\ UNCHANGED row
     ELSE row' = [row EXCEPT ![w] = @ + 1] /\ UNCHANGED <<pc, idx, progress>>
  /\ UNCHANGED <<held, kernelHeld, image, dims, curBuff, step, scalars, queue, status>>

\* What-if: the kernel's memory is not released, as in cNLMeans.
NoClean(w) ==
  /\ At(w, "loop")
  /\ idx[w] >= NumChunks1
  /\ Goto(w, "free")
  /\ UNCHANGED <<held, kernelHeld, idx, image, dims, curBuff, step, scalars, queue, row,
                 imageOut, status, progress>>

\* The loop is over: constKernelMem.clean().
Clean(w) ==
  /\ At(w, "loop")
  /\ idx[w] >= NumChunks1
  /\ kernelHeld' = [kernelHeld EXCEPT ![w] = FALSE]
  /\ Goto(w, "free")
  /\ UNCHANGED <<held, idx, image, dims, curBuff, step, scalars, queue, row,
                 imageOut, status, progress>>

\* ~CudaDeviceImages at the end of the region's block.
FreeBuffer(w) ==
  /\ At(w, "free")
  /\ held' = [held EXCEPT ![w] = @ - 1]
  /\ IF held[w] = 1 THEN Goto(w, "barrier") ELSE UNCHANGED pc
  /\ UNCHANGED <<kernelHeld, idx, image, dims, curBuff, step, scalars, queue, row,
                 imageOut, status, progress>>

\* The implicit barrier at the end of the parallel region.
Return ==
  /\ status = "running"
  /\ \A w \in Worker : pc[w] = "barrier"
  /\ status' = "returned"
  /\ UNCHANGED <<pc, held, kernelHeld, idx, image, dims, curBuff, step, scalars, queue, row,
                 imageOut, progress>>

\* HANDLE_ERROR throws on a failed CUDA call (a failed launch shows in retriveROI); an
\* exception may not leave a parallel region, so the process is terminated, and its
\* device memory goes with it.
CudaFails(w) ==
  /\ status = "running"
  /\ pc[w] \in {"malloc", "kernel", "body", "copy", "free"}
     \/ (pc[w] = "loop" /\ idx[w] < NumChunks1)
  /\ status' = "aborted"
  /\ held' = [u \in Worker |-> 0]
  /\ kernelHeld' = [u \in Worker |-> FALSE]
  /\ UNCHANGED <<pc, idx, image, dims, curBuff, step, scalars, queue, row, imageOut, progress>>

Over == status # "running" /\ UNCHANGED vars

Host(w) ==
  \/ MallocBuffer(w) \/ LoadKernel(w) \/ TakeChunk(w)
  \/ SendROI(w) \/ Memset(w) \/ ReduceBuffer(w) \/ Launch(w)
  \/ Synchronize(w) \/ CopyWhole(w) \/ CopyLine(w) \/ Clean(w) \/ FreeBuffer(w)

Next ==
  /\ \/ \E w \in Worker : Host(w) \/ RunKernel(w) \/ CudaFails(w)
     \/ Return
     \/ Over
  /\ UNCHANGED job

Spec == Init /\ [][Next]_vars

\* Threads are scheduled and devices run what is launched; CUDA calls need not fail.
FairSpec ==
  /\ Spec
  /\ \A w \in 0 .. NumDevices - 1 :
       /\ WF_vars(w \in Worker /\ Host(w) /\ UNCHANGED job)
       /\ WF_vars(w \in Worker /\ RunKernel(w) /\ UNCHANGED job)
  /\ WF_vars(Return /\ UNCHANGED job)

-----------------------------------------------------------------------------
(***************************************************************************)
(* Properties                                                              *)
(***************************************************************************)
HeldOn(d) == {h \in Worker \X Buffer : DeviceIdx(h[1]) = d /\ h[2] < held[h[1]]}

\* calculateBuffers sizes the buffers so that NUM_BUFF_NEEDED of them fill a device: the
\* team never holds more than that on any device, however its threads interleave.
DeviceBudgetKept == \A d \in Device : Cardinality(HeldOn(d)) <= job.plan.needed

\* How far around a voxel the promised value looks.
Around(v) ==
  LET r == job.promise.reach IN {u \in 0 .. Length - 1 : v - r <= u /\ u <= v + r}

\* When the lines are copied back, the buffer they are copied from holds, for the chunk
\* they belong to, what the help promises; and it is right in the region of interest if
\* the margin is as wide as the value looks, and wherever the chunk holds all the value
\* depends on.  No launch read a buffer too early or too late, or missed a neighbour.
ROIRightWhenRetrieved ==
  \A w \in Worker : pc[w] = "copy" =>
    LET i == idx[w]
    IN /\ \A p \in 0 .. Size(i) - 1 :
            Result(w)[p].vox = Start(i) + p /\ Result(w)[p].term = Promised
       /\ \A v \in ROI(i) :
            job.promise.reach <= Margin(KernelLength) \/ Around(v) \subseteq Start(i) .. End(i)
              => Result(w)[v - Start(i)].exact

\* When the filter returns every voxel of the output is what the help promises, of that
\* voxel; and one that every chunk holding it holds with all that its value depends on is
\* right, whichever worker wrote it last.
RightAwayFromCuts ==
  status = "returned" =>
    \A v \in 0 .. Length - 1 :
      /\ imageOut[v].vox = v /\ imageOut[v].term = Promised
      /\ (\A i \in Chunks : v \in Start(i) .. End(i) => Around(v) \subseteq Start(i) .. End(i))
           => imageOut[v].exact

\* Device memory is given back, the kernel's too, when the filter returns.
MemoryReleased ==
  status # "running" => \A w \in Worker : held[w] = 0 /\ ~kernelHeld[w]

Work == INSTANCE WorkSharing WITH chunks <- Chunks

\* Every chunk is sent and delivered once, by one worker, and the filter returns only
\* when all of them are delivered.
ImplementsWorkSharing == Work!Spec

\* The filter ends: it returns, or a CUDA call fails.
FilterEnds == <>(status # "running")

\* The output is what the filter's help promises, of the whole image: a maximum over the
\* neighbourhood of every voxel, "defined by the given kernel" (ScrCmdMaxFilter.h).
\* RightAwayFromCuts makes it so for an image that is not cut.
FilterIsExact ==
  status = "returned" =>
    \A v \in 0 .. Length - 1 : imageOut[v].exact /\ imageOut[v].term = Promised

=============================================================================
