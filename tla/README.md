# Hydra Image Processor: TLA+ models and proofs

Hydra Image Processor is a C++/CUDA library of image filters with Python and
MATLAB front ends. An image may be larger than a GPU, several GPUs may share
one call, and several processes may share the GPUs. This directory models the
machinery that makes those three things work: the way of a call's arguments and
outputs through the converters, the mutex between processes, the life of a
command, the cutting of an image into chunks, the parallel region that sends the
chunks through the devices, and the kernels whose threads share memory.
Arithmetic on voxels is the business of tests; what is checked here is order,
sharing, failure, bounds and coverage.

Paths below are relative to `src/src/c/`.

## 1. Inventory

| Part | Code | State | Operations |
|---|---|---|---|
| Process mutex | `ScriptCmds/ScopedProcessMutex.{h,cpp}` | a named shared memory object with `state` and a robust pthread mutex; per thread `procMutex`, `shm_fd`, `sharedMem` | create, open (two polling loops), lock, recover, unlock, clean up after an error, thread end, `remove` |
| Command life cycle | `ScriptCmds/ScriptCommandImpl.h` | none but what it holds | `convert_dispatch`, `execute` (takes the mutex), `process`, error messages |
| Device query | `Cuda/CudaDeviceInfo.{h,cpp}` | device list, least free memory, threads per block | `getCudaInfo`, `getDeviceIdx` |
| Buffer sizing | `Cuda/ImageChunk.cpp` `calculateBuffers` | pure | extents of a device buffer from the free memory |
| Chunking | `Cuda/ImageChunk.cpp` `calculateChunking`, `setMaxDeviceDims` | the list of chunks | cut, clip, enumerate |
| Chunk transfer | `Cuda/ImageChunk.h` | the caller's output image | `sendROI`, `retriveROI` |
| Device buffers | `Cuda/CudaDeviceImages.cuh`, `CudaImageContainer*.cuh` | buffers per worker, `curBuff` | allocate, rotate, `setDims`, free |
| Kernel memory | `Cuda/Kernel.cu` | constant symbol or an allocation | load, clean, offset copies |
| Neighbourhood access | `Cuda/KernelIterator.cu`, `CudaImageContainer.cuh` | position in the kernel | which voxels are read; interpolation for even kernels |
| Filters on two buffers | `CudaMaxFilter`, `Min`, `Mean`, `Std`, `Var`, `Median`, `MultiplySum`, `Closure`, `Opener`, `IdentityFilter`, `Gaussian`, `WienerFilter` | the parallel region's | send, launch, swap, retrieve; Wiener estimates the noise of a chunk first |
| Filters on three buffers | `CudaHighPassFilter`, `CudaLoG`, `CudaElementWiseDifference`, `CudaNLMeans` | the same, a third or a scratch buffer | launches of different kinds, several sends, accumulation in place |
| Reductions | `CudaSum`, `CudaMinMax`, `CudaGetMinMax`, `CudaEntropyFilter` | block sums or ranges, shared memory of a block | launch, reduce, collect |
| Median selection | `Cuda/CudaMedianFilter.cuh` | one array in shared memory, a part of it for each thread | gather the neighbours, select the middle one in place |
| Command table | `ScriptCmds/ScriptCommands.h`, `GenCommands.h`, `Commands/` | none | the parameters of a command: input, output or optional, trait, type, default |
| Argument conversion | `ScriptCmds/ArgConverter.h`, `ScriptTraits.h`, `ScriptTraitTfms.h`, `Python/PyArgConverter.h`, `Mex/MexArgConverter.h` | the script objects of a call, its converted values, whom a reference belongs to | load, set defaults, convert what has a fixed type, convert what has the image's, make outputs, return them |
| Object conversion | `Python/PyTypes.h`, `Mex/MexTypes.h`, `ScriptHelpers.h`, `ImageView.h` | Python's error indicator | numbers, vectors, images in either order in memory |
| Registry and entry points | `ScriptCommandModule.h`, `hip_module.cpp`, `CudaMex.cpp` | a table built before `main` | find a command by name, help texts |

**How they interact.** A front end calls a command's `convert_dispatch`, which
loads the arguments, sets defaults, converts what has a fixed type (any of which
may throw `ArgError`) and calls `execute`, which chooses the pixel type by the
first image, converts what has that type, makes the output images and runs the
backend. `execute` constructs a `ScopedProcessMutex`, so one command at a time uses the
GPUs; inside it the filter asks `CudaDevices` how much memory is free,
`calculateBuffers` turns that into extents, `calculateChunking` cuts the image,
`setMaxDeviceDims` sizes the buffers, and an OpenMP team with one thread per
device allocates buffers and works through the chunks. Each worker sends a
chunk, launches kernels that swap two buffers, and copies the chunk back into
the one output image. The mutex is released by the destructor.

**Hard behaviours.** Creation of the mutex races with its use and with its
creator's failure or death. Memory that is measured and allocated at different
times is stable only if the mutex is held in between. Kernel launches are
asynchronous. Workers share the output image and, in one filter, scalars. Any
CUDA call may fail, and inside the region that ends the process. Chunk
arithmetic mixes inclusive and exclusive ends, unsigned subtraction and
truncated divisions. A reduction in shared memory is correct only with its
barriers and for the right block sizes; threads that select in one shared array
are kept apart by an offset alone. Both engines have their own idea of an omitted
argument, of the order of axes and of who owns a reference, and an error may come
after any of the conversions.

**What makes each part correct.** *Mutex:* exclusion, initialisation before use,
recovery before use, no leaked descriptor, every construction ends, callers are
granted the GPU again after faults stop. *Command:* the mutex is held exactly
inside `execute` on every path; what was measured can be allocated. *Sizing:*
the extents fit and an image that fits is not cut. *Chunking:* every voxel in
some region of interest, no chunk outside the image, the neighbourhood sent,
buffers large enough. *Region:* each chunk done once, the result in the buffer
that is retrieved and complete when it is, memory back at the end. *Reductions:*
every element once, nothing else. *Median:* the middle of the neighbours, whatever
the other threads do. *Conversion:* the backend gets what the user wrote or the
call is refused for an argument that is wrong; the user gets outputs or an error;
what is leaked and what takes the interpreter down is known.

The hazards, each at its line, are in `PROJECT.json` with the properties that
would catch them and, where there is none, the reason.

## 2. Modules

```
GpuLock  <--refines--  ProcessMutex  <-- MCProcessMutex, ProcessMutexProofs
   ^ used by
GpuCommand  <-- MCGpuCommand, GpuCommandProofs

ChunkGeometry  <-- ChunkGeometryProofs
   ^ extended by
BufferDims  <-extends-  Chunking  <-- MCChunking, ChunkingProofs
FilterPlans
   ^ extended by
ChunkedFilter <-- MCChunkedFilter, ChunkedFilterProofs     --refines--> WorkSharing
(ChunkedFilter and Reductions extend ChunkGeometry too)
Reductions <-- MCReductions, ReductionsProofs    Median <-- MedianProofs
   ^                                                ^
SharedMemoryKernels (Reductions and Median)  <-- MCSharedMemory
NLMeans <-- MCNLMeans          EntropyRange <-- MCEntropyRange

ScriptCommands <-- ScriptObjects
                      ^ extended by
   PyConverter, MexConverter  <-instances of-  Dispatch  <-- MCDispatch, DispatchProofs
```

**GpuLock** is what `ScopedProcessMutex` promises: a caller asks, is granted when
nobody runs, and leaves. **ProcessMutex** is how the Linux branch keeps the
promise. One action is one system call or one access to shared memory, named
after what it does: `CreateShm`, `Truncate`, `MapNew`, `MarkInitializing`,
`InitMutex`, `Publish` are `try_create_mutex`; `OpenShm`, `StatSize`, `MapOld`,
`PollState` are `try_open_mutex`; `Lock`, `MakeConsistent`, `Unlock`,
`ThreadExit` the rest. `CreateShmFails`, `CreateFails` (with `Unlink`),
`OpenFails`, `OpenMissing`, `OpenerFails` and `LockFails` are the error paths of
the code; `Crash` is the end of a process at any point. An object is an identity that the
kernel may use again once no name, descriptor or mapping refers to it. The
accesses to `state` are sequentially consistent in the code, so a step at a time
is faithful.

**GpuCommand** puts a command around `GpuLock`: rejected arguments, the mutex that
cannot be had, an exception before the region, measuring, allocating, filtering
(with a leak, which some commands have), unlocking, and death at any point. Its
`Request` is what `calculateBuffers` asks for: at most the measured share.

**ChunkGeometry** is the arithmetic of `calculateChunking` along an axis as
constant operators, with `std::size_t` subtraction modulo `SizeMod` and the
few places where the code looks at all axes at once: `Vec`'s comparison holds
when all components do, so `MAX(Vec(1), deviceDims - margin*2)` is a floor only
if no axis has room; and a kernel that is even along one axis is interpolated
along all. **BufferDims** is the choice of `calculateBuffers` in its three stages;
the six copies of the branch in the code are one, over the order of the axes,
except for the divisor that differs (`GivenBack`). **Chunking** extends it, as
`calculateBuffers` ends by calling `calculateChunking`: it runs the five nested
loops of the code over the extents BufferDims has chosen, one chunk a step, into a
list addressed by `linearAddressAt`, and ends with `setMaxDeviceDims`.

**FilterPlans** has an operator per filter, named after it: what the body of its
loop over the chunks does, as a sequence of steps (send a chunk, launch, clear,
reduce) over buffers named by role (`getCurBuffer`, `getNextBuffer`,
`getThirdBuffer`, scratch). A value is the term of kernel names it was computed by,
which is enough to tell a buffer that was read in the wrong role or too early. The
third part states what the help of each filter promises as such a term, and how far
it looks along the cut axis; it is written from the help, not from the plans. The last
part says what a plan computes if every step is done before the next begins
(`StepByStep`), and when that keeps a promise (`KeepsPromise`).

**ChunkedFilter** is the parallel region every filter has, going through a plan. A
worker is an OpenMP thread; `MallocBuffer`, `LoadKernel`, `TakeChunk`, the steps
`SendROI`, `Memset`, `ReduceBuffer` and `Launch`, then `Synchronize`, `CopyWhole`,
`CopyLine`, `Clean`, `FreeBuffer` are what it does. `Launch` only queues the launch
with the buffers as they are; `RunKernel` is a device that runs the oldest launch
it was given; `SendROI`, `ReduceBuffer` and `Synchronize` wait for the queue, as
the calls they stand for do. `CudaFails` is `HANDLE_ERROR` throwing in the region,
which terminates the process. The image is reduced to the cut axis and a voxel to
its identity, its term, and whether it is what the term is on the whole image.
**WorkSharing** is what the loop over the chunks promises.

**Reductions** is `cSum`, `cMinMax` and the two `cGetMinMax`, which have one shape:
the image goes to the device piece by piece (`Launch`), the threads of each block
load (`Load`) and halve (`Reduce`, `Syncthreads`) what they hold in shared memory,
thread 0 writes it out (`WriteOut`), and when the blocks have finished the host goes
through the entries, one turn of its loop a step (`Collect`, `NextPiece`). All
interleavings of the threads and blocks are steps. A value counts how often each
element takes part in it, with one more element for what an entry holds before it
is written. What differs (the cutting, the number of blocks, the entries that are
read, where a result begins anew) is an operator each. `Overrun` is a chunk that
needs more entries than the array has.

**Median** is a block of `cudaMedianFilter`: `Gather` is a turn of the loop over the
neighbourhood, `SubDivide`, `Divide`, `PlacePivot` and `GoOn` are `SelectElement`
and `SubDivide`, one swap a step. The shared memory is one array, and nothing in
the model but `sharedMemOffset` keeps a thread to its part. **SharedMemoryKernels**
composes the two: a device runs one or the other.

**NLMeans** is `cNLMeans` on one device: a chunk is sent, `MeanAndVariance` writes
what each patch amounts to, `ReadMean` is one access of a thread of
`cudaNLMeans_mv` to the means, `WriteResult` puts its result where the mean was,
and `Retrieve` copies the buffer back. A cell holds the voxels it was computed
from. **EntropyRange** is the pair of variables that the team of `cEntropyFilter`
shares.

**Dispatch** is one call, from the interpreter's argument list to its result.
**ScriptCommands** is the command table: `Layout` is the list of parameters a
command's `SCR_CMD` line declares, `OutMap` the type of its output image.
**ScriptObjects** is what the converters see of an object: its kind, element type,
extents, order in memory and scalars; `getDimInfo`, `makeImageDims`, `View` and
`toImageCopy` are the helpers both engines share. **PyConverter** and **MexConverter** are what each
engine takes, refuses and makes of an object (`Takes`, `convert_impl`, `isEmpty`),
and how it counts arguments. The actions of Dispatch are the steps of
`convert_dispatch`, `execute` and `process` in their order: `LoadPython` or
`LoadMatlab`, `SetOptionalDefaults`, `ConvertNondeferred`, `Execute` or, for the
commands with an `execute` of their own, `ExecuteHelper`, `ConvertDeferred`,
`CreateOut` or `CreateOutFails`, `Run`, `ConvertOutputs`, `Store`. `owned` is the
references the call has made and not handed over. `Crash(cause)` is the end of the
interpreter. On the way to the backend there are four causes: a parameter of a MATLAB
call past the arguments has no cell (`NoCell`); a string is built from a null pointer
(`NullString`); the elements of a kernel are copied past the owner that was allocated for
its extents (`Overrun`); and an array of no dimensions is asked for its first (`NoAxis`).
`Run` is all that a backend can do to a call: it returns, it throws, or it takes the
interpreter down. It cuts an image that has no voxels or was never made (`CutsNothing`;
`Cuts` says which filters make chunks), it cuts a difference to extents that only one of
its images has (`Unequal`), or it ends by itself, as when a CUDA error leaves the parallel
region (in ChunkedFilter `CudaFails`, in WorkSharing `Abort`) or a destructor. What is
undefined in C++ is a choice: a copy past its memory, or a null string, may end the
process or go on as the code reads.

In several modules an operator introduced by "What-if" stands just before the
definition it varies. No specification uses it: it is a plausible mistake in that
code, kept to show that a property of the runs would notice.

## 3. Runs

| Run | States | Shows |
|---|---|---|
| `mutex_safety` | 58,339 | three threads, every failure and death: exclusion, initialised before locked, recovered before used, nothing leaked, a published mutex keeps its name; the invariant of the proof; refinement of `GpuLock` |
| `mutex_liveness` | 39,150 | every construction ends; the GPU is granted again once faults stop, unless the name is wedged |
| `mutex_wedge` | violated | without the exception: a creator's death between `shm_open` and `Valid` |
| `command` | 443,089 | the mutex follows the command on every path; the allocation fits; only leaks are held between calls; every call ends |
| `buffers` | 67,769 | from the free memory to the list of chunks: every voxel covered, chunks inside the image, the neighbourhood sent, buffers that hold every chunk and exceed the memory by a plane along a cut axis at most, an image that fits left whole, division by zero only without room for a line |
| `filter` | 30,250 | eighteen calls, fifteen filters, cut and whole: each chunk once, what is copied back is what the help promises, right in the region of interest; memory back, budget kept; refinement of `WorkSharing`; termination. The calls meet the assumption on jobs |
| `filter_cut` | violated | the output of an image that is cut differs from the filter of the image at the cut |
| `shared_memory` | 105,275 | sums and ranges: blocks keep their elements in any order of threads; exactly when a sum is exact; what a range leaves out and what garbage it sees; when the entries suffice. Medians: each thread selects the middle of its neighbours within its own part of the memory, and ends |
| `sum_cut` | violated | overlapping chunks are summed twice |
| `dispatch` | 91,312 | both engines, every layout of parameters, every number of arguments, every kind of object: the backend sees what was written or the call is refused for an argument that is wrong; outputs or an error; what leaks, and what takes the interpreter down before or in the backend, is what is named |
| `nlmeans` | violated | a thread compares with a neighbour's result in place of its patch's mean |
| `entropy_range` | violated | a chunk is binned over the range of another |

**Bounds, and why they are enough.** *Mutex:* three threads give a creator, an
opener and a third who sees what both left; four objects leave a free one for
every new creation while each thread still holds an old one; `ChkLimit` 2 (for
100 polls) has a poll that goes on and one that gives up. Liveness uses two
threads and three objects, without symmetry, which is unsound there. Threads and
objects are symmetric in the safety run: no property names one. *Command:* three
processes, two calls each, a request that fits and one that does not. `SizeMod`
is 1024 for 2^64: wrap-around happens for the same inputs, and no other value
comes near it. *Buffers:* 24 images of up to 9 by 5 by 6 voxels with up to two
channels and three frames, 18 kernels of 1 to 5, even and odd, nine memories of 1 to
150 voxels: each axis is kept, cut second and cut last, is clipped at both ends,
is given the rest, has less room than its margins. *Filter:* two devices and eighteen calls, see `MCChunkedFilter`:
chunks outnumber workers, the share of a team of two is uneven, and fourteen
launches run ahead of the device. *Reductions:* blocks of one to four threads, three
among them, grids that take two turns, images in one chunk, two and three of
unequal size; arrays of up to 13 elements in pieces that fill a block, leave a
remainder, or are smaller. *Median:* one thread on all lines of five voxels of four
values and of seven of two; two threads with every kernel of three, some of whose
neighbourhoods are empty, in a block inside the image and one that leaves it; three
threads. Larger blocks add no interleaving of another kind, since threads meet only
through the array. *NLMeans:* chunks of four voxels and three. *Dispatch:* an
argument of each kind its converter tells apart, for each parameter: images in
either order and not contiguous, empty, without axes, of a signed type no command has, with six
axes and with more channels than a byte counts, so that a difference meets images of
unequal extents; kernels with each of these; vectors written as list, tuple and array, one of
them without axes; ints beyond the bounds; strings with and without a UTF-8 form. `IntMod`,
`LongLong`, `DoubleLimit` and `ByteMod` are 8, 32, 64 and 4 for 2^32, 2^63, 2^1024 and 256:
what matters is that a number is within, beyond the first, beyond the second, and beyond
the third. Two devices; one
command stands for those with its layout (`Closure` for the filters with a kernel).

**Deadlock** is checked except where a sequential computation simply ends (`buffers`,
`dispatch`, `nlmeans`, `entropy_range`), which has no last step to stutter with.
ChunkedFilter, GpuCommand, Reductions and SharedMemoryKernels end in an explicit
`Over`.

**Fairness.** ProcessMutex: each thread that is inside a construction, waiting for
the mutex or using the GPU is scheduled (weak fairness of its progress steps);
calling, failing, ending and dying are never forced, and a waiter may be
overtaken for ever, as a pthread mutex has no queue. GpuCommand: the same, per
process; calls are finite, so a waiter is overtaken only finitely often.
ChunkedFilter: threads are scheduled and a device runs what was launched; CUDA
calls need not fail. SharedMemoryKernels: some thread of a median launch goes on,
as a launch that has started runs its threads to their end. GrantedUnlessWedged assumes, as its premises, that faults
stop and that somebody keeps calling.

## 4. What the code does and its words do not say

Shown by runs that find a violation:

* `mutex_wedge`. A process that dies while it makes the mutex (between
  `shm_open` and the store of `Valid`, `ScopedProcessMutex.cpp:182-241`) leaves
  the name bound to an object no opener will ever find valid. Each later call
  polls, times out and throws, and nothing unlinks the name.
* `filter_cut`. `retriveROI` copies a chunk back with its margins
  (`ImageChunk.h:104-121`); `imageROIstart` and `imageROIend` are not used.
  The voxels beside a cut depend on which worker ends last, and are wrong for
  one of them.
* `sum_cut`. `cSum` adds up whole chunks, and chunks overlap.
* `entropy_range`. `minVal` and `maxVal` of `cEntropyFilter` are shared by the
  team (`CudaEntropyFilter.cuh:64`).
* `nlmeans`. `cudaNLMeans_mv` writes into the means it compares with
  (`CudaNLMeans.cuh:46,64`): the result depends on the order of the blocks.

Met while modelling, and excluded by the conditions of properties that hold:

* A chunk is one plane longer than the step and the margins, its end being
  inclusive (`ImageChunk.cpp:79`): buffers exceed the memory they were sized for by a
  plane along each cut axis. `FitsButForAPlane` is the bound that holds; where an
  axis has no room beside its margins even that fails, since the step is almost 2^64.
* An axis with room for exactly its margins has a step of zero, and the number of its
  chunks is 0/0 or infinity converted to an integer (`ImageChunk.cpp:28-54`). Such
  calls are outside Chunking: it stops where the code is undefined.
* Margins are for one pass, plus one: `cClosure`, `cOpener` and `numIterations` make
  more. A kernel of 3 in two passes still has enough (a call of the run `filter`); for
  a kernel of 5 the region of interest is wrong at a cut, hence the condition of
  `ROIRightWhenRetrieved` that the margin is as wide as the value looks.
* `cWienerFilter` without a noise variance takes it from each chunk
  (`CudaWienerFilter.cuh:73-79`): the output of an image that is cut is that of no
  whole image. In ChunkedFilter its promise looks as far as the image is long, so
  `RightAwayFromCuts` claims it for an image in one chunk only.
* `cudaSum` and `cudaMinMax` lose elements in blocks that are not a power of two
  (`CudaSum.cuh:41`). `SumIsExactWhen` says exactly when the sum is that of the image.
* The partial sums have as many entries as the first chunk has blocks, and the first
  chunk is clipped to one margin (`CudaSum.cuh:145`). `EntriesEnough`: two chunks are
  always safe, three are not.
* `cMinMax` returns the range of its last chunk (`CudaMinMax.cuh:83`): `NoneLeftOut` has
  exactly the voxels of that chunk in it once an image is larger than one block.
* What is given back to x is divided by x (`ImageChunk.cpp:187,226`): hence
  `GivenToX` in Chunking.
* `cGetMinMax` truncates the number of blocks and reads as many entries as the
  rounded-up number (`CudaGetMinMax.cuh:177,108`): hence the premises of
  `NoneLeftOut` and `NoGarbageSeen`. A piece smaller than a block is left out.
* A median of no neighbours, when a kernel has weights only outside the image, reads
  before the thread's part (`CudaMedianFilter.cuh:21,68`): `at` is "undefined" there.
* A Python int beyond long long, or one too large for a double, becomes -1, the command
  runs, and the caller gets the output with OverflowError pending (`PyTypes.h:229,247`);
  one beyond int keeps its low bits. Channels are counted in an unsigned char
  (`ImageView.h:27`), so a view may show less than its array, and never more: the cases of
  `Shows` and `Means`.
* The output array of a Python call whose backend raises is never given back
  (`scriptTypes` holds a plain pointer), nor are the fields of the structures `Info`,
  `DeviceCount` and `DeviceStats` return (`PyTypes.h:125`): `OnlyKnownLeaks`.
* What takes the interpreter down, each a case of `CrashesOnlyAsKnown`. A MATLAB call
  that omits an argument or an output dereferences a cell that is not there. `Help` of
  something that is no string (`MexTypes.h:197`), or of a str with no UTF-8 form
  (`PyTypes.h:271`), builds a string from null. A kernel of 256 or more channels, or with a
  sixth axis, is copied whole into an owner of the truncated extents (`PyTypes.h:387-390`,
  `MexTypes.h:295-298`). A vector given as an array of no dimensions is asked for its
  first one (`PyTypes.h:323`). In the backend: an image that is empty, or an output that no
  memory was found for (`PyTypes.h:81`), makes `calculateBuffers` divide by zero
  (`ImageChunk.cpp:117-246`), or a difference read from, or a filter write to, a view of
  nothing. A difference is cut by the larger of its images and written to an output with
  the extents of the first (`CudaElementWiseDifference.cuh:39,70`). And `HANDLE_ERROR` throws
  inside a parallel region, or in a destructor (`CudaGetMinMax.cuh:79`), where nobody can
  catch it.

## 5. Proofs

The theorems hold for every set of threads, processes and objects and every value of
the constants, from the assumptions named in the modules and nothing else.

**ProcessMutexProofs.** `MutexInvariant` proves `MutexInv` by one step per action.
The properties need it because each of them is about what *another* thread may
do to the object a thread has mapped. The argument: `O_EXCL` makes the creator
unique (`CreatorInv`), so only one thread may unlink the name, and it does so
only before it publishes; hence a `Valid` object keeps its name, is initialised,
and is the one every kept `procMutex` maps (`ValidInv`); hence all threads that
lock, lock the same mutex, and who is in the critical section is its owner
(`OwnerInv`). `MappingInv` says what is open and mapped at each point. From it
follow mutual exclusion, no lock before initialisation, recovery before use, no
leak, `ValidStaysNamed`, and that each step is a step of `GpuLock` or a stutter
(`MutexImplementsGpuLock`).

**GpuCommandProofs.** `CommandInv` conjoins `LockFollowsCommand` (the phase of the
lock and the place in the program agree), `OneInside`, `AllocationFits` and that
buffers are held while they are used. `AllocationFits` is inductive because free
memory is reduced only by the one command that is inside; another process may
only give memory back, by dying. `OnlyLeaksHeld` needs more: that what a process
holds is its leaks and its buffers, in every place of the program.

**ChunkGeometryProofs.** For every extent of image, device and kernel: the regions
of interest cover an axis, a chunk lies inside the image, it is at most a step,
two margins and one plane long, and the neighbourhood of every position of the
region of interest is inside what is sent. Each is stated of `ceil(n/d)` chunks
of step `d`; an axis that is not cut is the case `d = n`.

**ChunkingProofs.** `ChunkingInv` says where the loops of `calculateChunking` are. Its
core is that the five counters are the digits of a number in mixed radix, that
`linearAddressAt` is that number, and that `NextCounters` adds one to it
(`Digits`, `AddressesDiffer`, `NextAddress`, `LastAddress`): so the slots below the
counters' address are filled, each with the chunk of its own counters, no slot is
written twice, and when the loops end every slot is full. Each chunk being that of
some steps (`ChunkAtIs`), the theorems of ChunkGeometryProofs apply to it axis by
axis: `EveryVoxelCovered`, `ChunksInsideImage`, `NeighbourhoodSent`; and
`BuffersHoldEveryChunk`, as a product grows with its factors. `VolumeInv` says what
`calculateBuffers` arrives at: extents within the image's whose volume fits the memory,
and the image's own when that fits, unless the rest was given to x. The last part is the
delicate one: if the square's side s cuts the second axis, the third is always left more
than its extent and gives the rest back, because s*s lines fit, so that a third extent
no larger than its axis is at least s, while an image that fits makes it smaller
(`ThirdTakesAll`). With the bound of a chunk by its step this gives `FitsButForAPlane`
and `WholeUnlessGivenToX`. That
`calculateBuffers` faults only without room for a line rests on the greatest side
whose square fits, which exists by the least-number principle (`LeastNumber`,
proved from the library's well-founded order of the naturals).

**MedianProofs.** `SelectionInv` is inductive for every image, kernel, number of
threads and block: while a thread divides, what is left of `b` is no larger and what
is right of `e` is larger than the pivot; between divisions the middle lies between
`pB` and `pE` and the elements outside are on their right sides. Two things carry
the proof: a swap inside a range keeps what every element of the range had
(`SwapKeepsOrder`), and a step of one thread leaves the parts of the others alone,
because products of different lanes with the kernel's extent are an extent apart
(`PartsApart`, `Others`). `LanesKeepApart` follows. That the value selected is the median
needs to know what is being selected from: `MedianInv` adds that a thread's part holds
every weighted neighbour it has looked at, each at one place, through a bijection that
gathering extends (`ExtendedBijection`) and every swap composes with an exchange
(`ExchangedBijection`). When the selection is over, the places below and above the middle
are counted, and the bijection carries the two counts over to the neighbours
(`MiddleInNumber`): at most half of them are smaller and at most half are larger, which
is `MedianRight`.

**ReductionsProofs.** For every image, device, size of block and interleaving. Which
elements a thread takes is arithmetic: an element has one quotient and rest by the grid
and by the block, so no two threads take the same and together they take the piece
(`ShareIs`, `SharesApart`, `GridIs`). `IInv` says of a block that its slots hold its
threads' elements or nothing while it loads, and afterwards, if its size halves evenly,
that each element is counted once by one live slot (`Keeps`); of the host, that it has
counted an element as often as pieces it has gone through contain it, `Times`, with the
blocks of the piece in hand. What is live is what makes this inductive: a slot that was
added to another one still holds its elements and must not be looked at again. From `IInv`
follow `BlockKeepsItsElements` and `NoGarbageSeen`. `EntriesEnough` is
about sizes only: with two chunks the first is the larger (`FirstOfTwo`), and a larger
chunk has no fewer blocks (`SmallerChunk`). `SumIsExactWhen` also claims that a sum is
wrong otherwise, for which the losses have to be followed. `LInv` does: the first
stride that is odd and not one leaves a slot out for good, all slots below it and the
first one above it are in the sum (`Loses`), and so the first block loses an element
of the piece and counts the ones before it and the one after it (`PieceSums`). `LInv` also
says which images stay on the host, and with `RangeInv`, the part of `IInv` that makes the
range of `cMinMax` that of its last chunk, gives `NoneLeftOut`. In an image
that is cut the first two voxels of the second piece lie in the first as well (`Overlap`),
and the second piece counts them, since thread 0 and thread 1 of a block lose nothing.
So either one of them counts twice, or what the first piece lost lies before them, in no
other piece, and is missing (`FirstPiece`).

**ChunkedFilterProofs.** `RegionInv` holds of every filter, image, kernel and number of
devices. A worker's chunks are those whose number has its own remainder by the size of
the team; the ones below where it is (`idx`) are done, the one at `idx` is taken while
it is being filtered or copied back, the rest wait. Because a worker steps by the size
of the team it meets all of its chunks and none of another's (`Residue`, `Stride`), so
each step is one of WorkSharing's or a stutter, and a failed CUDA call is its `Abort`
(`RegionSharesTheWork`). What is held on a device follows from the place of the worker
in the region, which gives `MemoryReleased`. A team has no more workers than there are
devices, so no two share one (`DevicesDiffer`), and `DeviceBudgetKept` is about a single
worker's buffers.

What the filters compute takes two more invariants. `FlowInv` compares each worker with
its plan done step by step. The host may be ahead of its device: what is queued are the
plan's next launches, over the buffers that were current when they were issued, and what
the device has run has left in every buffer what the plan leaves there (`Follows`). A
buffer carries a value if each of its voxels is computed by the right term from the right
place, and exactly so where the chunk holds all that the value looks at; a value looks at
as many distances as there are ways it was computed, each stencil adding half its extent.
That is kept by a launch because a voxel's neighbours look less far by that half
(`WindowSees`, `FilteredExact`); by the host's steps because only a launch is ever
pending, and sending, reducing and copying back wait for it; by a change of the current
buffer because roles are resolved when a launch is issued. `ROIRightWhenRetrieved` follows:
the buffer that is copied back is the plan's result (`ResultIsPromised`), and the margin
that is sent holds what the region of interest looks at (`MarginHolds`). `OutputInv` is
about the image the workers share: a voxel of a chunk that is done, or of a line that was
copied, is right, and since *right* asks that every chunk holding the voxel holds its
neighbourhood, another worker that copies its overlapping chunk over it leaves it right.
With `RegionInv` (at the end all chunks are done) and the cover of the axis this gives
`RightAwayFromCuts`.

These theorems assume of a job (`Job`, which TLC evaluates for the calls of the run) that
its plan allocates no more buffers than the memory was divided by, and that done step by
step it keeps its promise, whichever buffer is current when a chunk begins. Both are
proved of the filters: the first in `PlansCountTheirBuffers`, the second in the last part
of the module, for images of any length and kernels of any odd extent: the seven filters
of one stencil, closure and opener for any number of iterations; the Gaussian, once and
twice; high pass; LoG along x and z; difference; identity; and Wiener with its noise given
or estimated, there for kernels whose half is no longer than the image. The argument is a
chain of stencils (`Chain`, `ChainRuns`): before each the current buffer means a term and
a reach, after it the next one, and the chain's links are those of the promise; what is
set aside in a third or scratch buffer is not touched by the ring.

**DispatchProofs.** TLC goes through a table of calls; the theorems are about any call of
any command. `CallInv` follows three things through the conversion. `OutputInv`: an
output has a cell exactly when the interpreter takes it, and in Python no object before
it is made. `OwnedInv`: what the call has made and not handed over, by its place.
`ErrorInv`: the error indicator is clear, or an integer overflowed, or no memory was
found for an output, which then has no object, so that the call must fail.
`ResultXorError` and `OnlyKnownLeaks` follow.
`FateInv` says what the call has been through: a parameter has what was passed for it
(`ArgumentInv`), which needs that the required parameters come first, so that a list that
is long enough has all of them; an argument is rejected exactly when it is wrong
(`RejectedIsWrong`), so the place of a call says which of its arguments are right
(`RefusalInv`, hence `RefusedIffWrong`, for which no cause may be the name of an argument:
`NoNameIsACause`); and the output that is made for an image is empty only when the image
is, its extents being turned round twice (`VoxelInv`, `ReverseTwice`). What is needed of the command table is proved by its cases
(`LayoutsAreGood`): an image output is a command's only one, a helper command has none,
the options come last, what is deferred and comes in is an image, only Help has a string,
vectors are of doubles.
`ValueInv` is about what the arguments hold: each keeps its blank or default value until
its turn, then has what was passed for it converted, and the output is made like the first
image. `BackendSeesTheCall` follows from lemmas about the conversions: up to five extents
have the same product read from either end (`ProductBackwards`), and five of more extents
make no more than all of them (`FiveOfMore`, by the least number of extents for which it
would fail), so a view shows the whole array if it can and never a voxel beyond it
(`ViewShows`); a cast to int gives back nothing that is beyond long long (`WrapFits`), so an
overflow is never taken for what the user wrote (`NumberIsMeant`); Python's reversed vector
is the one that was written (`VectorIsMeant`).
`CrashesOnlyAsKnown` is an induction of its own over the three invariants, cause by cause.
Before the backend (`ConvertCrash`): what has no cell was not given, which only a MATLAB
call survives loading; a string is a parameter of `Help` alone; an array that runs over its
copy is one that no view can show (`OverrunDoesNotFit`, from `ViewShows`). In the backend
(`RunCrash`): an image input is seen through its view unless it is empty (`SeenImages`), an
output has no voxels only if the first image has none or no memory was found, and two
views differ only if their arrays do in extents or order. What makes a step's cause known
before the step makes it known after (`KnownCrash`), as the call does not change.
Of the calls it is assumed that they name a command, ask for a number of outputs, and pass
objects, which in MATLAB are column-major arrays; that an array has as many items as its
extents say, a number one; and that a Python int is an integer (`DispatchAssumption`,
`Passable`).

**Only model-checked.** All liveness (`ConstructionEnds`, `GrantedUnlessWedged`,
`CallEnds`, `FilterEnds`, `MedianEnds`): fairness and ENABLED are out of the prover's
reach. Every safety property of the passing runs has a theorem. What a recursive
function computes by induction over data is proved only where an induction over a
bounded range of naturals can be written out (`UpTo`): so it is for `StepByStep`,
`Applied`, `Repeat`, `FlattenSeq` and the products of extents (`Products`); the Gaussian's promise is stated for one and two
iterations and the LoG's for two axes, the ones the help's terms are written for.

## 6. Limits of the models

* The Windows and Boost variants of the mutex, `remove()` (nothing calls it), and
  users with different names of the mutex are not modelled.
* OpenMP may grant a smaller team than requested; the models give what is asked
  for. A smaller team changes only the stride.
* At least one device. Without any, `getDeviceIdx` divides by zero.
* ChunkedFilter cuts along one axis and has odd kernels and one channel; even
  kernels are in Chunking (what is read) but not their weights.
* `cMedianFilter` copies on the host for a kernel of one voxel and refuses one that is
  too large before the region starts: neither is in its plan. Median has a line of
  voxels, an odd kernel of weights 0 and 1, and no clamp to the output type.
* Reductions has one device and an image of one line per channel.
* NLMeans has one device, chunks that are lines, and no weights; what `cNLMeans` leaves
  allocated (its host kernel, and on the device its kernel object) is in GpuCommand
  only, as a command that leaks.
* In Dispatch MATLAB doubles are integers in the range of int, MATLAB's arrays are full
  and not sparse, and MATLAB finds memory. Python finds memory for small objects (scalars,
  tuples, lists), but not always for an image. An int below `DoubleLimit` is exact as a
  double; a large one is rounded by the code. Lookup of a command's name, registration and
  help texts are left out. Why a filter ends by itself is not told apart there: a CUDA
  error, or numbers it cannot do with (an empty kernel, a device that does not exist).
* Values of voxels, types, saturation, formatting and help texts are left out.

## 7. Not modelled

* *Entropy's histogram*: the bin of a value is decided by rounding in floating point
  (`CudaEntropyFilter.cuh:43`); a model in integers would invent the answer.
* *Interpolation*: weights of even kernels and the stale `roiSizes`
  (`CudaImageContainer.cuh:70`) need values between voxels; the voxels they are made
  from are in ChunkGeometry.
* *Kernel generators* (Gaussian, LoG): formulas; only the extents of a kernel matter here.
* *Offset copies* of kernels (`Kernel.cu`): which part of the constant symbol is read.
* *Launch limits* (threads and shared memory of a compiled kernel): attributes of the
  compiled code; ChunkedFilter has a launch that fails, not why.
* *Entry points* (`hip_module.cpp`, `CudaMex.cpp`) and the registry's lookup and texts:
  calls of the interpreters' own functions.
* *Windows and Boost* variants of the mutex: thin layers over those libraries.
* `cAddTwoImages` and `cMeanAndVariance` as host functions: no command reaches them.
