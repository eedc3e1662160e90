-------------------------- MODULE ChunkedFilterProofs --------------------------
(***************************************************************************)
(* That the parallel region of any filter, on any image and any number of  *)
(* devices, does every chunk once, holds no more of a device than its      *)
(* buffers were sized for, and gives all of it back; and that its launches *)
(* and copies, however they interleave, come to what the plan computes     *)
(* step by step, in the chunk and in the output.                           *)
(***************************************************************************)
EXTENDS ChunkedFilter, ChunkGeometryProofs, FiniteSetTheorems, SequenceTheorems

\* A plan allocates as many buffers as its filter sizes them by.
Counted(plan) ==
  plan.ring + plan.scratch = plan.needed /\ plan.ring \in Nat \ {0} /\ plan.scratch \in Nat

\* So does every filter's, whatever its kernel: what is assumed of a job holds of them all.
LEMMA PlansCountTheirBuffers ==
  ASSUME NEW k, NEW n, NEW on, NEW given
  PROVE  /\ Counted(cMaxFilter(k, n)) /\ Counted(cMinFilter(k, n)) /\ Counted(cMeanFilter(k, n))
         /\ Counted(cStdFilter(k, n)) /\ Counted(cVarFilter(k, n)) /\ Counted(cMultiplySum(k, n))
         /\ Counted(cMedianFilter(k, n)) /\ Counted(cClosure(k, n)) /\ Counted(cOpener(k, n))
         /\ Counted(cIdentityFilter) /\ Counted(cGaussian(k, n)) /\ Counted(cHighPassFilter(k))
         /\ Counted(cLoG(on, k)) /\ Counted(cElementWiseDifference)
         /\ Counted(cWienerFilter(k, given))
<1>1. ASSUME NEW e, NEW s PROVE Counted(TwoBuffers(e, s))
  BY DEF Counted, TwoBuffers
<1>2. ASSUME NEW e, NEW s, NEW r PROVE Counted(ThreeBuffers(e, s, r))
  BY DEF Counted, ThreeBuffers, TwoBuffers
<1>3. Counted(cIdentityFilter)
  BY DEF Counted, cIdentityFilter, TwoBuffers
<1>4. Counted(cElementWiseDifference)
  BY DEF Counted, cElementWiseDifference, ThreeBuffers, TwoBuffers
<1>5. Counted(cLoG(on, k))
  BY DEF Counted, cLoG
<1>6. Counted(cHighPassFilter(k))
  BY <1>2, Zenon DEF cHighPassFilter
<1>7. /\ Counted(cMaxFilter(k, n)) /\ Counted(cMinFilter(k, n)) /\ Counted(cMeanFilter(k, n))
      /\ Counted(cStdFilter(k, n)) /\ Counted(cVarFilter(k, n)) /\ Counted(cMultiplySum(k, n))
      /\ Counted(cMedianFilter(k, n)) /\ Counted(cClosure(k, n)) /\ Counted(cOpener(k, n))
      /\ Counted(cGaussian(k, n)) /\ Counted(cWienerFilter(k, given))
  BY <1>1, Zenon DEF cMaxFilter, cMinFilter, cMeanFilter, cStdFilter, cVarFilter, cMultiplySum,
       cMedianFilter, cClosure, cOpener, cGaussian, cWienerFilter
<1> QED
  BY <1>3, <1>4, <1>5, <1>6, <1>7

-----------------------------------------------------------------------------
(***************************************************************************)
(* The numbers of a call                                                   *)
(***************************************************************************)
\* The numbers a job gives the region.
LEMMA JobNumbers ==
  ASSUME job \in Jobs
  PROVE  /\ Length \in Nat \ {0} /\ DeviceLength \in Nat \ {0} /\ KernelLength \in Nat \ {0}
         /\ Ring \in Nat \ {0} /\ job.plan.scratch \in Nat /\ job.plan.needed \in Nat
         /\ job.promise.reach \in Nat /\ Ring + job.plan.scratch <= job.plan.needed
         /\ WellDefined(Shape(Length), Shape(DeviceLength), Shape(KernelLength))
         /\ WellFormed(job.plan) /\ KeepsPromise(job.plan, Length, job.promise)
<1>1. Job(job)
  BY ChunkedFilterAssumption
<1> QED
  BY <1>1, Zenon DEF Job, Length, DeviceLength, KernelLength, Ring

\* The numbers a call computes from them before the region starts.
LEMMA CallNumbers ==
  ASSUME job \in Jobs
  PROVE  /\ NumChunks1 \in Nat \ {0}
         /\ Team \in Nat \ {0} /\ Team <= NumDevices
         /\ NumBuffers \in Nat \ {0} /\ NumBuffers <= job.plan.needed /\ job.plan.needed \in Nat
<1>1. NumDevices \in Nat \ {0} /\ SizeMod \in Nat \ {0}
  BY ChunkedFilterAssumption, SizeModAssumption
<1>2. NumBuffers \in Nat \ {0} /\ NumBuffers <= job.plan.needed /\ job.plan.needed \in Nat
  BY JobNumbers DEF NumBuffers
<1> DEFINE im == Shape(Length)
           dev == Shape(DeviceLength)
           kern == Shape(KernelLength)
<1>3. WellDefined(im, dev, kern) /\ Length \in Nat \ {0}
  BY JobNumbers
<1>4. "z" \in Axis /\ im["z"] = Length
  BY DEF Axis, Shape
<1>5. DeviceDelta(dev, kern)["z"] \in Int
  <2>1. \A a \in Axis : dev[a] \in Int /\ Margin(kern[a]) \in Int
    BY JobNumbers DEF Shape, Margin
  <2>2. Room(dev["z"], kern["z"]) \in Int
    BY <1>1, <1>4, <2>1 DEF Room
  <2> QED
    BY <1>4, <2>2 DEF DeviceDelta
<1>6. NumChunks1 \in Nat \ {0}
  <2>1. CASE IsCut(im["z"], dev["z"])
    <3>1. DeviceDelta(dev, kern)["z"] \in Nat \ {0}
      BY <1>3, <1>4, <1>5, <2>1 DEF WellDefined
    <3> QED
      BY <1>3, <1>4, <2>1, <3>1, CeilDivBounds DEF NumChunks1, NumChunks
  <2>2. CASE ~IsCut(im["z"], dev["z"])
    BY <1>4, <2>2 DEF NumChunks1, NumChunks
  <2> QED
    BY <2>1, <2>2
<1>7. Team \in Nat \ {0} /\ Team <= NumDevices
  BY <1>1, <1>6 DEF Team, Least
<1> QED
  BY <1>2, <1>6, <1>7

\* The worker of a chunk, and of the one a team further on.
LEMMA Residue ==
  ASSUME NEW T \in Nat \ {0}, NEW a \in Nat
  PROVE  /\ a % T \in 0 .. T - 1
         /\ a < T => a % T = a
         /\ (a + T) % T = a % T
<1> DEFINE p == a \div T
           r == a % T
           s == (a + T) \div T
           t == (a + T) % T
<1>1. p \in Nat /\ r \in 0 .. T - 1 /\ a = r + T * p
  OBVIOUS
<1>2. s \in Nat /\ t \in 0 .. T - 1 /\ a + T = t + T * s
  OBVIOUS
<1>3. a < T => r = a
  OBVIOUS
<1> HIDE DEF p, r, s, t
<1>4. T * (p + 1) = T * p + T /\ T * (s + 1) = T * s + T /\ T * (p + 2) = T * p + T + T
  BY <1>1, <1>2
<1>5. s < p + 1 => T * (s + 1) <= T * (p + 1)
  BY <1>1, <1>2
<1>6. p + 1 < s => T * (p + 2) <= T * s
  BY <1>1, <1>2
<1>7. s = p + 1
  BY <1>1, <1>2, <1>4, <1>5, <1>6
<1>8. t = r
  BY <1>1, <1>2, <1>4, <1>7
<1> QED
  BY <1>1, <1>3, <1>8 DEF r, t

\* Two chunks of the same worker are a team apart.
LEMMA Stride ==
  ASSUME NEW T \in Nat \ {0}, NEW a \in Nat, NEW b \in Nat, a % T = b % T, a < b
  PROVE  a + T <= b
<1> DEFINE p == a \div T
           q == b \div T
<1>1. p \in Nat /\ a % T \in 0 .. T - 1 /\ a = (a % T) + T * p
  OBVIOUS
<1>2. q \in Nat /\ b = (b % T) + T * q
  OBVIOUS
<1> HIDE DEF p, q
<1>3. q <= p => T * q <= T * p
  BY <1>1, <1>2
<1>4. p < q
  BY <1>1, <1>2, <1>3
<1>5. T * (p + 1) <= T * q /\ T * (p + 1) = T * p + T
  BY <1>1, <1>2, <1>4
<1> QED
  BY <1>1, <1>2, <1>5

-----------------------------------------------------------------------------
(***************************************************************************)
(* The invariant: what each worker holds, and how far it is with its share *)
(***************************************************************************)
Place == {"malloc", "kernel", "loop", "body", "copy", "free", "barrier"}

RegionType ==
  /\ job \in Jobs
  /\ pc \in [Worker -> Place]
  /\ held \in [Worker -> 0 .. NumBuffers]
  /\ kernelHeld \in [Worker -> BOOLEAN]
  /\ idx \in [Worker -> Nat]
  /\ status \in {"running", "returned", "aborted"}
  /\ progress \in [Chunks -> {"waiting", "taken", "done"}]

\* A worker's buffers are there from "kernel" to "free", its kernel from then on to Clean.
Holds(w) ==
  /\ pc[w] = "malloc" => held[w] < NumBuffers
  /\ pc[w] \in {"kernel", "loop", "body", "copy"} => held[w] = NumBuffers
  /\ pc[w] = "free" => held[w] > 0
  /\ pc[w] = "barrier" => held[w] = 0
  /\ pc[w] \in {"malloc", "kernel", "free", "barrier"} => kernelHeld[w] = FALSE

Memory ==
  /\ status = "aborted" => \A w \in Worker : held[w] = 0 /\ kernelHeld[w] = FALSE
  /\ status # "aborted" => \A w \in Worker : Holds(w)
  /\ status = "returned" => \A w \in Worker : pc[w] = "barrier"

\* The chunks of a worker are done up to the one it is at.
Expected(w, i) ==
  IF i < idx[w] THEN "done"
  ELSE IF i = idx[w] /\ pc[w] \in {"body", "copy"} THEN "taken"
  ELSE "waiting"

Share(w) ==
  /\ idx[w] % Team = w
  /\ pc[w] \in {"body", "copy"} => idx[w] < NumChunks1
  /\ pc[w] \in {"free", "barrier"} => idx[w] >= NumChunks1
  /\ \A i \in Chunks : i % Team = w => progress[i] = Expected(w, i)

RegionInv == RegionType /\ Memory /\ \A w \in Worker : Share(w)

\* They stay what they are while the job does.
LEMMA SameCall ==
  ASSUME UNCHANGED job
  PROVE  /\ Team' = Team /\ NumChunks1' = NumChunks1 /\ NumBuffers' = NumBuffers
         /\ Worker' = Worker /\ Chunks' = Chunks
<1>1. NumChunks1' = NumChunks1 /\ NumBuffers' = NumBuffers
  BY DEF NumChunks1, NumBuffers, Ring, Length, DeviceLength, KernelLength, NumChunks,
         DeviceDelta, Room, Shape
<1>2. Team' = Team
  BY <1>1 DEF Team
<1> QED
  BY <1>1, <1>2 DEF Worker, Chunks

\* The region's invariant holds when a call begins.
LEMMA RegionInit == Init => RegionInv
<1> SUFFICES ASSUME Init PROVE RegionInv
  OBVIOUS
<1>1. /\ NumChunks1 \in Nat \ {0} /\ Team \in Nat \ {0} /\ NumBuffers \in Nat \ {0}
  BY CallNumbers DEF Init
<1>2. Worker = 0 .. Team - 1 /\ Chunks = 0 .. NumChunks1 - 1
  BY DEF Worker, Chunks
<1>3. RegionType
  BY <1>1, <1>2 DEF Init, RegionType, Place
<1>4. Memory
  BY <1>1 DEF Init, Memory, Holds
<1>5. ASSUME NEW w \in Worker PROVE Share(w)
  <2>1. w \in Nat /\ w < Team
    BY <1>1, <1>2
  <2>2. w % Team = w
    BY <1>1, <2>1, Residue
  <2>3. idx[w] = w /\ pc[w] = "malloc"
    BY DEF Init
  <2>4. ASSUME NEW i \in Chunks, i % Team = w PROVE w <= i
    <3>1. i < Team => i % Team = i
      <4>1. i \in Nat
        BY <1>1, <1>2
      <4> QED
        BY <1>1, <4>1, Residue
    <3> QED
      BY <1>1, <1>2, <2>1, <2>4, <3>1
  <2>5. ASSUME NEW i \in Chunks, i % Team = w PROVE progress[i] = Expected(w, i)
    BY <1>2, <2>1, <2>3, <2>4, <2>5 DEF Init, Expected
  <2> QED
    BY <2>2, <2>3, <2>5 DEF Share
<1> QED
  BY <1>3, <1>4, <1>5 DEF RegionInv

-----------------------------------------------------------------------------
(***************************************************************************)
(* The steps                                                               *)
(***************************************************************************)
\* A worker goes from one place to another with the same chunk in the same state.
Moves(w) ==
  /\ status = "running" /\ UNCHANGED <<job, idx, progress, status>>
  /\ \E where \in Place :
       /\ pc' = [pc EXCEPT ![w] = where]
       /\ pc[w] \in {"body", "copy"} <=> where \in {"body", "copy"}
       /\ where \in {"free", "barrier"} => idx[w] >= NumChunks1

\* What the worker holds changes as its place says.
HoldsAfter(w) ==
  /\ held' \in [Worker -> 0 .. NumBuffers] /\ kernelHeld' \in [Worker -> BOOLEAN]
  /\ Holds(w)'
  /\ \A u \in Worker \ {w} : held'[u] = held[u] /\ kernelHeld'[u] = kernelHeld[u]

\* A worker that only moves on, with the memory its new place has, keeps it.
LEMMA MovesKeep ==
  ASSUME RegionInv, NEW w \in Worker, Moves(w), HoldsAfter(w)
  PROVE  RegionInv'
<1> USE SameCall
<1>1. UNCHANGED job
  BY DEF Moves
<1>2. PICK where \in Place :
         /\ pc' = [pc EXCEPT ![w] = where]
         /\ pc[w] \in {"body", "copy"} <=> where \in {"body", "copy"}
         /\ where \in {"free", "barrier"} => idx[w] >= NumChunks1
  BY DEF Moves
<1>3. pc'[w] = where /\ \A u \in Worker \ {w} : pc'[u] = pc[u]
  BY <1>2 DEF RegionInv, RegionType
<1>4. RegionType'
  BY <1>1, <1>2 DEF RegionInv, RegionType, Moves, HoldsAfter
<1>5. Memory'
  <2>1. ASSUME NEW u \in Worker, u # w PROVE Holds(u)'
    BY <1>1, <1>3, <2>1 DEF RegionInv, Memory, Moves, Holds, HoldsAfter
  <2> QED
    BY <1>1, <2>1 DEF Memory, Moves, HoldsAfter
<1>6. ASSUME NEW u \in Worker PROVE Share(u)'
  <2>1. Share(u) /\ idx' = idx /\ progress' = progress
    BY DEF RegionInv, Moves
  <2>2. ASSUME NEW i \in Chunks PROVE Expected(u, i)' = Expected(u, i)
    BY <1>2, <1>3, <2>1 DEF Expected
  <2>3. /\ pc'[u] \in {"body", "copy"} => idx[u] < NumChunks1
        /\ pc'[u] \in {"free", "barrier"} => idx[u] >= NumChunks1
    BY <1>2, <1>3, <2>1 DEF Share
  <2> QED
    BY <1>1, <2>1, <2>2, <2>3 DEF Share
<1> QED
  BY <1>1, <1>4, <1>5, <1>6 DEF RegionInv

\* Steps that only compute or copy.
LEMMA SameControl ==
  ASSUME RegionInv, UNCHANGED <<job, pc, held, kernelHeld, idx, status, progress>>
  PROVE  RegionInv'
BY SameCall DEF RegionInv, RegionType, Memory, Holds, Share, Expected

\* Allocating, or failing to, keeps the region's invariant.
LEMMA MallocBufferKeeps ==
  ASSUME RegionInv, UNCHANGED job, NEW w \in Worker, MallocBuffer(w)
  PROVE  RegionInv'
<1> USE DEF RegionInv, RegionType, At, Goto, MallocBuffer
<1>1. NumBuffers \in Nat \ {0}
  BY CallNumbers
<1>2. Holds(w) /\ held[w] \in 0 .. NumBuffers
  BY DEF Memory
<1>3. held[w] + 1 \in 0 .. NumBuffers
  BY <1>1, <1>2 DEF Holds
<1>4. Moves(w)
  <2>1. CASE held[w] + 1 = NumBuffers
    BY <2>1 DEF Moves, Place
  <2>2. CASE held[w] + 1 # NumBuffers
    <3>1. pc' = [pc EXCEPT ![w] = "malloc"]
      BY <2>2
    <3> QED
      BY <3>1 DEF Moves, Place
  <2> QED
    BY <2>1, <2>2
<1>5. HoldsAfter(w)
  <2>1. held'[w] = held[w] + 1
    OBVIOUS
  <2>2. pc'[w] = IF held[w] + 1 = NumBuffers THEN "kernel" ELSE "malloc"
    OBVIOUS
  <2>3. Holds(w)'
    BY <1>1, <1>2, <1>3, <2>1, <2>2, SameCall DEF Holds
  <2> QED
    BY <1>3, <2>3 DEF HoldsAfter
<1> QED
  BY <1>4, <1>5, MovesKeep

\* Loading the kernel puts one more array on the device.
LEMMA LoadKernelKeeps ==
  ASSUME RegionInv, UNCHANGED job, NEW w \in Worker, LoadKernel(w)
  PROVE  RegionInv'
<1> USE DEF RegionInv, RegionType, At, Goto, LoadKernel
<1>1. Holds(w)
  BY DEF Memory
<1>2. Moves(w)
  BY DEF Moves, Place
<1>3. kernelHeld'[w] \in BOOLEAN
  OBVIOUS
<1>4. HoldsAfter(w)
  BY <1>1, <1>3, SameCall DEF HoldsAfter, Holds
<1> QED
  BY <1>2, <1>4, MovesKeep

\* Waiting for the device moves a worker from its chunk's launches to the copy.
LEMMA SynchronizeKeeps ==
  ASSUME RegionInv, UNCHANGED job, NEW w \in Worker, Synchronize(w)
  PROVE  RegionInv'
<1> USE DEF RegionInv, RegionType, At, Goto, Synchronize
<1>1. Holds(w)
  BY DEF Memory
<1>2. Moves(w)
  BY DEF Moves, Place
<1>3. HoldsAfter(w)
  BY <1>1, SameCall DEF HoldsAfter, Holds
<1> QED
  BY <1>2, <1>3, MovesKeep

\* The kernel's array is freed on every way out.
LEMMA CleanKeeps ==
  ASSUME RegionInv, UNCHANGED job, NEW w \in Worker, Clean(w)
  PROVE  RegionInv'
<1> USE DEF RegionInv, RegionType, At, Goto, Clean
<1>1. Holds(w) /\ NumBuffers \in Nat \ {0}
  BY CallNumbers DEF Memory
<1>2. Moves(w)
  BY DEF Moves, Place
<1>3. HoldsAfter(w)
  BY <1>1, SameCall DEF HoldsAfter, Holds
<1> QED
  BY <1>2, <1>3, MovesKeep

\* The buffers are freed one by one.
LEMMA FreeBufferKeeps ==
  ASSUME RegionInv, UNCHANGED job, NEW w \in Worker, FreeBuffer(w)
  PROVE  RegionInv'
<1> USE DEF RegionInv, RegionType, At, Goto, FreeBuffer
<1>1. Holds(w) /\ held[w] \in 0 .. NumBuffers /\ NumBuffers \in Nat
  BY CallNumbers DEF Memory
<1>2. held[w] - 1 \in 0 .. NumBuffers
  BY <1>1 DEF Holds
<1>3. Moves(w)
  <2>1. idx[w] >= NumChunks1
    BY DEF Share
  <2>2. CASE held[w] = 1
    BY <2>1, <2>2 DEF Moves, Place
  <2>3. CASE held[w] # 1
    <3>1. pc' = [pc EXCEPT ![w] = "free"]
      BY <2>3
    <3> QED
      BY <2>1, <3>1 DEF Moves, Place
  <2> QED
    BY <2>2, <2>3
<1>4. HoldsAfter(w)
  <2>1. held'[w] = held[w] - 1 /\ pc'[w] = IF held[w] = 1 THEN "barrier" ELSE "free"
    OBVIOUS
  <2>2. Holds(w)'
    BY <1>1, <1>2, <2>1, SameCall DEF Holds
  <2> QED
    BY <1>2, <2>2 DEF HoldsAfter
<1> QED
  BY <1>3, <1>4, MovesKeep

\* Only the chunk a worker is at changes, so the shares of the others stay as they are.
LEMMA OtherShares ==
  ASSUME RegionInv, UNCHANGED job, NEW w \in Worker, NEW u \in Worker \ {w},
         idx'[u] = idx[u], pc'[u] = pc[u],
         \A i \in Chunks : i # idx[w] => progress'[i] = progress[i]
  PROVE  Share(u)'
<1>1. Share(u) /\ Share(w)
  BY DEF RegionInv
<1>2. ASSUME NEW i \in Chunks, i % Team = u PROVE progress'[i] = Expected(u, i)'
  <2>1. i # idx[w]
    BY <1>1, <1>2 DEF Share
  <2> QED
    BY <1>1, <1>2, <2>1 DEF Share, Expected
<1> QED
  BY <1>1, <1>2, SameCall DEF Share

\* A chunk that a worker takes was waiting: nobody else has it.
LEMMA TakeChunkKeeps ==
  ASSUME RegionInv, UNCHANGED job, NEW w \in Worker, TakeChunk(w)
  PROVE  RegionInv' /\ idx[w] \in Chunks /\ progress[idx[w]] = "waiting"
<1> USE DEF RegionInv, RegionType, At, Goto, TakeChunk
<1>1. Share(w) /\ NumChunks1 \in Nat \ {0}
  BY CallNumbers
<1>2. idx[w] \in Chunks
  BY <1>1 DEF Chunks
<1>3. progress[idx[w]] = "waiting"
  BY <1>1, <1>2 DEF Share, Expected
<1>4. /\ pc'[w] = "body" /\ progress'[idx[w]] = "taken"
      /\ \A u \in Worker \ {w} : pc'[u] = pc[u]
      /\ \A i \in Chunks : i # idx[w] => progress'[i] = progress[i]
  BY <1>2
<1>5. RegionType'
  BY SameCall DEF Place
<1>6. Memory'
  BY <1>4, SameCall DEF Memory, Holds
<1>7. Share(w)'
  <2>1. ASSUME NEW i \in Chunks, i % Team = w PROVE progress'[i] = Expected(w, i)'
    <3>1. progress[i] = Expected(w, i) /\ i \in Nat /\ idx[w] \in Nat
      BY <1>1, <2>1 DEF Share, Chunks
    <3> QED
      BY <1>4, <3>1 DEF Expected
  <2>2. idx'[w] = idx[w] /\ idx[w] < NumChunks1
    OBVIOUS
  <2> QED
    BY <1>1, <1>4, <2>1, <2>2, SameCall DEF Share
<1>8. \A u \in Worker \ {w} : Share(u)'
  BY <1>4, OtherShares
<1> QED
  BY <1>2, <1>3, <1>5, <1>6, <1>7, <1>8, SameCall

\* A chunk that a worker is done with is the one it took.
LEMMA NextChunkKeeps ==
  ASSUME RegionInv, UNCHANGED <<job, held, kernelHeld, status>>, NEW w \in Worker,
         At(w, "copy"), NextChunk(w)
  PROVE  RegionInv' /\ idx[w] \in Chunks /\ progress[idx[w]] = "taken"
<1> USE DEF RegionInv, RegionType, At, Goto, NextChunk
<1>1. Share(w) /\ NumChunks1 \in Nat \ {0} /\ Team \in Nat \ {0} /\ idx[w] \in Nat
  BY CallNumbers
<1>2. idx[w] \in Chunks
  BY <1>1 DEF Chunks, Share
<1>3. progress[idx[w]] = "taken"
  BY <1>1, <1>2 DEF Share, Expected
<1>4. /\ pc'[w] = "loop" /\ progress'[idx[w]] = "done" /\ idx'[w] = idx[w] + Team
      /\ \A u \in Worker \ {w} : pc'[u] = pc[u] /\ idx'[u] = idx[u]
      /\ \A i \in Chunks : i # idx[w] => progress'[i] = progress[i]
  BY <1>2
<1>5. RegionType'
  <2>1. idx[w] + Team \in Nat
    BY <1>1
  <2>2. idx' \in [Worker -> Nat] /\ pc' \in [Worker -> Place]
    BY <2>1 DEF Place
  <2>3. progress' \in [Chunks -> {"waiting", "taken", "done"}]
    OBVIOUS
  <2> QED
    BY <2>2, <2>3, SameCall
<1>6. Memory'
  BY <1>4, SameCall DEF Memory, Holds
<1>7. Share(w)'
  <2>1. idx'[w] % Team = w
    BY <1>1, <1>4, Residue DEF Share
  <2>2. ASSUME NEW i \in Chunks, i % Team = w PROVE progress'[i] = Expected(w, i)'
    <3>1. i \in Nat /\ (i < idx[w] \/ i = idx[w] \/ idx[w] + Team <= i)
      BY <1>1, <2>2, Stride DEF Chunks, Share
    <3>2. progress[i] = Expected(w, i)
      BY <1>1, <2>2 DEF Share
    <3> QED
      BY <1>1, <1>4, <3>1, <3>2 DEF Expected
  <2> QED
    BY <1>4, <2>1, <2>2, SameCall DEF Share
<1>8. \A u \in Worker \ {w} : Share(u)'
  BY <1>4, OtherShares
<1> QED
  BY <1>2, <1>3, <1>5, <1>6, <1>7, <1>8, SameCall

\* The team is at the barrier when every worker is done with its share, so with all.
LEMMA BarrierMeansDone ==
  ASSUME RegionInv, \A w \in Worker : pc[w] = "barrier"
  PROVE  \A i \in Chunks : progress[i] = "done"
<1>1. NumChunks1 \in Nat \ {0} /\ Team \in Nat \ {0}
  BY CallNumbers DEF RegionInv, RegionType
<1> SUFFICES ASSUME NEW i \in Chunks PROVE progress[i] = "done"
  OBVIOUS
<1> DEFINE w == i % Team
<1>2. i \in Nat /\ i < NumChunks1
  BY <1>1 DEF Chunks
<1>3. w \in Worker
  BY <1>1, <1>2, Residue DEF Worker
<1>4. Share(w) /\ pc[w] = "barrier" /\ idx[w] \in Nat
  BY <1>3 DEF RegionInv, RegionType
<1>5. i < idx[w]
  BY <1>1, <1>2, <1>4 DEF Share
<1> QED
  BY <1>4, <1>5 DEF Share, Expected

\* The filter returns after the barrier, when every chunk is done.
LEMMA ReturnKeeps ==
  ASSUME RegionInv, UNCHANGED job, Return
  PROVE  RegionInv' /\ \A i \in Chunks : progress[i] = "done"
<1>1. ASSUME NEW i \in Chunks PROVE progress[i] = "done"
  BY BarrierMeansDone DEF Return
<1>2. RegionType'
  BY SameCall DEF RegionInv, RegionType, Return
<1>3. Memory'
  BY SameCall DEF RegionInv, Memory, Holds, Return
<1>4. \A w \in Worker : Share(w)'
  BY SameCall DEF RegionInv, Share, Expected, Return
<1> QED
  BY <1>1, <1>2, <1>3, <1>4, SameCall DEF RegionInv

\* A CUDA call that fails sends its worker to the clean-up.
LEMMA CudaFailsKeeps ==
  ASSUME RegionInv, UNCHANGED job, NEW w \in Worker, CudaFails(w)
  PROVE  RegionInv'
<1>1. NumBuffers \in Nat
  BY CallNumbers DEF RegionInv, RegionType
<1>2. RegionType'
  BY <1>1, SameCall DEF RegionInv, RegionType, CudaFails
<1>3. Memory'
  BY SameCall DEF RegionInv, Memory, CudaFails
<1>4. \A u \in Worker : Share(u)'
  BY SameCall DEF RegionInv, Share, Expected, CudaFails
<1> QED
  BY <1>2, <1>3, <1>4, SameCall DEF RegionInv

\* A step of the region either leaves what the invariant is about alone or is one of those.
LEMMA RegionSteps ==
  ASSUME Next
  PROVE  \/ UNCHANGED <<job, pc, held, kernelHeld, idx, status, progress>>
         \/ UNCHANGED job /\ Return
         \/ UNCHANGED job /\ \E w \in Worker :
              \/ MallocBuffer(w) \/ LoadKernel(w) \/ Synchronize(w) \/ Clean(w)
              \/ FreeBuffer(w) \/ TakeChunk(w) \/ CudaFails(w)
              \/ /\ UNCHANGED <<held, kernelHeld, status>>
                 /\ At(w, "copy") /\ NextChunk(w)
<1>1. CASE Over
  BY <1>1 DEF Next, Over, vars
<1>2. CASE Return
  BY <1>2 DEF Next
<1>3. CASE \E w \in Worker : Host(w) \/ RunKernel(w) \/ CudaFails(w)
  <2> PICK w \in Worker : Host(w) \/ RunKernel(w) \/ CudaFails(w)
    BY <1>3
  <2>1. UNCHANGED job
    BY DEF Next
  <2>2. CASE SendROI(w) \/ Memset(w)
    BY <2>1, <2>2 DEF SendROI, Memset, FillBuffer
  <2>3. CASE ReduceBuffer(w)
    BY <2>1, <2>3 DEF ReduceBuffer
  <2>4. CASE Launch(w)
    BY <2>1, <2>4 DEF Launch, Issue
  <2>5. CASE RunKernel(w)
    BY <2>1, <2>5 DEF RunKernel
  <2>6. CASE CopyWhole(w)
    BY <2>1, <2>6 DEF CopyWhole
  <2>7. CASE CopyLine(w)
    BY <2>1, <2>7 DEF CopyLine
  <2> QED
    BY <2>1, <2>2, <2>3, <2>4, <2>5, <2>6, <2>7 DEF Host
<1> QED
  BY <1>1, <1>2, <1>3 DEF Next

\* Every step keeps the region's invariant.
LEMMA RegionStep == RegionInv /\ [Next]_vars => RegionInv'
<1> SUFFICES ASSUME RegionInv, [Next]_vars PROVE RegionInv'
  OBVIOUS
<1>1. CASE UNCHANGED <<job, pc, held, kernelHeld, idx, status, progress>>
  BY <1>1, SameControl
<1>2. CASE UNCHANGED job /\ Return
  BY <1>2, ReturnKeeps
<1>3. CASE UNCHANGED job /\ \E w \in Worker :
              \/ MallocBuffer(w) \/ LoadKernel(w) \/ Synchronize(w) \/ Clean(w)
              \/ FreeBuffer(w) \/ TakeChunk(w) \/ CudaFails(w)
              \/ /\ UNCHANGED <<held, kernelHeld, status>>
                 /\ At(w, "copy") /\ NextChunk(w)
  BY <1>3, MallocBufferKeeps, LoadKernelKeeps, SynchronizeKeeps, CleanKeeps, FreeBufferKeeps,
     TakeChunkKeeps, CudaFailsKeeps, NextChunkKeeps
<1> QED
  BY <1>1, <1>2, <1>3, RegionSteps DEF vars

-----------------------------------------------------------------------------
(***************************************************************************)
(* The theorems                                                            *)
(***************************************************************************)
\* The invariant of the parallel region: every worker's chunks are done up to the one it is
\* at, and what it holds on its device is what its place in the region says.
THEOREM RegionInvariant == Spec => []RegionInv
BY RegionInit, RegionStep, PTL DEF Spec

\* When the filter has returned or the process has been terminated, no buffer and no kernel
\* is left on a device (Clean, FreeBuffer, CudaFails).
THEOREM MemoryReleasedHolds == Spec => []MemoryReleased
<1>1. RegionInv => MemoryReleased
  BY DEF RegionInv, RegionType, Memory, Holds, MemoryReleased
<1> QED
  BY <1>1, RegionInvariant, PTL

\* Two workers have two devices.
LEMMA DevicesDiffer ==
  ASSUME job \in Jobs, NEW u \in Worker, NEW w \in Worker, DeviceIdx(u) = DeviceIdx(w)
  PROVE  u = w
<1>1. NumDevices \in Nat \ {0} /\ Team \in Nat \ {0} /\ Team <= NumDevices
  BY CallNumbers, ChunkedFilterAssumption
<1>2. u \in Nat /\ u < NumDevices /\ w \in Nat /\ w < NumDevices
  BY <1>1 DEF Worker
<1>3. u % NumDevices = u /\ w % NumDevices = w
  BY <1>1, <1>2, Residue
<1> QED
  BY <1>1, <1>2, <1>3 DEF DeviceIdx

\* The workers of a device never hold more buffers than its memory was divided by
\* (CudaDeviceInfo.h: getMinAvailMem; NUM_BUFF_NEEDED of every filter): the team is no
\* larger than the list of devices.
THEOREM DeviceBudgetKeptHolds == Spec => []DeviceBudgetKept
<1>1. RegionInv => DeviceBudgetKept
  <2> SUFFICES ASSUME RegionInv, NEW d \in Device
               PROVE  Cardinality(HeldOn(d)) <= job.plan.needed
    BY DEF DeviceBudgetKept
  <2>1. /\ NumBuffers \in Nat \ {0} /\ NumBuffers <= job.plan.needed /\ job.plan.needed \in Nat
        /\ held \in [Worker -> 0 .. NumBuffers]
    BY CallNumbers DEF RegionInv, RegionType
  <2>2. CASE \A w \in Worker : DeviceIdx(w) # d
    <3>1. HeldOn(d) = {}
      BY <2>2 DEF HeldOn
    <3> QED
      BY <2>1, <3>1, FS_EmptySet
  <2>3. CASE \E w \in Worker : DeviceIdx(w) = d
    <3>1. PICK w \in Worker : DeviceIdx(w) = d
      BY <2>3
    <3>2. \A u \in Worker : DeviceIdx(u) = d => u = w
      BY <3>1, DevicesDiffer DEF RegionInv, RegionType
    <3> DEFINE f == [h \in HeldOn(d) |-> h[2]]
    <3>3. f \in Injection(HeldOn(d), Buffer)
      <4>1. ASSUME NEW h \in HeldOn(d) PROVE h = <<w, h[2]>> /\ h[2] \in Buffer
        BY <3>2 DEF HeldOn
      <4>2. f \in [HeldOn(d) -> Buffer]
        BY <4>1
      <4>3. \A g, h \in HeldOn(d) : f[g] = f[h] => g = h
        BY <4>1
      <4> QED
        BY <4>2, <4>3 DEF Injection, IsInjective
    <3>4. IsFiniteSet(Buffer) /\ Cardinality(Buffer) = NumBuffers
      <4>1. 0 \in Int /\ NumBuffers - 1 \in Int /\ ~ (0 > NumBuffers - 1)
        BY <2>1
      <4>2. /\ IsFiniteSet(0 .. NumBuffers - 1)
            /\ Cardinality(0 .. NumBuffers - 1) = NumBuffers - 1 - 0 + 1
        BY <4>1, FS_Interval, Zenon
      <4> QED
        BY <2>1, <4>2 DEF Buffer
    <3> HIDE DEF f
    <3>5. Cardinality(HeldOn(d)) <= Cardinality(Buffer) /\ IsFiniteSet(HeldOn(d))
      BY <3>3, <3>4, FS_Injection, FS_Subset
    <3>6. Cardinality(HeldOn(d)) \in Nat
      BY <3>5, FS_CardinalityType
    <3> QED
      BY <2>1, <3>4, <3>5, <3>6
  <2> QED
    BY <2>2, <2>3
<1> QED
  BY <1>1, RegionInvariant, PTL

\* A step of the region is a step of the loop it promises to be, or none.
LEMMA StepShares ==
  ASSUME RegionInv, [Next]_vars
  PROVE  [Work!Next]_Work!vars
<1>1. CASE UNCHANGED <<job, status, progress>>
  BY <1>1, SameCall DEF Work!vars
<1>2. CASE UNCHANGED job /\ Return
  BY <1>2, ReturnKeeps, SameCall DEF Work!Next, Work!Return, Return
<1>3. ASSUME NEW w \in Worker, UNCHANGED job, TakeChunk(w)
      PROVE  Work!Next
  <2>1. idx[w] \in Chunks /\ progress[idx[w]] = "waiting"
    BY <1>3, TakeChunkKeeps
  <2>2. Work!Take(idx[w])
    BY <1>3, <2>1, SameCall DEF TakeChunk, At, Work!Take
  <2> QED
    BY <2>1, <2>2 DEF Work!Next
<1>4. ASSUME NEW w \in Worker, UNCHANGED <<job, held, kernelHeld, status>>,
             At(w, "copy"), NextChunk(w)
      PROVE  Work!Next
  <2>1. idx[w] \in Chunks /\ progress[idx[w]] = "taken"
    BY <1>4, NextChunkKeeps
  <2>2. Work!Deliver(idx[w])
    BY <1>4, <2>1, SameCall DEF NextChunk, At, Work!Deliver
  <2> QED
    BY <2>1, <2>2 DEF Work!Next
<1>5. ASSUME NEW w \in Worker, UNCHANGED job, CudaFails(w)
      PROVE  Work!Next
  BY <1>5, SameCall DEF CudaFails, Work!Next, Work!Abort
<1>6. ASSUME NEW w \in Worker, UNCHANGED job,
             MallocBuffer(w) \/ LoadKernel(w) \/ Synchronize(w) \/ Clean(w) \/ FreeBuffer(w)
      PROVE  UNCHANGED <<job, status, progress>>
  BY <1>6 DEF MallocBuffer, LoadKernel, Synchronize, Clean, FreeBuffer
<1>7. CASE UNCHANGED vars
  BY <1>1, <1>7 DEF vars
<1>8. CASE Next
  BY <1>1, <1>2, <1>3, <1>4, <1>5, <1>6, <1>8, RegionSteps
<1> QED
  BY <1>7, <1>8

\* The region does every chunk once, by one worker, and returns only when all are done
\* (the strided loop of every filter): it implements WorkSharing.
THEOREM RegionSharesTheWork == Spec => ImplementsWorkSharing
<1>1. Init => Work!Init
  BY DEF Init, Work!Init
<1>2. RegionInv /\ [Next]_vars => [Work!Next]_Work!vars
  BY StepShares
<1> QED
  BY <1>1, <1>2, RegionInvariant, PTL DEF Spec, ImplementsWorkSharing, Work!Spec
-----------------------------------------------------------------------------
(***************************************************************************)
(* The invariant: what each device has run of the plan, what is pending,   *)
(* and what was copied back                                                *)
(***************************************************************************)
\* The image's voxels no further from v than x.
Within(v, x) == {u \in 0 .. Length - 1 : v - x <= u /\ u <= v + x}

\* A buffer's first positions are the voxels from start to end, with that value: right where
\* all the value looks at in an image of that length is among them.
CarriesOn(buffer, start, end, length, value) ==
  \A p \in 0 .. end - start :
    /\ buffer[p].vox = start + p /\ buffer[p].term = value.term
    /\ (\A x \in value.reaches :
         {u \in 0 .. length - 1 : (start + p) - x <= u /\ u <= start + p + x}
           \subseteq start .. end)
         => buffer[p].exact

\* A buffer is chunk i with that value.
Carries(buffer, i, value) == CarriesOn(buffer, Start(i), End(i), Length, value)

\* The launch that step k of a plan is, for a chunk of that size.
Launched(plan, size, reduced, after, k) ==
  LET now == after[k - 1]
      s == plan.steps[k]
  IN [fn |-> s.fn, n |-> size, scalars |-> reduced, into |-> RoleBuffer(plan, now.cur, s.into),
      reads |-> [r \in DOMAIN s.reads |->
        [buffer |-> RoleBuffer(plan, now.cur, s.reads[r].role), extent |-> s.reads[r].extent]]]

\* The plan of the call, step by step.
Planned(base) == StepByStep(job.plan, Length, base)

\* The steps of its plan a worker has issued for its chunk, and those that ran.
Issued(w) == step[w] - 1
Ran(w) == Issued(w) - Len(queue[w])

\* The host is at most the pending launches ahead of the device, and they are the plan's
\* next; what the device has run has made the buffers what the plan makes them step by step.
Follows(w, i, base) ==
  LET after == Planned(base)
  IN /\ Issued(w) \in 0 .. Len(Steps) /\ Ran(w) \in Nat
     /\ pc[w] = "copy" => Issued(w) = Len(Steps)
     /\ dims[w] = Size(i) /\ curBuff[w] = after[Issued(w)].cur
     /\ \A k \in Ran(w) + 1 .. Issued(w) :
          /\ Steps[k].op = "launch"
          /\ queue[w][k - Ran(w)] = Launched(job.plan, Size(i), scalars[w], after, k)
     /\ \A k \in Ran(w) .. Issued(w) :
          after[k].scalars = [s \in DOMAIN scalars[w] |-> scalars[w][s].term]
     /\ Size(i) = Length => \A s \in DOMAIN scalars[w] : scalars[w][s].exact
     /\ \A b \in Buffer :
          after[Ran(w)].buffers[b].known => Carries(image[w][b], i, after[Ran(w)].buffers[b])

\* A worker at a chunk has done the plan's steps on it, up to where it is.
Flow(w) ==
  /\ pc[w] # "body" => queue[w] = <<>>
  /\ pc[w] \in {"body", "copy"} =>
       \E i \in Chunks, base \in 0 .. Ring - 1 : idx[w] = i /\ Follows(w, i, base)

\* What there is of each worker.
HasBuffers(w) ==
  /\ DOMAIN image[w] = Buffer
  /\ \A b \in Buffer : DOMAIN image[w][b] = 0 .. MaxDeviceDims - 1

\* What a worker has reduced, and what it has launched that did not run yet.
HasLists(w) == scalars[w] \in Seq(Range(scalars[w])) /\ queue[w] \in Seq(Range(queue[w]))

\* The types of what the plan's steps change.
FlowType ==
  /\ DOMAIN image = Worker /\ DOMAIN dims = Worker /\ DOMAIN scalars = Worker
  /\ DOMAIN queue = Worker /\ DOMAIN imageOut = 0 .. Length - 1
  /\ curBuff \in [Worker -> 0 .. Ring - 1] /\ step \in [Worker -> Nat] /\ row \in [Worker -> Nat]
  /\ \A w \in Worker : HasBuffers(w) /\ HasLists(w)

\* The inductive invariant: the workers follow the plan.
FlowInv == RegionInv /\ FlowType /\ \A w \in Worker : Flow(w)

\* A voxel of the output is what RightAwayFromCuts says of it.
Right(v) ==
  /\ imageOut[v].vox = v /\ imageOut[v].term = Promised
  /\ (\A i \in Chunks : v \in Start(i) .. End(i) => Around(v) \subseteq Start(i) .. End(i))
       => imageOut[v].exact

\* So is every voxel of a chunk that is done, and every line that was copied.
OutputInv ==
  /\ \A i \in Chunks : progress[i] = "done" => \A v \in Start(i) .. End(i) : Right(v)
  /\ \A w \in Worker : pc[w] = "copy" =>
       /\ row[w] < Size(idx[w])
       /\ \A r \in 0 .. row[w] - 1 : Right(Start(idx[w]) + r)
-----------------------------------------------------------------------------
(***************************************************************************)
(* A plan, step by step                                                    *)
(***************************************************************************)
\* What StepByStep defines recursively exists.
LEMMA StepByStepIs ==
  ASSUME NEW plan, Len(plan.steps) \in Nat, NEW length, NEW base
  PROVE  /\ StepByStep(plan, length, base)[0] = Before(plan, base)
         /\ \A k \in 1 .. Len(plan.steps) : StepByStep(plan, length, base)[k] =
              After(plan, length, StepByStep(plan, length, base)[k - 1], plan.steps[k])
<1> DEFINE N == Len(plan.steps)
           Rule(f, k) == IF k = 0 THEN Before(plan, base)
                         ELSE After(plan, length, f[k - 1], plan.steps[k])
           S == {n \in 0 .. N : \E f : \A k \in 0 .. n : f[k] = Rule(f, k)}
<1>1. 0 \in S
  <2> DEFINE f == [k \in 0 .. 0 |-> Before(plan, base)]
  <2>1. \A k \in 0 .. 0 : f[k] = Rule(f, k)
    OBVIOUS
  <2> HIDE DEF Rule, f
  <2>2. 0 \in 0 .. N
    OBVIOUS
  <2> QED
    BY <2>1, <2>2
<1>2. ASSUME NEW n \in 0 .. N - 1, n \in S PROVE n + 1 \in S
  <2> HIDE DEF Rule
  <2>1. PICK f : \A k \in 0 .. n : f[k] = Rule(f, k)
    BY <1>2
  <2> DEFINE g == [k \in 0 .. n + 1 |-> IF k = n + 1 THEN Rule(f, n + 1) ELSE f[k]]
  <2>2. \A k \in 0 .. n : g[k] = f[k]
    OBVIOUS
  <2>3. g[n + 1] = Rule(f, n + 1)
    OBVIOUS
  <2> HIDE DEF g
  <2>4. ASSUME NEW k \in 0 .. n + 1 PROVE g[k] = Rule(g, k)
    <3>1. Rule(g, k) = Rule(f, k)
      <4>1. CASE k = 0
        BY <4>1 DEF Rule
      <4>2. CASE k # 0
        <5>1. k - 1 \in 0 .. n
          BY <4>2
        <5> QED
          BY <4>2, <5>1, <2>2 DEF Rule
      <4> QED
        BY <4>1, <4>2
    <3>2. k \in 0 .. n \/ k = n + 1
      OBVIOUS
    <3> QED
      BY <2>1, <2>2, <2>3, <3>1, <3>2
  <2>5. n + 1 \in 0 .. N
    OBVIOUS
  <2> QED
    BY <2>4, <2>5
<1>3. N \in S
  <2>1. N \in Nat /\ N \in 0 .. N
    OBVIOUS
  <2> HIDE DEF S, N
  <2> QED
    BY <1>1, <1>2, <2>1, UpTo
<1>4. PICK f : \A k \in 0 .. N : f[k] = Rule(f, k)
  BY <1>3
<1> DEFINE g == [k \in 0 .. N |-> f[k]]
<1>5. g = [k \in 0 .. N |-> Rule(g, k)]
  <2>1. ASSUME NEW k \in 0 .. N PROVE g[k] = Rule(g, k)
    <3>1. CASE k = 0
      BY <1>4, <3>1
    <3>2. CASE k # 0
      <4>1. k - 1 \in 0 .. N
        BY <3>2
      <4>2. g[k - 1] = f[k - 1] /\ g[k] = f[k]
        BY <4>1
      <4> QED
        BY <1>4, <3>2, <4>2
    <3> QED
      BY <3>1, <3>2
  <2> HIDE DEF Rule
  <2> QED
    BY <2>1
<1> DEFINE r == StepByStep(plan, length, base)
<1>6. r = CHOOSE h : h = [k \in 0 .. N |-> Rule(h, k)]
  BY DEF StepByStep
<1> HIDE DEF g, r, Rule
<1>7. r = [k \in 0 .. N |-> Rule(r, k)]
  BY <1>5, <1>6, Zenon
<1>8. r[0] = Rule(r, 0) /\ \A k \in 1 .. N : r[k] = Rule(r, k)
  <2>1. 0 \in 0 .. N /\ \A k \in 1 .. N : k \in 0 .. N
    OBVIOUS
  <2> HIDE DEF N
  <2> QED
    BY <1>7, <2>1, Zenon
<1> QED
  BY <1>8 DEF r, Rule

\* What a well-formed plan says of each step.
LEMMA StepFacts ==
  ASSUME job \in Jobs
  PROVE  /\ Len(Steps) \in Nat /\ DOMAIN Steps = 1 .. Len(Steps)
         /\ job.plan.result \in Roles(job.plan)
         /\ \A k \in 1 .. Len(Steps) :
              /\ Steps[k].op \in {"send", "clear", "reduce", "launch"}
              /\ Written(Steps[k]) \subseteq Roles(job.plan)
              /\ Used(Steps[k]) \subseteq Roles(job.plan)
              /\ Steps[k].op = "clear" /\ k > 1 => Steps[k - 1].op # "launch"
              /\ Steps[k].op = "launch" =>
                   /\ Len(Steps[k].reads) \in Nat \ {0}
                   /\ DOMAIN Steps[k].reads = 1 .. Len(Steps[k].reads)
                   /\ Steps[k].increment \in BOOLEAN
                   /\ \A r \in DOMAIN Steps[k].reads :
                        Steps[k].reads[r].extent \in Nat /\ Steps[k].reads[r].extent % 2 = 1
<1>1. WellFormed(job.plan)
  BY JobNumbers
<1>2. Steps \in Seq(Range(Steps)) /\ job.plan.result \in Roles(job.plan)
  BY <1>1 DEF WellFormed, Steps
<1>3. Len(Steps) \in Nat /\ DOMAIN Steps = 1 .. Len(Steps)
  BY <1>2
<1>4. \A k \in 1 .. Len(Steps) :
        /\ Steps[k].op \in {"send", "clear", "reduce", "launch"}
        /\ Written(Steps[k]) \cup Used(Steps[k]) \subseteq Roles(job.plan)
        /\ Steps[k].op = "clear" /\ k > 1 => Steps[k - 1].op # "launch"
        /\ Steps[k].op = "launch" =>
             /\ Steps[k].reads \in Seq(Range(Steps[k].reads)) \ {<<>>}
             /\ Steps[k].increment \in BOOLEAN
             /\ \A r \in DOMAIN Steps[k].reads :
                  Steps[k].reads[r].extent \in Nat /\ Steps[k].reads[r].extent % 2 = 1
  BY <1>1, <1>3, Zenon DEF WellFormed, Steps
<1>5. ASSUME NEW s, s \in Seq(Range(s)) \ {<<>>}
      PROVE  Len(s) \in Nat \ {0} /\ DOMAIN s = 1 .. Len(s)
  BY <1>5
<1> QED
  BY <1>2, <1>3, <1>4, <1>5, Zenon

\* Every role of a plan names a buffer of the worker.
LEMMA RoleIsABuffer ==
  ASSUME job \in Jobs, NEW cur \in 0 .. Ring - 1, NEW role \in Roles(job.plan)
  PROVE  RoleBuffer(job.plan, cur, role) \in Buffer
<1>1. Ring \in Nat \ {0} /\ job.plan.scratch \in Nat
  BY JobNumbers
<1>2. CASE role = "scratch"
  <2>1. job.plan.scratch > 0
    BY <1>2 DEF Roles
  <2> QED
    BY <1>1, <1>2, <2>1 DEF RoleBuffer, Buffer, NumBuffers, Ring
<1>3. CASE role # "scratch"
  <2>1. role \in {"cur", "next", "third"}
    BY <1>3 DEF Roles
  <2> DEFINE n == [cur |-> 0, next |-> 1, third |-> 2][role]
  <2>2. n \in Nat
    <3>1. CASE role = "cur"
      BY <3>1
    <3>2. CASE role = "next"
      BY <3>2
    <3>3. CASE role = "third"
      BY <3>3
    <3> QED
      BY <2>1, <3>1, <3>2, <3>3
  <2>3. RoleBuffer(job.plan, cur, role) = (cur + n) % Ring
    BY <1>3 DEF RoleBuffer, Ring
  <2> HIDE DEF n
  <2>4. (cur + n) % Ring \in 0 .. Ring - 1
    BY <1>1, <2>2
  <2> QED
    BY <1>1, <2>3, <2>4 DEF Buffer, NumBuffers
<1> QED
  BY <1>2, <1>3

\* One step after another.
LEMMA PlanSteps ==
  ASSUME job \in Jobs, NEW base
  PROVE  /\ Planned(base)[0] = Before(job.plan, base)
         /\ \A k \in 1 .. Len(Steps) :
              Planned(base)[k] = After(job.plan, Length, Planned(base)[k - 1], Steps[k])
<1> DEFINE plan == job.plan
<1>1. Len(plan.steps) \in Nat
  BY StepFacts DEF Steps
<1> HIDE DEF plan
<1>2. /\ StepByStep(plan, Length, base)[0] = Before(plan, base)
      /\ \A k \in 1 .. Len(plan.steps) : StepByStep(plan, Length, base)[k] =
           After(plan, Length, StepByStep(plan, Length, base)[k - 1], plan.steps[k])
  BY <1>1, StepByStepIs
<1> QED
  BY <1>2 DEF Planned, Steps, plan

\* Every step uses what is known.
LEMMA UsedIsKnown ==
  ASSUME job \in Jobs, NEW base \in 0 .. Ring - 1, NEW k \in 1 .. Len(Steps),
         NEW role \in Used(Steps[k])
  PROVE  Held(job.plan, Planned(base)[k - 1], role).known
<1>1. DOMAIN Steps = 1 .. Len(Steps) /\ KeepsPromise(job.plan, Length, job.promise)
  BY StepFacts, JobNumbers
<1> QED
  BY <1>1, Zenon DEF KeepsPromise, Planned, Steps, Ring

\* A state of the plan: what is known looks at a voxel's neighbourhood or at it alone.
Typed(now) ==
  /\ now.cur \in 0 .. Ring - 1 /\ DOMAIN now.buffers = Buffer
  /\ \A b \in Buffer : now.buffers[b].known =>
       now.buffers[b].reaches # {} /\ now.buffers[b].reaches \subseteq Nat

\* A launch looks as far as what it reads does, and half its extent further, and over the
\* whole image for a number that was reduced.
Looks(plan, length, now, s, y) ==
  \/ \E r \in DOMAIN s.reads : \E x \in Held(plan, now, s.reads[r].role).reaches :
       y = x + s.reads[r].extent \div 2
  \/ now.scalars # <<>> /\ y = length

\* That is the set the model computes.
LEMMA ReachesAre ==
  ASSUME NEW plan, NEW length, NEW now, NEW s
  PROVE  \A y : y \in Computed(plan, length, now, s).reaches <=> Looks(plan, length, now, s, y)
<1> DEFINE c == Computed(plan, length, now, s)
           far(r, x) == x + s.reads[r].extent \div 2
           from(r) == Held(plan, now, s.reads[r].role).reaches
           global == IF now.scalars = <<>> THEN {} ELSE {length}
<1>1. c.reaches = (UNION {{far(r, x) : x \in from(r)} : r \in DOMAIN s.reads}) \cup global
  BY DEF Computed, Holding
<1>2. \A y : y \in global <=> now.scalars # <<>> /\ y = length
  OBVIOUS
<1> HIDE DEF c, far, from, global
<1>3. \A y : y \in c.reaches <=>
        (\E r \in DOMAIN s.reads : \E x \in from(r) : y = far(r, x)) \/ y \in global
  <2> DEFINE M == {{far(r, x) : x \in from(r)} : r \in DOMAIN s.reads}
  <2>1. ASSUME NEW y \in UNION M
        PROVE  \E r \in DOMAIN s.reads : \E x \in from(r) : y = far(r, x)
    <3>1. PICK R \in M : y \in R
      OBVIOUS
    <3>2. PICK r \in DOMAIN s.reads : R = {far(r, x) : x \in from(r)}
      OBVIOUS
    <3> QED
      BY <3>1, <3>2
  <2>2. ASSUME NEW r \in DOMAIN s.reads, NEW x \in from(r) PROVE far(r, x) \in UNION M
    <3>1. {far(r, z) : z \in from(r)} \in M /\ far(r, x) \in {far(r, z) : z \in from(r)}
      OBVIOUS
    <3> HIDE DEF M
    <3> QED
      BY <3>1
  <2>3. c.reaches = (UNION M) \cup global
    BY <1>1, Zenon
  <2> HIDE DEF M
  <2>4. \A y : y \in UNION M <=> \E r \in DOMAIN s.reads : \E x \in from(r) : y = far(r, x)
    BY <2>1, <2>2, Zenon
  <2> DEFINE U == UNION M
  <2> HIDE DEF U
  <2>5. c.reaches = U \cup global
    BY <2>3 DEF U
  <2>6. \A y : y \in c.reaches <=> y \in U \/ y \in global
    BY <2>5
  <2> QED
    BY <2>4, <2>6, Zenon DEF U
<1>4. \A y : y \in c.reaches <=>
        \/ \E r \in DOMAIN s.reads : \E x \in from(r) : y = far(r, x)
        \/ now.scalars # <<>> /\ y = length
  BY <1>2, <1>3, Zenon
<1> QED
  BY <1>4, Zenon DEF c, far, from, Looks

\* What a launch computes looks somewhere, and at natural distances.
LEMMA ComputedReaches ==
  ASSUME job \in Jobs, NEW base \in 0 .. Ring - 1, NEW k \in 1 .. Len(Steps),
         Typed(Planned(base)[k - 1]), Steps[k].op = "launch"
  PROVE  /\ Computed(job.plan, Length, Planned(base)[k - 1], Steps[k]).reaches # {}
         /\ Computed(job.plan, Length, Planned(base)[k - 1], Steps[k]).reaches \subseteq Nat
<1> DEFINE now == Planned(base)[k - 1]
           s == Steps[k]
           read(r) == Held(job.plan, now, s.reads[r].role)
           c == Computed(job.plan, Length, now, s)
<1>1. /\ Len(s.reads) \in Nat \ {0} /\ DOMAIN s.reads = 1 .. Len(s.reads)
      /\ \A r \in DOMAIN s.reads : s.reads[r].extent \in Nat
      /\ Length \in Nat
  BY StepFacts, JobNumbers
<1>2. ASSUME NEW r \in DOMAIN s.reads PROVE read(r).reaches # {} /\ read(r).reaches \subseteq Nat
  <2>1. s.reads[r].role \in Used(s)
    BY DEF Used
  <2>2. read(r).known
    BY <2>1, UsedIsKnown
  <2>3. RoleBuffer(job.plan, now.cur, s.reads[r].role) \in Buffer
    BY <2>1, StepFacts, RoleIsABuffer DEF Typed
  <2> QED
    BY <2>2, <2>3 DEF Typed, Held
<1>3. \A y : y \in c.reaches <=>
        \/ \E r \in DOMAIN s.reads : \E x \in read(r).reaches : y = x + s.reads[r].extent \div 2
        \/ now.scalars # <<>> /\ y = Length
  <2> HIDE DEF now, s
  <2>1. \A y : y \in Computed(job.plan, Length, now, s).reaches
                  <=> Looks(job.plan, Length, now, s, y)
    BY ReachesAre
  <2> QED
    BY <2>1, Zenon DEF Looks
<1> HIDE DEF read, c, now, s
<1>4. ASSUME NEW r \in DOMAIN s.reads, NEW x \in read(r).reaches
      PROVE  x + s.reads[r].extent \div 2 \in Nat
  <2>1. s.reads[r].extent \in Nat /\ x \in Nat
    BY <1>1, <1>2
  <2> QED
    BY <2>1
<1>5. c.reaches \subseteq Nat
  <2> SUFFICES ASSUME NEW y \in c.reaches PROVE y \in Nat
    OBVIOUS
  <2>1. CASE y = Length
    BY <1>1, <2>1
  <2>2. CASE y # Length
    <3>1. PICK r \in DOMAIN s.reads : \E x \in read(r).reaches : y = x + s.reads[r].extent \div 2
      BY <1>3, <2>2
    <3> QED
      BY <1>4, <3>1
  <2> QED
    BY <2>1, <2>2
<1>6. c.reaches # {}
  <2>1. 1 \in DOMAIN s.reads
    BY <1>1
  <2>2. PICK x : x \in read(1).reaches
    BY <1>2, <2>1
  <2>3. x + s.reads[1].extent \div 2 \in c.reaches
    BY <1>3, <2>1, <2>2, Zenon
  <2> QED
    BY <2>3
<1> QED
  BY <1>5, <1>6 DEF c, now, s

\* The plan's states are typed.
LEMMA PlanType ==
  ASSUME job \in Jobs, NEW base \in 0 .. Ring - 1
  PROVE  \A k \in 0 .. Len(Steps) : Typed(Planned(base)[k])
<1> DEFINE S == {k \in 0 .. Len(Steps) : Typed(Planned(base)[k])}
<1>1. Len(Steps) \in Nat /\ Ring \in Nat \ {0}
  BY StepFacts, JobNumbers
<1>2. 0 \in S
  <2>1. Planned(base)[0] = Before(job.plan, base)
    BY PlanSteps
  <2>2. /\ Before(job.plan, base).cur = base
        /\ Before(job.plan, base).buffers = [b \in Buffer |-> Nothing]
    <3>1. Before(job.plan, base).cur = base
      BY DEF Before
    <3>2. Before(job.plan, base).buffers = [b \in Buffer |-> Nothing]
      <4>1. Before(job.plan, base).buffers
              = [b \in 0 .. (job.plan.ring + job.plan.scratch) - 1 |-> Nothing]
        BY DEF Before
      <4>2. Buffer = 0 .. (job.plan.ring + job.plan.scratch) - 1
        BY Zenon DEF Buffer, NumBuffers, Ring
      <4> QED
        BY <4>1, <4>2, Zenon
    <3> QED
      BY <3>1, <3>2
  <2>3. \A b \in Buffer : ~Before(job.plan, base).buffers[b].known
    BY <2>2 DEF Nothing
  <2> QED
    BY <1>1, <2>1, <2>2, <2>3 DEF Typed
<1>3. ASSUME NEW i \in 0 .. Len(Steps) - 1, i \in S PROVE i + 1 \in S
  <2> DEFINE k == i + 1
             now == Planned(base)[i]
             s == Steps[k]
  <2>1. k \in 1 .. Len(Steps) /\ k - 1 = i
    BY <1>1
  <2>2. Planned(base)[k] = After(job.plan, Length, now, s) /\ Typed(now)
    BY <1>3, <2>1, PlanSteps
  <2>3. s.op \in {"send", "clear", "reduce", "launch"}
    BY <2>1, StepFacts
  <2>4. After(job.plan, Length, now, s).cur \in 0 .. Ring - 1
    <3>1. After(job.plan, Length, now, s).cur
            = IF s.op = "launch" /\ s.increment THEN (now.cur + 1) % Ring ELSE now.cur
      BY Zenon DEF After, Ring
    <3>2. now.cur \in 0 .. Ring - 1
      BY <2>2 DEF Typed
    <3> HIDE DEF now, s
    <3>3. (now.cur + 1) % Ring \in 0 .. Ring - 1
      BY <1>1, <3>2
    <3> QED
      BY <3>1, <3>2, <3>3
  <2>5. DOMAIN After(job.plan, Length, now, s).buffers = Buffer
    BY <2>2 DEF After, Typed
  <2> DEFINE o == Output(job.plan, Length, now, s)
  <2>6. s.op # "reduce" => o.reaches # {} /\ o.reaches \subseteq Nat
    <3>1. CASE s.op = "launch"
      <4>1. /\ Computed(job.plan, Length, now, s).reaches # {}
            /\ Computed(job.plan, Length, now, s).reaches \subseteq Nat
        <5> HIDE DEF k
        <5>1. Typed(Planned(base)[k - 1])
          BY <2>1, <2>2
        <5> QED
          BY <2>1, <3>1, <5>1, ComputedReaches
      <4> QED
        BY <3>1, <4>1 DEF Output
    <3>2. ASSUME s.op # "launch", s.op # "reduce" PROVE o.reaches = {0}
      <4>1. \A t : Holding(t, {0}).reaches = {0}
        BY DEF Holding
      <4>2. o = Holding(IF s.op = "send" THEN s.term ELSE <<"zero">>, {0})
        BY <2>3, <3>2 DEF Output
      <4> HIDE DEF o, s
      <4> QED
        BY <4>1, <4>2
    <3> HIDE DEF o, s
    <3> QED
      BY <3>1, <3>2
  <2>7. ASSUME NEW b \in Buffer, After(job.plan, Length, now, s).buffers[b].known
        PROVE  /\ After(job.plan, Length, now, s).buffers[b].reaches # {}
               /\ After(job.plan, Length, now, s).buffers[b].reaches \subseteq Nat
    <3>1. CASE b \in {RoleBuffer(job.plan, now.cur, role) : role \in Written(s)}
      <4>1. s.op # "reduce"
        BY <3>1 DEF Written
      <4>2. After(job.plan, Length, now, s).buffers[b] = Output(job.plan, Length, now, s)
        BY <2>2, <3>1 DEF After, Typed
      <4> QED
        BY <2>6, <4>1, <4>2
    <3>2. CASE b \notin {RoleBuffer(job.plan, now.cur, role) : role \in Written(s)}
      <4>1. After(job.plan, Length, now, s).buffers[b] = now.buffers[b]
        BY <2>2, <3>2 DEF After, Typed
      <4> QED
        BY <2>2, <2>7, <4>1 DEF Typed
    <3> QED
      BY <3>1, <3>2
  <2>8. Typed(Planned(base)[k])
    BY <2>2, <2>4, <2>5, <2>7 DEF Typed
  <2> QED
    BY <2>1, <2>8
<1> HIDE DEF S
<1>4. \A k \in 0 .. Len(Steps) : k \in S
  BY <1>1, <1>2, <1>3, UpTo
<1> QED
  BY <1>4 DEF S

\* What a copy from the image or a clear changes.
LEMMA FillStep ==
  ASSUME job \in Jobs, NEW base \in 0 .. Ring - 1, NEW k \in 1 .. Len(Steps),
         Steps[k].op \in {"send", "clear"}
  PROVE  /\ Planned(base)[k].cur = Planned(base)[k - 1].cur
         /\ Planned(base)[k].scalars = Planned(base)[k - 1].scalars
         /\ \A b \in Buffer : Planned(base)[k].buffers[b] =
              IF b = RoleBuffer(job.plan, Planned(base)[k - 1].cur, Steps[k].into)
              THEN Holding(IF Steps[k].op = "send" THEN Steps[k].term ELSE <<"zero">>, {0})
              ELSE Planned(base)[k - 1].buffers[b]
<1> DEFINE now == Planned(base)[k - 1]
           s == Steps[k]
<1>1. Planned(base)[k] = After(job.plan, Length, now, s)
  BY PlanSteps
<1>2. DOMAIN now.buffers = Buffer
  <2>1. k - 1 \in 0 .. Len(Steps)
    BY StepFacts
  <2> QED
    BY <2>1, PlanType DEF Typed
<1>3. Written(s) = {s.into}
  BY DEF Written
<1>4. Output(job.plan, Length, now, s) = Holding(IF s.op = "send" THEN s.term ELSE <<"zero">>, {0})
  BY DEF Output
<1> HIDE DEF now, s
<1>5. After(job.plan, Length, now, s).cur = now.cur
      /\ After(job.plan, Length, now, s).scalars = now.scalars
  BY DEF After, s
<1>6. ASSUME NEW b \in Buffer
      PROVE  After(job.plan, Length, now, s).buffers[b] =
               IF b = RoleBuffer(job.plan, now.cur, s.into) THEN Output(job.plan, Length, now, s)
               ELSE now.buffers[b]
  BY <1>2, <1>3 DEF After
<1> QED
  BY <1>1, <1>4, <1>5, <1>6 DEF now, s

\* What a reduction to one number changes.
LEMMA ReduceStepIs ==
  ASSUME job \in Jobs, NEW base \in 0 .. Ring - 1, NEW k \in 1 .. Len(Steps),
         Steps[k].op = "reduce"
  PROVE  /\ Planned(base)[k].cur = Planned(base)[k - 1].cur
         /\ Planned(base)[k].scalars = Append(Planned(base)[k - 1].scalars,
              <<Steps[k].fn, Held(job.plan, Planned(base)[k - 1], Steps[k].of).term>>)
         /\ \A b \in Buffer : Planned(base)[k].buffers[b] = Planned(base)[k - 1].buffers[b]
<1> DEFINE now == Planned(base)[k - 1]
           s == Steps[k]
<1>1. Planned(base)[k] = After(job.plan, Length, now, s)
  BY PlanSteps
<1>2. DOMAIN now.buffers = Buffer
  <2>1. k - 1 \in 0 .. Len(Steps)
    BY StepFacts
  <2> QED
    BY <2>1, PlanType DEF Typed
<1>3. Written(s) = {}
  BY DEF Written
<1> HIDE DEF now, s
<1>4. /\ After(job.plan, Length, now, s).cur = now.cur
      /\ After(job.plan, Length, now, s).scalars
           = Append(now.scalars, <<s.fn, Held(job.plan, now, s.of).term>>)
  BY DEF After, s
<1>5. \A b \in Buffer : After(job.plan, Length, now, s).buffers[b] = now.buffers[b]
  BY <1>2, <1>3 DEF After
<1> QED
  BY <1>1, <1>4, <1>5 DEF now, s

\* What a launch changes.
LEMMA LaunchStepIs ==
  ASSUME job \in Jobs, NEW base \in 0 .. Ring - 1, NEW k \in 1 .. Len(Steps),
         Steps[k].op = "launch"
  PROVE  /\ Planned(base)[k].cur = IF Steps[k].increment THEN (Planned(base)[k - 1].cur + 1) % Ring
                                   ELSE Planned(base)[k - 1].cur
         /\ Planned(base)[k].scalars = Planned(base)[k - 1].scalars
         /\ \A b \in Buffer : Planned(base)[k].buffers[b] =
              IF b = RoleBuffer(job.plan, Planned(base)[k - 1].cur, Steps[k].into)
              THEN Computed(job.plan, Length, Planned(base)[k - 1], Steps[k])
              ELSE Planned(base)[k - 1].buffers[b]
<1> DEFINE now == Planned(base)[k - 1]
           s == Steps[k]
<1>1. Planned(base)[k] = After(job.plan, Length, now, s)
  BY PlanSteps
<1>2. DOMAIN now.buffers = Buffer
  <2>1. k - 1 \in 0 .. Len(Steps)
    BY StepFacts
  <2> QED
    BY <2>1, PlanType DEF Typed
<1>3. Written(s) = {s.into}
  BY DEF Written
<1>4. Output(job.plan, Length, now, s) = Computed(job.plan, Length, now, s)
  BY DEF Output
<1> HIDE DEF now, s
<1>5. /\ After(job.plan, Length, now, s).cur = IF s.increment THEN (now.cur + 1) % Ring ELSE now.cur
      /\ After(job.plan, Length, now, s).scalars = now.scalars
  BY DEF After, s, Ring
<1>6. ASSUME NEW b \in Buffer
      PROVE  After(job.plan, Length, now, s).buffers[b] =
               IF b = RoleBuffer(job.plan, now.cur, s.into) THEN Output(job.plan, Length, now, s)
               ELSE now.buffers[b]
  BY <1>2, <1>3 DEF After
<1> QED
  BY <1>1, <1>4, <1>5, <1>6 DEF now, s

-----------------------------------------------------------------------------
(***************************************************************************)
(* The chunks                                                              *)
(***************************************************************************)
\* The numbers the chunks are cut with.
LEMMA ChunkNumbers ==
  ASSUME job \in Jobs
  PROVE  /\ Delta \in Nat \ {0} /\ NumChunks1 = CeilDiv(Length, Delta)
         /\ Margin(KernelLength) \in Nat
<1> DEFINE im == Shape(Length)
           dev == Shape(DeviceLength)
           kern == Shape(KernelLength)
<1>1. /\ WellDefined(im, dev, kern) /\ Length \in Nat \ {0} /\ KernelLength \in Nat \ {0}
      /\ "z" \in Axis /\ im["z"] = Length /\ DeviceLength \in Nat \ {0} /\ SizeMod \in Nat \ {0}
  BY JobNumbers, SizeModAssumption DEF Axis, Shape
<1>2. DeviceDelta(dev, kern)["z"] \in Int
  <2>1. \A a \in Axis : dev[a] \in Int /\ Margin(kern[a]) \in Int
    BY JobNumbers DEF Shape, Margin
  <2>2. Room(dev["z"], kern["z"]) \in Int
    BY <1>1, <2>1 DEF Room
  <2> QED
    BY <1>1, <2>2 DEF DeviceDelta
<1>3. Margin(KernelLength) \in Nat
  BY <1>1 DEF Margin
<1>4. CASE IsCut(im["z"], dev["z"])
  <2>1. DeviceDelta(dev, kern)["z"] \in Nat \ {0}
    BY <1>1, <1>2, <1>4 DEF WellDefined
  <2>2. Delta = DeviceDelta(dev, kern)["z"]
    BY <1>1, <1>4 DEF Delta, ChunkDelta
  <2>3. NumChunks1 = CeilDiv(Length, Delta)
    BY <1>1, <1>4, <2>2 DEF NumChunks1, NumChunks
  <2> QED
    BY <1>3, <2>1, <2>2, <2>3
<1>5. CASE ~IsCut(im["z"], dev["z"])
  <2>1. Delta = Length /\ NumChunks1 = 1
    BY <1>1, <1>5 DEF Delta, ChunkDelta, NumChunks1, NumChunks
  <2>2. CeilDiv(Length, Length) = 1
    <3> DEFINE c == CeilDiv(Length, Length)
    <3>1. c \in Nat \ {0} /\ Length * (c - 1) < Length
      BY <1>1, CeilDivBounds
    <3>2. c > 1 => Length * (c - 1) >= Length
      <4> SUFFICES ASSUME c > 1 PROVE Length * (c - 1) >= Length
        OBVIOUS
      <4> DEFINE d == c - 1
      <4>1. d \in Nat \ {0}
        BY <3>1
      <4> HIDE DEF d
      <4>2. Length * d >= Length
        BY <1>1, <4>1
      <4> QED
        BY <4>2 DEF d
    <3> HIDE DEF c
    <3>3. Length * (c - 1) \in Int
      BY <1>1, <3>1
    <3> QED
      BY <1>1, <3>1, <3>2, <3>3 DEF c
  <2> QED
    BY <1>1, <1>3, <2>1, <2>2
<1> QED
  BY <1>4, <1>5

\* A chunk lies in the image, and fits the buffers.
LEMMA ChunkFacts ==
  ASSUME job \in Jobs, NEW i \in Chunks
  PROVE  /\ Start(i) \in Nat /\ End(i) \in Nat /\ Start(i) <= End(i) /\ End(i) < Length
         /\ Size(i) \in Nat \ {0} /\ Size(i) = End(i) - Start(i) + 1 /\ Size(i) <= Length
         /\ ImageROIStart(Delta, i) \in Nat /\ ImageROIEnd(Length, Delta, i) \in Nat
         /\ Start(i) = Greatest(ImageROIStart(Delta, i) - Margin(KernelLength), 0)
         /\ Start(i) <= ImageROIStart(Delta, i) /\ ImageROIEnd(Length, Delta, i) <= End(i)
         /\ End(i) = Least(ImageROIEnd(Length, Delta, i) + Margin(KernelLength), Length - 1)
<1>1. /\ Length \in Nat \ {0} /\ Delta \in Nat \ {0} /\ Margin(KernelLength) \in Nat
      /\ i \in 0 .. CeilDiv(Length, Delta) - 1
  BY JobNumbers, ChunkNumbers DEF Chunks
<1> DEFINE s == Delta * i
<1>2. s \in Nat /\ s < Length
  BY <1>1, ChunkStartsInside
<1> HIDE DEF s
<1>3. /\ ImageROIStart(Delta, i) = s /\ ImageROIEnd(Length, Delta, i) = Least(s + Delta, Length - 1)
      /\ Start(i) = Greatest(s - Margin(KernelLength), 0)
      /\ End(i) = Least(Least(s + Delta, Length - 1) + Margin(KernelLength), Length - 1)
  BY DEF s, ImageROIStart, ImageROIEnd, ImageStart, ImageEnd, Start, End
<1> QED
  BY <1>1, <1>2, <1>3 DEF Size, Least, Greatest

\* A chunk with its margins fits the buffers.
LEMMA ChunkFits ==
  ASSUME job \in Jobs
  PROVE  MaxDeviceDims \in Nat \ {0} /\ \A i \in Chunks : Size(i) <= MaxDeviceDims
<1> DEFINE sizes == {Size(i) : i \in Chunks}
           T == {Length - n : n \in sizes}
<1>1. \A n \in sizes : n \in Nat \ {0} /\ n <= Length
  BY ChunkFacts
<1>2. 0 \in Chunks
  BY CallNumbers DEF Chunks
<1>3. Length \in Nat
  BY JobNumbers
<1>4. T \in SUBSET Nat /\ T # {}
  <2>1. Size(0) \in sizes
    BY <1>2
  <2> HIDE DEF sizes
  <2> QED
    BY <1>1, <1>3, <2>1
<1>5. PICK m \in T : \A t \in T : m <= t
  <2> HIDE DEF T
  <2> QED
    BY <1>4, LeastNumber
<1>6. PICK n \in sizes : m = Length - n
  BY <1>5
<1> HIDE DEF sizes
<1>7. \A l \in sizes : l <= n
  BY <1>1, <1>3, <1>5, <1>6
<1>8. MaxDeviceDims \in sizes /\ \A i \in Chunks : Size(i) <= MaxDeviceDims
  <2>1. n \in sizes /\ \A i \in Chunks : Size(i) <= n
    BY <1>7 DEF sizes
  <2>2. MaxDeviceDims = CHOOSE c \in sizes : \A i \in Chunks : Size(i) <= c
    BY DEF MaxDeviceDims, sizes
  <2> QED
    BY <2>1, <2>2, Zenon
<1> QED
  BY <1>1, <1>8

\* Every voxel of the image is in some chunk.
LEMMA ChunksCover ==
  ASSUME job \in Jobs, NEW v \in 0 .. Length - 1
  PROVE  \E i \in Chunks : v \in Start(i) .. End(i)
<1>1. Length \in Nat \ {0} /\ Delta \in Nat \ {0}
  BY JobNumbers, ChunkNumbers
<1>2. PICK i \in 0 .. CeilDiv(Length, Delta) - 1 :
        ImageROIStart(Delta, i) <= v /\ v <= ImageROIEnd(Length, Delta, i)
  BY <1>1, ROIsCoverAxis
<1>3. i \in Chunks
  BY <1>2, ChunkNumbers DEF Chunks
<1> QED
  BY <1>1, <1>2, <1>3, ChunkFacts

\* What a voxel of the region of interest looks at is in the chunk, if it is in the margin.
LEMMA MarginHolds ==
  ASSUME job \in Jobs, NEW i \in Chunks, NEW v \in ROI(i), NEW x \in Nat,
         x <= Margin(KernelLength)
  PROVE  v \in Start(i) .. End(i) /\ Within(v, x) \subseteq Start(i) .. End(i)
<1>1. /\ ImageROIStart(Delta, i) <= v /\ v <= ImageROIEnd(Length, Delta, i) /\ v \in Int
      /\ Length \in Nat \ {0} /\ Margin(KernelLength) \in Nat
  BY ChunkFacts, JobNumbers, ChunkNumbers DEF ROI
<1> QED
  BY <1>1, ChunkFacts DEF Within, Least, Greatest

\* A chunk as long as the image is the image.
LEMMA WholeChunk ==
  ASSUME job \in Jobs, NEW i \in Chunks, Size(i) = Length
  PROVE  Start(i) = 0 /\ End(i) = Length - 1
BY ChunkFacts, JobNumbers

\* A buffer that carries a value, voxel by voxel of the chunk.
LEMMA CarriesIs ==
  ASSUME job \in Jobs, NEW i \in Chunks, NEW buffer, NEW value
  PROVE  Carries(buffer, i, value) <=>
           \A p \in 0 .. Size(i) - 1 :
             /\ buffer[p].vox = Start(i) + p /\ buffer[p].term = value.term
             /\ (\A x \in value.reaches : Within(Start(i) + p, x) \subseteq Start(i) .. End(i))
                  => buffer[p].exact
<1>1. 0 .. Size(i) - 1 = 0 .. End(i) - Start(i)
  BY ChunkFacts
<1>2. \A p, x : Within(Start(i) + p, x)
                  = {u \in 0 .. Length - 1 : (Start(i) + p) - x <= u /\ u <= Start(i) + p + x}
  BY DEF Within
<1> QED
  BY <1>1, <1>2, Zenon DEF Carries, CarriesOn
-----------------------------------------------------------------------------
(***************************************************************************)
(* A launch                                                                *)
(***************************************************************************)
\* Along the cut axis an odd kernel reads half its extent around a position.
LEMMA WindowOfChunk ==
  ASSUME job \in Jobs, NEW i \in Chunks, NEW k \in Nat, k % 2 = 1, NEW p \in 0 .. Size(i) - 1
  PROVE  /\ Window(Size(i), Shape(k), "z", p)
              = {q \in 0 .. Size(i) - 1 : p - k \div 2 <= q /\ q <= p + k \div 2}
         /\ Window(Length, Shape(k), "z", Start(i) + p) = Within(Start(i) + p, k \div 2)
<1>1. LowReach(Shape(k), "z") = k \div 2 /\ HighReach(Shape(k), "z") = k \div 2
  <2>1. Shape(k)["x"] = 1 /\ Shape(k)["y"] = 1 /\ Shape(k)["z"] = k
    BY DEF Shape, Axis
  <2>2. \A b \in Axis : Shape(k)[b] % 2 = 1
    BY <2>1 DEF Axis
  <2>3. ~ \E b \in Axis : Shape(k)[b] % 2 = 0
    BY <2>2
  <2> QED
    BY <2>1, <2>3 DEF LowReach, HighReach
<1> QED
  BY <1>1 DEF Window, Within

\* The device is at the next step of the plan.
LEMMA NextLaunch ==
  ASSUME job \in Jobs, FlowType, NEW w \in Worker, NEW base \in 0 .. Ring - 1,
         Follows(w, idx[w], base), queue[w] # <<>>
  PROVE  /\ Ran(w) + 1 \in 1 .. Len(Steps) /\ Ran(w) + 1 \in Ran(w) + 1 .. Issued(w)
         /\ Steps[Ran(w) + 1].op = "launch"
         /\ Head(queue[w]) = Launched(job.plan, Size(idx[w]), scalars[w], Planned(base), Ran(w) + 1)
<1>1. queue[w] \in Seq(Range(queue[w])) /\ step[w] \in Nat
  BY DEF FlowType, HasLists
<1>2. Len(queue[w]) \in Nat \ {0} /\ Head(queue[w]) = queue[w][1]
  BY <1>1
<1>3. Issued(w) \in 0 .. Len(Steps) /\ Ran(w) \in Nat /\ Ran(w) + Len(queue[w]) = Issued(w)
  BY <1>1, <1>2 DEF Follows, Ran, Issued
<1>4. Ran(w) + 1 \in Ran(w) + 1 .. Issued(w) /\ Ran(w) + 1 \in 1 .. Len(Steps)
  BY <1>2, <1>3
<1>5. Steps[Ran(w) + 1].op = "launch"
      /\ queue[w][(Ran(w) + 1) - Ran(w)]
           = Launched(job.plan, Size(idx[w]), scalars[w], Planned(base), Ran(w) + 1)
  BY <1>4 DEF Follows
<1>6. (Ran(w) + 1) - Ran(w) = 1
  BY <1>3
<1> QED
  BY <1>2, <1>4, <1>5, <1>6

\* What the next launch reads is in the buffers.
LEMMA LaunchReads ==
  ASSUME job \in Jobs, FlowType, NEW w \in Worker, NEW base \in 0 .. Ring - 1,
         Follows(w, idx[w], base), queue[w] # <<>>, NEW r \in DOMAIN Steps[Ran(w) + 1].reads
  PROVE  LET now == Planned(base)[Ran(w)]
             l == Head(queue[w])
             s == Steps[Ran(w) + 1]
         IN /\ DOMAIN l.reads = DOMAIN s.reads /\ l.reads[r].extent = s.reads[r].extent
            /\ s.reads[r].extent \in Nat /\ s.reads[r].extent % 2 = 1
            /\ Held(job.plan, now, s.reads[r].role).reaches # {}
            /\ Held(job.plan, now, s.reads[r].role).reaches \subseteq Nat
            /\ Carries(image[w][l.reads[r].buffer], idx[w], Held(job.plan, now, s.reads[r].role))
<1> DEFINE k == Ran(w) + 1
           now == Planned(base)[k - 1]
           l == Head(queue[w])
           s == Steps[k]
           b == RoleBuffer(job.plan, now.cur, s.reads[r].role)
<1>1. /\ k \in 1 .. Len(Steps) /\ s.op = "launch"
      /\ l = Launched(job.plan, Size(idx[w]), scalars[w], Planned(base), k)
  BY NextLaunch
<1>2. k - 1 = Ran(w) /\ k - 1 \in 0 .. Len(Steps)
  <2>1. Ran(w) \in Nat
    BY Zenon DEF Follows
  <2> QED
    BY <1>1, <2>1, StepFacts
<1>3. s.reads[r].role \in Used(s)
  BY <1>1 DEF Used
<1>4. Held(job.plan, now, s.reads[r].role).known /\ s.reads[r].role \in Roles(job.plan)
  <2> HIDE DEF k
  <2> QED
    BY <1>1, <1>3, UsedIsKnown, StepFacts
<1>5. now.cur \in 0 .. Ring - 1 /\ Typed(now)
  <2> HIDE DEF k
  <2> QED
    BY <1>2, PlanType DEF Typed
<1>6. b \in Buffer
  <2> HIDE DEF now
  <2> QED
    BY <1>4, <1>5, RoleIsABuffer
<1>7. Held(job.plan, now, s.reads[r].role) = now.buffers[b]
  BY DEF Held
<1>8. now.buffers[b].reaches # {} /\ now.buffers[b].reaches \subseteq Nat
  BY <1>4, <1>5, <1>6, <1>7 DEF Typed
<1>9. /\ DOMAIN l.reads = DOMAIN s.reads /\ l.reads[r].buffer = b
      /\ l.reads[r].extent = s.reads[r].extent
  BY <1>1 DEF Launched, Steps
<1>10. s.reads[r].extent \in Nat /\ s.reads[r].extent % 2 = 1
  <2>1. r \in DOMAIN s.reads
    OBVIOUS
  <2> HIDE DEF k
  <2> QED
    BY <1>1, <2>1, StepFacts
<1>11. Carries(image[w][b], idx[w], now.buffers[b])
  <2>1. now = Planned(base)[Ran(w)]
    BY <1>2
  <2> HIDE DEF now, b
  <2>2. now.buffers[b].known
    BY <1>4, <1>7
  <2> QED
    BY <1>6, <2>1, <2>2 DEF Follows
<1> QED
  BY <1>2, <1>7, <1>8, <1>9, <1>10, <1>11

\* The position of the image that position p of a worker's chunk is.
Voxel(w, p) == Start(idx[w]) + p

\* Everything a value of c looks at from v is in chunk i.
Sees(i, v, c) == \A x \in c.reaches : Within(v, x) \subseteq Start(i) .. End(i)

\* A kernel that runs writes the voxel and the term the plan says.
LEMMA FilteredTerm ==
  ASSUME job \in Jobs, FlowType, NEW w \in Worker, NEW base \in 0 .. Ring - 1,
         idx[w] \in Chunks, Follows(w, idx[w], base), queue[w] # <<>>,
         NEW p \in 0 .. Size(idx[w]) - 1
  PROVE  LET c == Computed(job.plan, Length, Planned(base)[Ran(w)], Steps[Ran(w) + 1])
             f == Filtered(w, Head(queue[w]), p)
         IN f.vox = Voxel(w, p) /\ f.term = c.term
<1> DEFINE now == Planned(base)[Ran(w)]
           l == Head(queue[w])
           s == Steps[Ran(w) + 1]
           c == Computed(job.plan, Length, now, s)
           f == Filtered(w, l, p)
           read(r) == image[w][l.reads[r].buffer]
<1>1. \A r \in DOMAIN s.reads :
        /\ read(r)[p].vox = Voxel(w, p)
        /\ read(r)[p].term = Held(job.plan, now, s.reads[r].role).term
  <2>1. \A r \in DOMAIN s.reads : Carries(read(r), idx[w], Held(job.plan, now, s.reads[r].role))
    BY LaunchReads
  <2> HIDE DEF now, l, s, read
  <2> QED
    BY <2>1, CarriesIs DEF Voxel
<1>2. /\ Ran(w) + 1 \in 1 .. Len(Steps) /\ s.op = "launch"
      /\ l = Launched(job.plan, Size(idx[w]), scalars[w], Planned(base), Ran(w) + 1)
  BY NextLaunch
<1>3. 1 \in DOMAIN s.reads /\ DOMAIN l.reads = DOMAIN s.reads
  <2>1. Len(s.reads) \in Nat \ {0} /\ DOMAIN s.reads = 1 .. Len(s.reads)
    BY <1>2, StepFacts
  <2>2. 1 \in DOMAIN s.reads
    BY <2>1
  <2> QED
    BY <2>2, LaunchReads
<1>4. f.vox = read(1)[p].vox
  BY DEF Filtered
<1>5. f.term = <<l.fn>> \o [r \in DOMAIN l.reads |-> read(r)[p].term]
                       \o [x \in DOMAIN l.scalars |-> l.scalars[x].term]
  BY DEF Filtered
<1>6. c.term = <<s.fn>> \o [r \in DOMAIN s.reads |-> Held(job.plan, now, s.reads[r].role).term]
                       \o now.scalars
  BY DEF Computed, Holding
<1>7. l.fn = s.fn /\ l.scalars = scalars[w]
  BY <1>2 DEF Launched, Steps
<1>8. now.scalars = [x \in DOMAIN l.scalars |-> l.scalars[x].term]
  <2>1. Ran(w) \in Ran(w) .. Issued(w)
    BY <1>2, NextLaunch DEF Follows
  <2> QED
    BY <1>7, <2>1 DEF Follows
<1>9. [r \in DOMAIN l.reads |-> read(r)[p].term]
        = [r \in DOMAIN s.reads |-> Held(job.plan, now, s.reads[r].role).term]
  <2> HIDE DEF read, now, s, l
  <2> QED
    BY <1>1, <1>3
<1> HIDE DEF now, l, s, c, f, read
<1>10. f.term = c.term
  BY <1>5, <1>6, <1>7, <1>8, <1>9, Zenon
<1> QED
  BY <1>1, <1>3, <1>4, <1>10 DEF now, l, s, c, f

\* What is looked at around a neighbour is looked at around the voxel, that much further.
LEMMA WindowSees ==
  ASSUME job \in Jobs, NEW i \in Chunks, NEW k \in Nat, k % 2 = 1, NEW p \in 0 .. Size(i) - 1,
         NEW x \in Nat, Within(Start(i) + p, x + k \div 2) \subseteq Start(i) .. End(i)
  PROVE  /\ Within(Start(i) + p, k \div 2) \subseteq Start(i) .. End(i)
         /\ \A q \in Window(Size(i), Shape(k), "z", p) :
              Within(Start(i) + q, x) \subseteq Start(i) .. End(i)
<1> DEFINE h == k \div 2
           s == Start(i)
<1>1. h \in Nat /\ s \in Nat /\ Length \in Nat /\ Size(i) \in Nat /\ p \in Int
  BY ChunkFacts, JobNumbers
<1>2. Window(Size(i), Shape(k), "z", p) = {q \in 0 .. Size(i) - 1 : p - h <= q /\ q <= p + h}
  BY WindowOfChunk
<1> HIDE DEF h, s
<1>3. Within(s + p, h) \subseteq Within(s + p, x + h)
  BY <1>1 DEF Within
<1>4. ASSUME NEW q \in 0 .. Size(i) - 1, p - h <= q, q <= p + h
      PROVE  Within(s + q, x) \subseteq Within(s + p, x + h)
  BY <1>1, <1>4 DEF Within
<1>5. Within(s + p, x + h) \subseteq s .. End(i)
  BY DEF s, h
<1>6. \A q \in Window(Size(i), Shape(k), "z", p) : Within(s + q, x) \subseteq s .. End(i)
  BY <1>2, <1>4, <1>5
<1>7. Within(s + p, h) \subseteq s .. End(i)
  BY <1>3, <1>5
<1> QED
  BY <1>6, <1>7 DEF s, h

\* The voxels at the positions a launch reads are the ones a kernel reads in the image.
LEMMA WindowVoxels ==
  ASSUME job \in Jobs, NEW i \in Chunks, NEW k \in Nat, k % 2 = 1, NEW p \in 0 .. Size(i) - 1,
         Within(Start(i) + p, k \div 2) \subseteq Start(i) .. End(i)
  PROVE  {Start(i) + q : q \in Window(Size(i), Shape(k), "z", p)}
           = Window(Length, Shape(k), "z", Start(i) + p)
<1> DEFINE h == k \div 2
           s == Start(i)
           W == Window(Size(i), Shape(k), "z", p)
<1>1. /\ h \in Nat /\ s \in Nat /\ Length \in Nat /\ Size(i) \in Nat /\ p \in Int
      /\ End(i) \in Nat /\ End(i) < Length /\ Size(i) = End(i) - s + 1
  BY ChunkFacts, JobNumbers
<1>2. /\ W = {q \in 0 .. Size(i) - 1 : p - h <= q /\ q <= p + h}
      /\ Window(Length, Shape(k), "z", s + p) = Within(s + p, h)
  BY WindowOfChunk
<1>3. Within(s + p, h) \subseteq s .. End(i)
  BY DEF s, h
<1> HIDE DEF h, s, W
<1>4. ASSUME NEW q \in W PROVE s + q \in Within(s + p, h)
  BY <1>1, <1>2 DEF Within
<1>5. ASSUME NEW u \in Within(s + p, h) PROVE u - s \in W /\ u = s + (u - s)
  <2>1. u \in s .. End(i)
    BY <1>3
  <2>2. u \in Int /\ (s + p) - h <= u /\ u <= (s + p) + h
    BY <1>1 DEF Within
  <2>3. u - s \in 0 .. Size(i) - 1 /\ p - h <= u - s /\ u - s <= p + h
    BY <1>1, <2>1, <2>2
  <2> QED
    BY <1>1, <1>2, <2>2, <2>3
<1>6. {s + q : q \in W} = Within(s + p, h)
  BY <1>4, <1>5
<1> QED
  BY <1>2, <1>6 DEF s, W

\* The numbers that were reduced are right if the value of a voxel is to be.
LEMMA ScalarsSeen ==
  ASSUME job \in Jobs, FlowType, NEW w \in Worker, idx[w] \in Chunks, NEW base \in 0 .. Ring - 1,
         Follows(w, idx[w], base), queue[w] # <<>>, NEW p \in 0 .. Size(idx[w]) - 1,
         Sees(idx[w], Voxel(w, p),
              Computed(job.plan, Length, Planned(base)[Ran(w)], Steps[Ran(w) + 1]))
  PROVE  \A x \in DOMAIN scalars[w] : scalars[w][x].exact
<1> DEFINE now == Planned(base)[Ran(w)]
           s == Steps[Ran(w) + 1]
           i == idx[w]
<1>1. now.scalars = [x \in DOMAIN scalars[w] |-> scalars[w][x].term]
  <2>1. Ran(w) \in Ran(w) .. Issued(w)
    BY NextLaunch DEF Follows
  <2> QED
    BY <2>1 DEF Follows
<1>2. CASE now.scalars = <<>>
  <2>1. DOMAIN scalars[w] = {}
    BY <1>1, <1>2
  <2> QED
    BY <2>1
<1>3. CASE now.scalars # <<>>
  <2>1. Looks(job.plan, Length, now, s, Length)
    BY <1>3 DEF Looks
  <2>2. Length \in Computed(job.plan, Length, now, s).reaches
    <3> HIDE DEF now, s
    <3> QED
      BY <2>1, ReachesAre
  <2>3. Within(Voxel(w, p), Length) \subseteq Start(i) .. End(i)
    BY <2>2 DEF Sees
  <2>4. /\ Length \in Nat \ {0} /\ Start(i) \in Nat /\ End(i) \in Nat /\ End(i) < Length
        /\ Size(i) = End(i) - Start(i) + 1 /\ p \in 0 .. Size(i) - 1
    BY ChunkFacts, JobNumbers
  <2>5. 0 \in Within(Voxel(w, p), Length) /\ Length - 1 \in Within(Voxel(w, p), Length)
    BY <2>4 DEF Within, Voxel
  <2>6. 0 \in Start(i) .. End(i) /\ Length - 1 \in Start(i) .. End(i)
    BY <2>3, <2>5
  <2>7. Size(i) = Length
    BY <2>4, <2>6
  <2> QED
    BY <2>7 DEF Follows
<1> QED
  BY <1>2, <1>3

\* It writes an exact value where the chunk holds all the voxel looks at.
LEMMA FilteredExact ==
  ASSUME job \in Jobs, FlowType, NEW w \in Worker, idx[w] \in Chunks, NEW base \in 0 .. Ring - 1,
         Follows(w, idx[w], base), queue[w] # <<>>, NEW p \in 0 .. Size(idx[w]) - 1,
         Sees(idx[w], Voxel(w, p),
              Computed(job.plan, Length, Planned(base)[Ran(w)], Steps[Ran(w) + 1]))
  PROVE  Filtered(w, Head(queue[w]), p).exact
<1> DEFINE now == Planned(base)[Ran(w)]
           l == Head(queue[w])
           s == Steps[Ran(w) + 1]
           i == idx[w]
           c == Computed(job.plan, Length, now, s)
           value(r) == Held(job.plan, now, s.reads[r].role)
           read(r) == image[w][l.reads[r].buffer]
           window(r) == Window(Size(i), Shape(s.reads[r].extent), "z", p)
<1>1. l.scalars = scalars[w] /\ l.n = Size(i)
  <2>1. l = Launched(job.plan, Size(idx[w]), scalars[w], Planned(base), Ran(w) + 1)
    BY NextLaunch
  <2> QED
    BY <2>1 DEF Launched
<1>2. ASSUME NEW r \in DOMAIN l.reads
      PROVE  /\ \A q \in window(r) : read(r)[q].exact /\ read(r)[q].term = read(r)[p].term
             /\ {read(r)[q].vox : q \in window(r)}
                  = Window(Length, Shape(s.reads[r].extent), "z", read(1)[p].vox)
             /\ l.reads[r].extent = s.reads[r].extent
  <2> DEFINE e == s.reads[r].extent
  <2>1. r \in DOMAIN s.reads /\ 1 \in DOMAIN s.reads
    <3>1. Len(s.reads) \in Nat \ {0} /\ DOMAIN s.reads = 1 .. Len(s.reads)
      BY NextLaunch, StepFacts
    <3>2. 1 \in DOMAIN s.reads
      BY <3>1
    <3>3. DOMAIN l.reads = DOMAIN s.reads
      BY <3>2, LaunchReads
    <3> QED
      BY <3>2, <3>3
  <2>2. /\ l.reads[r].extent = e /\ e \in Nat /\ e % 2 = 1
        /\ value(r).reaches # {} /\ value(r).reaches \subseteq Nat
        /\ Carries(read(r), i, value(r)) /\ Carries(read(1), i, value(1))
    BY <2>1, LaunchReads
  <2>3. PICK x0 \in Nat : x0 \in value(r).reaches
    BY <2>2
  <2>4. ASSUME NEW x \in value(r).reaches
        PROVE  Within(Start(i) + p, x + e \div 2) \subseteq Start(i) .. End(i)
    <3>1. Looks(job.plan, Length, now, s, x + e \div 2)
      BY <2>1 DEF Looks
    <3>2. x + e \div 2 \in c.reaches
      <4> HIDE DEF now, s, e
      <4> QED
        BY <3>1, ReachesAre
    <3> QED
      BY <3>2 DEF Sees, Voxel
  <2>5. \A q \in window(r) : q \in 0 .. Size(i) - 1
    BY DEF Window
  <2> HIDE DEF e, value, i
  <2>6. ASSUME NEW q \in window(r), NEW x \in value(r).reaches
        PROVE  Within(Start(i) + q, x) \subseteq Start(i) .. End(i)
    <3>1. x \in Nat /\ Within(Start(i) + p, x + e \div 2) \subseteq Start(i) .. End(i)
      BY <2>2, <2>4
    <3>2. window(r) = Window(Size(i), Shape(e), "z", p) /\ i \in Chunks /\ p \in 0 .. Size(i) - 1
      BY DEF e, i
    <3> HIDE DEF window
    <3> QED
      BY <2>2, <3>1, <3>2, WindowSees
  <2>7. \A q \in window(r) : read(r)[q].exact /\ read(r)[q].term = read(r)[p].term
    <3>1. p \in 0 .. Size(i) - 1 /\ i \in Chunks
      BY DEF i
    <3> HIDE DEF window, read
    <3> QED
      BY <2>2, <2>5, <2>6, <3>1, CarriesIs
  <2>8. {read(r)[q].vox : q \in window(r)} = {Start(i) + q : q \in window(r)}
    <3>1. \A q \in window(r) : read(r)[q].vox = Start(i) + q
      <4>1. i \in Chunks
        BY DEF i
      <4> HIDE DEF window, read
      <4> QED
        BY <2>2, <2>5, <4>1, CarriesIs
    <3> HIDE DEF window, read
    <3> QED
      BY <3>1
  <2>9. read(1)[p].vox = Start(i) + p
    <3>1. p \in 0 .. Size(i) - 1 /\ i \in Chunks
      BY DEF i
    <3> HIDE DEF read
    <3> QED
      BY <2>2, <3>1, CarriesIs
  <2>10. {Start(i) + q : q \in window(r)} = Window(Length, Shape(e), "z", Start(i) + p)
    <3>1. window(r) = Window(Size(i), Shape(e), "z", p) /\ i \in Chunks /\ p \in 0 .. Size(i) - 1
      BY DEF e, i
    <3>2. Within(Start(i) + p, e \div 2) \subseteq Start(i) .. End(i)
      BY <2>2, <2>3, <2>4, <3>1, WindowSees
    <3> HIDE DEF window
    <3>3. e \in Nat /\ e % 2 = 1
      BY <2>2
    <3>4. {Start(i) + q : q \in Window(Size(i), Shape(e), "z", p)}
            = Window(Length, Shape(e), "z", Start(i) + p)
      BY <3>1, <3>2, <3>3, WindowVoxels, Zenon
    <3> QED
      BY <3>1, <3>4, Zenon
  <2>11. {read(r)[q].vox : q \in window(r)} = Window(Length, Shape(e), "z", read(1)[p].vox)
    <3> HIDE DEF window, read
    <3> QED
      BY <2>8, <2>9, <2>10, Zenon
  <2> QED
    BY <2>2, <2>7, <2>11, Zenon DEF e
<1>3. \A x \in DOMAIN scalars[w] : scalars[w][x].exact
  BY ScalarsSeen
<1>4. Filtered(w, l, p).exact =
        (/\ \A x \in DOMAIN l.scalars : l.scalars[x].exact
         /\ \A r \in DOMAIN l.reads :
             /\ \A q \in Window(l.n, Shape(l.reads[r].extent), "z", p) :
                  read(r)[q].exact /\ read(r)[q].term = read(r)[p].term
             /\ {read(r)[q].vox : q \in Window(l.n, Shape(l.reads[r].extent), "z", p)}
                  = Window(Length, Shape(l.reads[r].extent), "z", read(1)[p].vox))
  BY DEF Filtered
<1> HIDE DEF l, s, now, read
<1> QED
  BY <1>1, <1>2, <1>3, <1>4 DEF l
-----------------------------------------------------------------------------
(***************************************************************************)
(* What a step leaves alone                                                *)
(***************************************************************************)
\* What only depends on the job does not change while it does not.
LEMMA SameJob ==
  ASSUME UNCHANGED job, NEW i, NEW base
  PROVE  /\ Length' = Length /\ Steps' = Steps /\ Ring' = Ring /\ Buffer' = Buffer
         /\ Worker' = Worker /\ Chunks' = Chunks /\ MaxDeviceDims' = MaxDeviceDims
         /\ Start(i)' = Start(i) /\ End(i)' = End(i) /\ Size(i)' = Size(i)
         /\ Planned(base)' = Planned(base)
<1>1. Length' = Length /\ Steps' = Steps /\ Ring' = Ring /\ Delta' = Delta
  BY DEF Length, Steps, Ring, Delta, DeviceLength, KernelLength
<1>2. \A c : Start(c)' = Start(c) /\ End(c)' = End(c) /\ Size(c)' = Size(c)
  <2>1. KernelLength' = KernelLength
    BY DEF KernelLength
  <2>2. \A c : Start(c)' = Start(c)
    BY <1>1, <2>1 DEF Start
  <2>3. \A c : End(c)' = End(c)
    BY <1>1, <2>1 DEF End
  <2> QED
    BY <2>2, <2>3 DEF Size
<1>3. Worker' = Worker /\ Chunks' = Chunks /\ Buffer' = Buffer
  BY SameCall DEF Buffer
<1>4. MaxDeviceDims' = MaxDeviceDims
  BY <1>2, <1>3 DEF MaxDeviceDims
<1>5. Planned(base)' = Planned(base)
  BY <1>1 DEF Planned
<1> QED
  BY <1>1, <1>2, <1>3, <1>4, <1>5

\* Nor does what a buffer carries.
LEMMA CarriesSame ==
  ASSUME UNCHANGED job, NEW i, NEW buffer, NEW value
  PROVE  Carries(buffer, i, value)' = Carries(buffer, i, value)
BY SameJob DEF Carries

\* A list with one more at its end, and one less at its start.
LEMMA AppendIs ==
  ASSUME NEW s, s \in Seq(Range(s)), NEW e
  PROVE  /\ Append(s, e) \in Seq(Range(Append(s, e)))
         /\ Len(s) \in Nat /\ Len(Append(s, e)) = Len(s) + 1
         /\ DOMAIN s = 1 .. Len(s) /\ DOMAIN Append(s, e) = 1 .. Len(s) + 1
         /\ \A k \in 1 .. Len(s) : Append(s, e)[k] = s[k]
         /\ Append(s, e)[Len(s) + 1] = e
<1> DEFINE T == Range(s) \cup {e}
           a == Append(s, e)
<1>1. s \in Seq(T) /\ e \in T
  <2>1. Range(s) \subseteq T
    OBVIOUS
  <2> HIDE DEF T
  <2>2. Len(s) \in Nat /\ DOMAIN s = 1 .. Len(s) /\ \A k \in 1 .. Len(s) : s[k] \in Range(s)
    OBVIOUS
  <2> QED
    BY <2>1, <2>2 DEF T
<1> HIDE DEF T
<1>2. /\ a \in Seq(T) /\ Len(s) \in Nat /\ Len(a) = Len(s) + 1
      /\ DOMAIN s = 1 .. Len(s) /\ DOMAIN a = 1 .. Len(s) + 1
      /\ \A k \in 1 .. Len(s) : a[k] = s[k]
      /\ a[Len(s) + 1] = e
  BY <1>1
<1>3. a \in Seq(Range(a))
  <2> HIDE DEF a
  <2> QED
    BY <1>2 DEF Range
<1> QED
  BY <1>2, <1>3

\* The queue after its head is run.
LEMMA TailIs ==
  ASSUME NEW s, s \in Seq(Range(s)), s # <<>>
  PROVE  /\ Tail(s) \in Seq(Range(Tail(s)))
         /\ Len(s) \in Nat \ {0} /\ Len(Tail(s)) = Len(s) - 1
         /\ \A k \in 1 .. Len(s) - 1 : Tail(s)[k] = s[k + 1]
<1> DEFINE a == Tail(s)
           T == Range(s)
<1> HIDE DEF T
<1>1. s \in Seq(T)
  BY DEF T
<1>2. /\ a \in Seq(T) /\ Len(s) \in Nat \ {0} /\ Len(a) = Len(s) - 1
      /\ DOMAIN a = 1 .. Len(a)
      /\ \A k \in 1 .. Len(s) - 1 : a[k] = s[k + 1]
  BY <1>1
<1>3. a \in Seq(Range(a))
  <2> HIDE DEF a
  <2> QED
    BY <1>2 DEF Range
<1> QED
  BY <1>2, <1>3

\* A step of one worker changes nothing of another's.
Untouched(u) ==
  /\ pc'[u] = pc[u] /\ idx'[u] = idx[u] /\ image'[u] = image[u] /\ dims'[u] = dims[u]
  /\ curBuff'[u] = curBuff[u] /\ step'[u] = step[u] /\ scalars'[u] = scalars[u]
  /\ queue'[u] = queue[u]

\* A worker no step of which was taken follows the plan as before.
LEMMA UntouchedFlow ==
  ASSUME UNCHANGED job, NEW u \in Worker, Flow(u), Untouched(u)
  PROVE  Flow(u)'
<1>1. CASE pc[u] \in {"body", "copy"}
  <2>1. PICK i \in Chunks, base \in 0 .. Ring - 1 : idx[u] = i /\ Follows(u, i, base)
    BY <1>1 DEF Flow
  <2>2. Issued(u)' = Issued(u) /\ Ran(u)' = Ran(u)
    BY DEF Untouched, Issued, Ran
  <2>3. Follows(u, i, base)'
    <3>1. /\ Size(i)' = Size(i) /\ Start(i)' = Start(i) /\ End(i)' = End(i) /\ Length' = Length
          /\ Planned(base)' = Planned(base) /\ Steps' = Steps /\ Buffer' = Buffer /\ job' = job
      BY SameJob
    <3>2. Follows(u, i, base)
      BY <2>1
    <3>3. /\ \A k \in (Ran(u) + 1 .. Issued(u))' :
               /\ Steps'[k].op = "launch"
               /\ queue'[u][k - Ran(u)']
                    = Launched(job'.plan, Size(i)', scalars'[u], Planned(base)', k)
          /\ \A k \in (Ran(u) .. Issued(u))' :
               Planned(base)'[k].scalars = [s \in DOMAIN scalars'[u] |-> scalars'[u][s].term]
      BY <2>2, <3>1, <3>2 DEF Follows, Untouched
    <3>4. \A b \in Buffer' : Planned(base)'[Ran(u)'].buffers[b].known =>
            CarriesOn(image'[u][b], Start(i)', End(i)', Length', Planned(base)'[Ran(u)'].buffers[b])
      BY <2>2, <3>1, <3>2 DEF Follows, Carries, Untouched
    <3>5. /\ Issued(u)' \in (0 .. Len(Steps))' /\ Ran(u)' \in Nat
          /\ pc'[u] = "copy" => Issued(u)' = Len(Steps')
          /\ dims'[u] = Size(i)' /\ curBuff'[u] = Planned(base)'[Issued(u)'].cur
          /\ Size(i)' = Length' => \A s \in DOMAIN scalars'[u] : scalars'[u][s].exact
      BY <2>2, <3>1, <3>2 DEF Follows, Untouched
    <3> QED
      BY <3>3, <3>4, <3>5, Zenon DEF Follows, Carries
  <2>4. i \in Chunks' /\ base \in (0 .. Ring - 1)' /\ idx'[u] = i
    BY <2>1, SameJob DEF Untouched
  <2> QED
    BY <1>1, <2>3, <2>4 DEF Flow, Untouched
<1>2. CASE pc[u] \notin {"body", "copy"}
  BY <1>2 DEF Flow, Untouched
<1> QED
  BY <1>1, <1>2

\* One worker's step, of what is there.
Alone(w) ==
  /\ UNCHANGED job
  /\ \A u \in Worker \ {w} : Untouched(u)
  /\ DOMAIN image' = DOMAIN image /\ DOMAIN dims' = DOMAIN dims
  /\ DOMAIN scalars' = DOMAIN scalars /\ DOMAIN queue' = DOMAIN queue
  /\ DOMAIN imageOut' = DOMAIN imageOut
  /\ curBuff' \in [Worker -> 0 .. Ring - 1] /\ step' \in [Worker -> Nat]
  /\ row' \in [Worker -> Nat]
  /\ HasBuffers(w)' /\ HasLists(w)'

\* If the worker that stepped follows the plan, all do.
LEMMA AloneKeeps ==
  ASSUME FlowInv, RegionInv', NEW w \in Worker, Alone(w), Flow(w)'
  PROVE  FlowInv'
<1>1. UNCHANGED job
  BY DEF Alone
<1>2. ASSUME NEW u \in Worker PROVE HasBuffers(u)' /\ HasLists(u)' /\ Flow(u)'
  <2>1. CASE u = w
    BY <2>1 DEF Alone
  <2>2. CASE u # w
    <3>1. Untouched(u)
      BY <2>2 DEF Alone
    <3>2. Flow(u)'
      BY <1>1, <3>1, UntouchedFlow DEF FlowInv
    <3>3. HasBuffers(u)' /\ HasLists(u)'
      <4>1. HasBuffers(u) /\ HasLists(u)
        BY DEF FlowInv, FlowType
      <4>2. Buffer' = Buffer /\ MaxDeviceDims' = MaxDeviceDims
        BY <1>1, SameJob
      <4>3. HasBuffers(u)'
        BY <3>1, <4>1, <4>2 DEF HasBuffers, Untouched
      <4> QED
        BY <3>1, <4>1, <4>3 DEF HasLists, Untouched
    <3> QED
      BY <3>2, <3>3
  <2> QED
    BY <2>1, <2>2
<1>3. FlowType'
  BY <1>1, <1>2, SameJob DEF FlowInv, FlowType, Alone
<1> QED
  BY <1>1, <1>2, <1>3, SameJob DEF FlowInv

\* What Follows says after a step, in the numbers of the call.
FollowsNext(w, i, base) ==
  LET after == Planned(base)
  IN /\ Issued(w)' \in 0 .. Len(Steps) /\ Ran(w)' \in Nat
     /\ pc'[w] = "copy" => Issued(w)' = Len(Steps)
     /\ dims'[w] = Size(i) /\ curBuff'[w] = after[Issued(w)'].cur
     /\ \A k \in Ran(w)' + 1 .. Issued(w)' :
          /\ Steps[k].op = "launch"
          /\ queue'[w][k - Ran(w)'] = Launched(job.plan, Size(i), scalars'[w], after, k)
     /\ \A k \in Ran(w)' .. Issued(w)' :
          after[k].scalars = [s \in DOMAIN scalars'[w] |-> scalars'[w][s].term]
     /\ Size(i) = Length => \A s \in DOMAIN scalars'[w] : scalars'[w][s].exact
     /\ \A b \in Buffer :
          after[Ran(w)'].buffers[b].known => Carries(image'[w][b], i, after[Ran(w)'].buffers[b])

\* The worker that stepped follows the plan, in unprimed terms.
LEMMA FlowNext ==
  ASSUME UNCHANGED job, NEW w \in Worker, NEW i \in Chunks, NEW base \in 0 .. Ring - 1,
         idx'[w] = i, pc'[w] # "body" => queue'[w] = <<>>, FollowsNext(w, i, base)
  PROVE  Flow(w)'
<1>1. /\ Size(i)' = Size(i) /\ Start(i)' = Start(i) /\ End(i)' = End(i) /\ Length' = Length
      /\ Planned(base)' = Planned(base) /\ Steps' = Steps /\ Buffer' = Buffer /\ job' = job
      /\ Chunks' = Chunks /\ Ring' = Ring
  BY SameJob
<1>2. /\ \A k \in (Ran(w) + 1 .. Issued(w))' :
           /\ Steps'[k].op = "launch"
           /\ queue'[w][k - Ran(w)'] = Launched(job'.plan, Size(i)', scalars'[w], Planned(base)', k)
      /\ \A k \in (Ran(w) .. Issued(w))' :
           Planned(base)'[k].scalars = [s \in DOMAIN scalars'[w] |-> scalars'[w][s].term]
  BY <1>1 DEF FollowsNext
<1>3. \A b \in Buffer' : Planned(base)'[Ran(w)'].buffers[b].known =>
        CarriesOn(image'[w][b], Start(i)', End(i)', Length', Planned(base)'[Ran(w)'].buffers[b])
  BY <1>1 DEF FollowsNext, Carries
<1>4. /\ Issued(w)' \in (0 .. Len(Steps))' /\ Ran(w)' \in Nat
      /\ pc'[w] = "copy" => Issued(w)' = Len(Steps')
      /\ dims'[w] = Size(i)' /\ curBuff'[w] = Planned(base)'[Issued(w)'].cur
      /\ Size(i)' = Length' => \A s \in DOMAIN scalars'[w] : scalars'[w][s].exact
  BY <1>1 DEF FollowsNext
<1>5. Follows(w, i, base)'
  BY <1>2, <1>3, <1>4, Zenon DEF Follows, Carries
<1> QED
  BY <1>1, <1>5 DEF Flow

\* Steps that leave the data alone and the worker out of a chunk.
LEMMA QuietKeeps ==
  ASSUME FlowInv, RegionInv', UNCHANGED <<job, image, dims, curBuff, step, scalars, queue>>,
         NEW w \in Worker, pc[w] # "body", pc'[w] \notin {"body", "copy"},
         \A u \in Worker \ {w} : pc'[u] = pc[u] /\ idx'[u] = idx[u],
         row' \in [Worker -> Nat], DOMAIN imageOut' = DOMAIN imageOut
  PROVE  FlowInv'
<1>1. Flow(w)'
  BY DEF FlowInv, Flow
<1>2. HasBuffers(w)' /\ HasLists(w)'
  <2>1. HasBuffers(w) /\ HasLists(w)
    BY DEF FlowInv, FlowType
  <2>2. Buffer' = Buffer /\ MaxDeviceDims' = MaxDeviceDims
    BY SameJob
  <2>3. HasBuffers(w)'
    BY <2>1, <2>2 DEF HasBuffers
  <2> QED
    BY <2>1, <2>3 DEF HasLists
<1>3. Alone(w)
  BY <1>2 DEF Alone, Untouched, FlowInv, FlowType
<1> QED
  BY <1>1, <1>3, AloneKeeps

\* And steps that leave the worker where it is.
LEMMA SameKeeps ==
  ASSUME FlowInv, RegionInv',
         UNCHANGED <<job, pc, idx, image, dims, curBuff, step, scalars, queue>>,
         row' \in [Worker -> Nat], DOMAIN imageOut' = DOMAIN imageOut
  PROVE  FlowInv'
<1>1. ASSUME NEW u \in Worker PROVE Flow(u)' /\ HasBuffers(u)' /\ HasLists(u)'
  <2>1. HasBuffers(u) /\ HasLists(u) /\ Flow(u)
    BY DEF FlowInv, FlowType
  <2>2. Buffer' = Buffer /\ MaxDeviceDims' = MaxDeviceDims
    BY SameJob
  <2>3. HasBuffers(u)'
    BY <2>1, <2>2 DEF HasBuffers
  <2>4. Flow(u)'
    BY <2>1, UntouchedFlow DEF Untouched
  <2> QED
    BY <2>1, <2>3, <2>4 DEF HasLists
<1>2. FlowType'
  BY <1>1, SameJob DEF FlowInv, FlowType
<1> QED
  BY <1>1, <1>2, SameJob DEF FlowInv
-----------------------------------------------------------------------------
(***************************************************************************)
(* Every step keeps it                                                     *)
(***************************************************************************)
\* What is known of a worker that is at a chunk.
LEMMA AtChunk ==
  ASSUME FlowInv, NEW w \in Worker, pc[w] \in {"body", "copy"}
  PROVE  /\ job \in Jobs /\ Ring \in Nat \ {0} /\ Len(Steps) \in Nat
         /\ HasBuffers(w) /\ HasLists(w) /\ step[w] \in Nat /\ curBuff[w] \in 0 .. Ring - 1
         /\ idx[w] \in Chunks
         /\ \E base \in 0 .. Ring - 1 : Follows(w, idx[w], base)
<1>1. job \in Jobs /\ FlowType /\ Flow(w)
  BY DEF FlowInv, RegionInv, RegionType
<1>2. Ring \in Nat \ {0} /\ Len(Steps) \in Nat
  BY <1>1, JobNumbers, StepFacts
<1>3. HasBuffers(w) /\ HasLists(w) /\ step[w] \in Nat /\ curBuff[w] \in 0 .. Ring - 1
  BY <1>1 DEF FlowType
<1>4. \E i \in Chunks, base \in 0 .. Ring - 1 : idx[w] = i /\ Follows(w, i, base)
  BY <1>1 DEF Flow
<1> QED
  BY <1>1, <1>2, <1>3, <1>4

\* A worker that takes a chunk is before the plan's first step.
LEMMA TakeChunkFlows ==
  ASSUME FlowInv, RegionInv', UNCHANGED job, NEW w \in Worker, TakeChunk(w)
  PROVE  FlowInv'
<1>1. /\ pc[w] = "loop" /\ queue[w] = <<>> /\ idx[w] \in Chunks /\ job \in Jobs
      /\ pc \in [Worker -> Place] /\ FlowType /\ Ring \in Nat \ {0} /\ Len(Steps) \in Nat
  <2>1. RegionInv /\ Flow(w) /\ FlowType
    BY DEF FlowInv
  <2>2. idx[w] \in Chunks
    BY <2>1, TakeChunkKeeps
  <2>3. job \in Jobs /\ pc \in [Worker -> Place]
    BY <2>1 DEF RegionInv, RegionType
  <2>4. pc[w] = "loop" /\ queue[w] = <<>>
    BY <2>1 DEF Flow, TakeChunk, At
  <2> QED
    BY <2>1, <2>2, <2>3, <2>4, JobNumbers, StepFacts
<1>2. PICK i \in Chunks : i = idx[w]
  BY <1>1
<1>3. PICK base \in 0 .. Ring - 1 : base = curBuff[w]
  BY <1>1 DEF FlowType
<1>4. /\ dims'[w] = Size(i) /\ step'[w] = 1 /\ scalars'[w] = <<>> /\ pc'[w] = "body"
      /\ idx' = idx /\ image' = image /\ curBuff' = curBuff /\ queue' = queue /\ row' = row
      /\ imageOut' = imageOut /\ step' \in [Worker -> Nat]
      /\ \A u \in Worker \ {w} : /\ dims'[u] = dims[u] /\ step'[u] = step[u]
                                 /\ scalars'[u] = scalars[u] /\ pc'[u] = pc[u]
      /\ DOMAIN dims' = DOMAIN dims /\ DOMAIN scalars' = DOMAIN scalars
  BY <1>1, <1>2 DEF TakeChunk, FlowType, Goto
<1>5. Issued(w)' = 0 /\ Ran(w)' = 0
  BY <1>1, <1>4 DEF Issued, Ran
<1>6. /\ Planned(base)[0].cur = base /\ Planned(base)[0].scalars = <<>>
      /\ \A b \in Buffer : ~Planned(base)[0].buffers[b].known
  <2>1. Planned(base)[0] = Before(job.plan, base)
    BY <1>1, PlanSteps
  <2>2. Buffer = 0 .. (job.plan.ring + job.plan.scratch) - 1
    BY Zenon DEF Buffer, NumBuffers, Ring
  <2> QED
    BY <2>1, <2>2 DEF Before, Nothing
<1>7. FollowsNext(w, i, base)
  <2>1. \A k \in 1 .. 0 : FALSE
    OBVIOUS
  <2>2. \A k \in 0 .. 0 : k = 0
    OBVIOUS
  <2>3. <<>> = [s \in DOMAIN <<>> |-> <<>>[s].term]
    OBVIOUS
  <2>4. 0 \in 0 .. Len(Steps) /\ 0 \in Nat
    BY <1>1
  <2> QED
    BY <1>3, <1>4, <1>5, <1>6, <2>1, <2>2, <2>3, <2>4 DEF FollowsNext
<1>8. Flow(w)'
  BY <1>2, <1>4, <1>7, FlowNext
<1>9. Alone(w)
  <2>1. /\ HasBuffers(w) /\ HasLists(w)
        /\ curBuff \in [Worker -> 0 .. Ring - 1] /\ row \in [Worker -> Nat]
    BY <1>1 DEF FlowType
  <2>2. Buffer' = Buffer /\ MaxDeviceDims' = MaxDeviceDims
    BY SameJob
  <2>3. HasBuffers(w)'
    BY <1>4, <2>1, <2>2 DEF HasBuffers
  <2>4. <<>> \in Seq(Range(<<>>))
    OBVIOUS
  <2>5. HasLists(w)'
    BY <1>4, <2>1, <2>4 DEF HasLists
  <2> QED
    BY <1>4, <2>1, <2>3, <2>5 DEF Alone, Untouched
<1> QED
  BY <1>8, <1>9, AloneKeeps

\* A worker that waited for the device has nothing left that did not run.
LEMMA SynchronizeFlows ==
  ASSUME FlowInv, RegionInv', UNCHANGED job, NEW w \in Worker, Synchronize(w)
  PROVE  FlowInv'
<1>1. /\ pc[w] = "body" /\ queue[w] = <<>> /\ step[w] > Len(Steps)
      /\ job \in Jobs /\ FlowType /\ pc \in [Worker -> Place]
  BY DEF FlowInv, RegionInv, RegionType, Synchronize, At
<1>2. PICK i \in Chunks : i = idx[w]
  BY <1>1, AtChunk
<1>3. PICK base \in 0 .. Ring - 1 : Follows(w, i, base)
  BY <1>1, <1>2, AtChunk
<1>4. /\ pc'[w] = "copy" /\ (\A u \in Worker \ {w} : pc'[u] = pc[u])
      /\ idx' = idx /\ image' = image /\ dims' = dims /\ curBuff' = curBuff /\ step' = step
      /\ scalars' = scalars /\ queue' = queue /\ imageOut' = imageOut /\ row' \in [Worker -> Nat]
  BY <1>1 DEF Synchronize, FlowType, Goto
<1>5. Issued(w)' = Issued(w) /\ Ran(w)' = Ran(w)
  BY <1>4 DEF Issued, Ran
<1>6. Issued(w) = Len(Steps)
  <2>1. Issued(w) \in 0 .. Len(Steps) /\ step[w] \in Nat /\ Len(Steps) \in Nat
    BY <1>1, <1>3, AtChunk DEF Follows
  <2> QED
    BY <1>1, <2>1 DEF Issued
<1>7. FollowsNext(w, i, base)
  BY <1>3, <1>4, <1>5, <1>6 DEF FollowsNext, Follows
<1>8. Flow(w)'
  BY <1>1, <1>2, <1>4, <1>7, FlowNext
<1>9. Alone(w)
  <2>1. /\ HasBuffers(w) /\ HasLists(w)
        /\ curBuff \in [Worker -> 0 .. Ring - 1] /\ step \in [Worker -> Nat]
    BY <1>1 DEF FlowType
  <2>2. Buffer' = Buffer /\ MaxDeviceDims' = MaxDeviceDims
    BY SameJob
  <2>3. HasBuffers(w)'
    BY <1>4, <2>1, <2>2 DEF HasBuffers
  <2>4. HasLists(w)'
    BY <1>4, <2>1 DEF HasLists
  <2> QED
    BY <1>4, <2>1, <2>3, <2>4 DEF Alone, Untouched
<1> QED
  BY <1>8, <1>9, AloneKeeps

\* Where the host is in the plan, when the device has run all there is.
LEMMA AtStepOf ==
  ASSUME FlowInv, NEW w \in Worker, NEW op, AtStep(w, op)
  PROVE  /\ pc[w] = "body" /\ step[w] \in 1 .. Len(Steps) /\ Steps[step[w]].op = op
         /\ \A base \in 0 .. Ring - 1 : Follows(w, idx[w], base) =>
              /\ curBuff[w] = Planned(base)[step[w] - 1].cur
              /\ queue[w] = <<>> => Ran(w) = step[w] - 1
              /\ queue[w] # <<>> => step[w] > 1 /\ Steps[step[w] - 1].op = "launch"
<1>1. pc[w] = "body" /\ step[w] \in DOMAIN Steps /\ Steps[step[w]].op = op
  BY DEF AtStep, At
<1>2. job \in Jobs /\ HasLists(w)
  BY <1>1, AtChunk
<1>3. step[w] \in 1 .. Len(Steps) /\ Len(Steps) \in Nat
  BY <1>1, <1>2, StepFacts
<1>4. ASSUME NEW base \in 0 .. Ring - 1, Follows(w, idx[w], base)
      PROVE  /\ curBuff[w] = Planned(base)[step[w] - 1].cur
             /\ queue[w] = <<>> => Ran(w) = step[w] - 1
             /\ queue[w] # <<>> => step[w] > 1 /\ Steps[step[w] - 1].op = "launch"
  <2>1. curBuff[w] = Planned(base)[step[w] - 1].cur
    BY <1>4 DEF Follows, Issued
  <2>2. queue[w] = <<>> => Ran(w) = step[w] - 1
    BY <1>3 DEF Ran, Issued
  <2>3. ASSUME queue[w] # <<>> PROVE step[w] > 1 /\ Steps[step[w] - 1].op = "launch"
    <3>1. Len(queue[w]) \in Nat \ {0}
      BY <1>2, <2>3 DEF HasLists
    <3>2. Ran(w) \in Nat
      BY <1>4, Zenon DEF Follows
    <3>3. Ran(w) = (step[w] - 1) - Len(queue[w])
      BY DEF Ran, Issued
    <3>4. step[w] > 1 /\ step[w] - 1 \in Ran(w) + 1 .. step[w] - 1
      BY <1>3, <3>1, <3>2, <3>3
    <3> QED
      BY <1>4, <3>4 DEF Follows, Issued
  <2> QED
    BY <2>1, <2>2, <2>3
<1> QED
  BY <1>1, <1>3, <1>4

\* The buffer a step names is one of the worker's.
LEMMA StepBuffer ==
  ASSUME job \in Jobs, NEW w \in Worker, curBuff[w] \in 0 .. Ring - 1, NEW role \in Roles(job.plan)
  PROVE  BufferOf(w, role) \in Buffer
BY RoleIsABuffer DEF BufferOf

\* A chunk is sent, or a buffer cleared: the device has run all that was launched.
LEMMA FillKeeps ==
  ASSUME FlowInv, RegionInv', UNCHANGED job, NEW w \in Worker, pc[w] = "body",
         queue[w] = <<>>, step[w] \in 1 .. Len(Steps), Steps[step[w]].op \in {"send", "clear"},
         FillBuffer(w, IF Steps[step[w]].op = "send" THEN Steps[step[w]].term ELSE <<"zero">>)
  PROVE  FlowInv'
<1>1. job \in Jobs /\ FlowType /\ HasBuffers(w) /\ HasLists(w) /\ Len(Steps) \in Nat
      /\ curBuff[w] \in 0 .. Ring - 1
  BY AtChunk DEF FlowInv
<1>2. PICK i \in Chunks : i = idx[w]
  BY AtChunk
<1>3. PICK base \in 0 .. Ring - 1 : Follows(w, i, base)
  BY <1>2, AtChunk
<1>4. PICK k \in 1 .. Len(Steps) : k = step[w]
  OBVIOUS
<1>5. PICK term : term = IF Steps[k].op = "send" THEN Steps[k].term ELSE <<"zero">>
  OBVIOUS
<1>6. PICK b0 \in Buffer : b0 = RoleBuffer(job.plan, Planned(base)[k - 1].cur, Steps[k].into)
                           /\ b0 = BufferOf(w, Steps[k].into)
  <2>1. Steps[k].into \in Roles(job.plan)
    <3>1. Written(Steps[k]) \subseteq Roles(job.plan)
      BY <1>1, StepFacts
    <3>2. Steps[k].into \in Written(Steps[k])
      BY <1>4 DEF Written
    <3> QED
      BY <3>1, <3>2
  <2>2. curBuff[w] = Planned(base)[k - 1].cur
    BY <1>3, <1>4 DEF Follows, Issued
  <2> QED
    BY <1>1, <2>1, <2>2, StepBuffer DEF BufferOf
<1>7. /\ image' = [image EXCEPT ![w][b0] = Filled(w, @, term)]
      /\ step' = [step EXCEPT ![w] = @ + 1]
      /\ UNCHANGED <<pc, idx, dims, curBuff, scalars, queue, row, imageOut>>
  BY <1>4, <1>5, <1>6 DEF FillBuffer, StepDone
<1>8. /\ step'[w] = k + 1 /\ step' \in [Worker -> Nat]
      /\ \A u \in Worker \ {w} : step'[u] = step[u]
  BY <1>1, <1>4, <1>7 DEF FlowType
<1>9. /\ DOMAIN image' = DOMAIN image /\ \A u \in Worker \ {w} : image'[u] = image[u]
      /\ DOMAIN image'[w] = Buffer /\ image'[w][b0] = Filled(w, image[w][b0], term)
      /\ \A b \in Buffer : b # b0 => image'[w][b] = image[w][b]
  BY <1>1, <1>7 DEF FlowType, HasBuffers
<1>10. DOMAIN Filled(w, image[w][b0], term) = DOMAIN image[w][b0]
  BY DEF Filled
<1>11. Issued(w)' = k /\ Ran(w)' = k /\ Issued(w) = k - 1 /\ Ran(w) = k - 1
  BY <1>4, <1>7, <1>8 DEF Issued, Ran
<1>12. Carries(Filled(w, image[w][b0], term), i, Holding(term, {0}))
  <2>1. ASSUME NEW p \in 0 .. Size(i) - 1
        PROVE  Filled(w, image[w][b0], term)[p]
                 = [vox |-> Start(i) + p, term |-> term, exact |-> TRUE]
    <3>1. DOMAIN image[w][b0] = 0 .. MaxDeviceDims - 1
      BY <1>1 DEF HasBuffers
    <3>2. p \in 0 .. MaxDeviceDims - 1 /\ p < Size(i)
      BY <1>1, ChunkFits, ChunkFacts
    <3> QED
      BY <1>2, <3>1, <3>2 DEF Filled
  <2> DEFINE f == Filled(w, image[w][b0], term)
  <2> HIDE DEF f
  <2>2. \A p \in 0 .. Size(i) - 1 :
          f[p].vox = Start(i) + p /\ f[p].term = Holding(term, {0}).term /\ f[p].exact
    <3>1. Holding(term, {0}).term = term
      BY DEF Holding
    <3>2. ASSUME NEW p \in 0 .. Size(i) - 1
          PROVE  f[p] = [vox |-> Start(i) + p, term |-> term, exact |-> TRUE]
      BY <2>1 DEF f
    <3>3. \A p \in 0 .. Size(i) - 1 : f[p].vox = Start(i) + p /\ f[p].term = term /\ f[p].exact
      <4>1. ASSUME NEW p \in 0 .. Size(i) - 1
            PROVE  f[p].vox = Start(i) + p /\ f[p].term = term /\ f[p].exact
        <5>1. f[p] = [vox |-> Start(i) + p, term |-> term, exact |-> TRUE]
          BY <3>2
        <5>2. f[p].vox = Start(i) + p /\ f[p].term = term
          BY <5>1
        <5>3. f[p].exact = TRUE
          BY <5>1
        <5> QED
          BY <5>2, <5>3
      <4> QED
        BY <4>1, Zenon
    <3> QED
      BY <3>1, <3>3
  <2>3. Carries(f, i, Holding(term, {0}))
    BY <1>1, <2>2, CarriesIs, Zenon
  <2> QED
    BY <2>3 DEF f
<1>13. FollowsNext(w, i, base)
  <2>1. /\ Planned(base)[k].cur = Planned(base)[k - 1].cur
        /\ Planned(base)[k].scalars = Planned(base)[k - 1].scalars
        /\ \A b \in Buffer : Planned(base)[k].buffers[b] =
             IF b = b0 THEN Holding(term, {0}) ELSE Planned(base)[k - 1].buffers[b]
    <3>1. Steps[k].op \in {"send", "clear"}
      BY <1>4
    <3>2. /\ Planned(base)[k].cur = Planned(base)[k - 1].cur
          /\ Planned(base)[k].scalars = Planned(base)[k - 1].scalars
          /\ \A b \in Buffer : Planned(base)[k].buffers[b] =
               IF b = RoleBuffer(job.plan, Planned(base)[k - 1].cur, Steps[k].into)
               THEN Holding(IF Steps[k].op = "send" THEN Steps[k].term ELSE <<"zero">>, {0})
               ELSE Planned(base)[k - 1].buffers[b]
      BY <1>1, <3>1, FillStep
    <3> QED
      BY <1>5, <1>6, <3>2, Zenon
  <2>2. \A b \in Buffer : Planned(base)[k].buffers[b].known =>
          Carries(image'[w][b], i, Planned(base)[k].buffers[b])
    <3>1. \A b \in Buffer : Planned(base)[k - 1].buffers[b].known =>
            Carries(image[w][b], i, Planned(base)[k - 1].buffers[b])
      BY <1>3, <1>11 DEF Follows
    <3> QED
      BY <1>9, <1>12, <2>1, <3>1
  <2>3. \A j \in k + 1 .. k : FALSE
    OBVIOUS
  <2>4. \A j \in k .. k : j = k
    OBVIOUS
  <2>5. Planned(base)[k - 1].scalars = [s \in DOMAIN scalars[w] |-> scalars[w][s].term]
    <3>1. k - 1 \in Ran(w) .. Issued(w)
      BY <1>11
    <3> QED
      BY <1>3, <3>1 DEF Follows
  <2>6. dims[w] = Size(i) /\ curBuff[w] = Planned(base)[k - 1].cur
        /\ (Size(i) = Length => \A s \in DOMAIN scalars[w] : scalars[w][s].exact)
    BY <1>3, <1>11 DEF Follows
  <2>7. k \in 0 .. Len(Steps) /\ k \in Nat /\ pc'[w] # "copy"
    BY <1>1, <1>7
  <2> QED
    BY <1>7, <1>11, <2>1, <2>2, <2>3, <2>4, <2>5, <2>6, <2>7 DEF FollowsNext
<1>14. Flow(w)'
  BY <1>2, <1>7, <1>13, FlowNext
<1>15. Alone(w)
  <2>1. curBuff \in [Worker -> 0 .. Ring - 1] /\ row \in [Worker -> Nat]
    BY <1>1 DEF FlowType
  <2>2. Buffer' = Buffer /\ MaxDeviceDims' = MaxDeviceDims
    BY SameJob
  <2>3. HasBuffers(w)'
    BY <1>1, <1>9, <1>10, <2>2 DEF HasBuffers
  <2>4. HasLists(w)'
    BY <1>1, <1>7 DEF HasLists
  <2> QED
    BY <1>7, <1>8, <1>9, <2>1, <2>3, <2>4 DEF Alone, Untouched
<1> QED
  BY <1>14, <1>15, AloneKeeps

\* Copying the chunk in is the step the plan says.
LEMMA SendROIFlows ==
  ASSUME FlowInv, RegionInv', UNCHANGED job, NEW w \in Worker, SendROI(w)
  PROVE  FlowInv'
<1>1. AtStep(w, "send") /\ queue[w] = <<>> /\ FillBuffer(w, Steps[step[w]].term)
  BY DEF SendROI
<1> QED
  BY <1>1, AtStepOf, FillKeeps

\* The step before a clear is no launch, so nothing is pending.
LEMMA MemsetFlows ==
  ASSUME FlowInv, RegionInv', UNCHANGED job, NEW w \in Worker, Memset(w)
  PROVE  FlowInv'
<1>1. AtStep(w, "clear") /\ FillBuffer(w, <<"zero">>)
  BY DEF Memset
<1>2. pc[w] = "body" /\ step[w] \in 1 .. Len(Steps) /\ Steps[step[w]].op = "clear"
  BY <1>1, AtStepOf
<1>3. job \in Jobs /\ \E base \in 0 .. Ring - 1 : Follows(w, idx[w], base)
  BY <1>2, AtChunk
<1>4. queue[w] = <<>>
  <2>1. queue[w] # <<>> => step[w] > 1 /\ Steps[step[w] - 1].op = "launch"
    BY <1>1, <1>3, AtStepOf
  <2>2. step[w] > 1 => Steps[step[w] - 1].op # "launch"
    BY <1>2, <1>3, StepFacts
  <2> QED
    BY <2>1, <2>2
<1>5. Steps[step[w]].op # "send"
  BY <1>2
<1>6. FillBuffer(w, IF Steps[step[w]].op = "send" THEN Steps[step[w]].term ELSE <<"zero">>)
  BY <1>1, <1>5, Zenon
<1> QED
  BY <1>2, <1>4, <1>6, FillKeeps

\* A number is the image's if the chunk is the image: the buffer is right everywhere.
LEMMA ReduceBufferFlows ==
  ASSUME FlowInv, RegionInv', UNCHANGED job, NEW w \in Worker, ReduceBuffer(w)
  PROVE  FlowInv'
<1>1. AtStep(w, "reduce") /\ queue[w] = <<>>
  BY DEF ReduceBuffer
<1>2. pc[w] = "body" /\ step[w] \in 1 .. Len(Steps) /\ Steps[step[w]].op = "reduce"
  BY <1>1, AtStepOf
<1>3. job \in Jobs /\ FlowType /\ HasBuffers(w) /\ HasLists(w) /\ Len(Steps) \in Nat
      /\ curBuff[w] \in 0 .. Ring - 1
  BY <1>2, AtChunk DEF FlowInv
<1>4. PICK i \in Chunks : i = idx[w]
  BY <1>2, AtChunk
<1>5. PICK base \in 0 .. Ring - 1 : Follows(w, i, base)
  BY <1>2, <1>4, AtChunk
<1>6. PICK k \in 1 .. Len(Steps) : k = step[w]
  BY <1>2
<1>7. PICK b0 \in Buffer : b0 = RoleBuffer(job.plan, Planned(base)[k - 1].cur, Steps[k].of)
                           /\ b0 = BufferOf(w, Steps[k].of)
  <2>1. Steps[k].of \in Roles(job.plan)
    <3>1. Used(Steps[k]) \subseteq Roles(job.plan)
      BY <1>3, StepFacts
    <3>2. Steps[k].of \in Used(Steps[k])
      BY <1>2, <1>6 DEF Used
    <3> QED
      BY <3>1, <3>2
  <2>2. curBuff[w] = Planned(base)[k - 1].cur
    BY <1>5, <1>6 DEF Follows, Issued
  <2> QED
    BY <1>3, <2>1, <2>2, StepBuffer DEF BufferOf
<1> DEFINE held0 == Planned(base)[k - 1].buffers[b0]
           right == /\ Size(i) = Length
                    /\ \A p \in 0 .. dims[w] - 1 :
                         image[w][b0][p].exact /\ image[w][b0][p].term = image[w][b0][0].term
           e == [term |-> <<Steps[k].fn, image[w][b0][0].term>>, exact |-> right]
<1>8. /\ scalars' = [scalars EXCEPT ![w] = Append(@, e)]
      /\ step' = [step EXCEPT ![w] = @ + 1]
      /\ UNCHANGED <<pc, idx, image, dims, curBuff, queue, row, imageOut>>
  BY <1>4, <1>6, <1>7 DEF ReduceBuffer, StepDone
<1> HIDE DEF e
<1>9. /\ step'[w] = k + 1 /\ step' \in [Worker -> Nat]
      /\ \A u \in Worker \ {w} : step'[u] = step[u]
      /\ scalars'[w] = Append(scalars[w], e) /\ DOMAIN scalars' = DOMAIN scalars
      /\ \A u \in Worker \ {w} : scalars'[u] = scalars[u]
  BY <1>3, <1>6, <1>8 DEF FlowType
<1>10. Issued(w)' = k /\ Ran(w)' = k /\ Issued(w) = k - 1 /\ Ran(w) = k - 1
  BY <1>1, <1>6, <1>8, <1>9 DEF Issued, Ran
<1>11. held0.known /\ Held(job.plan, Planned(base)[k - 1], Steps[k].of) = held0
  <2>1. Steps[k].of \in Used(Steps[k])
    BY <1>2, <1>6 DEF Used
  <2>2. Held(job.plan, Planned(base)[k - 1], Steps[k].of) = held0
    BY <1>7 DEF Held
  <2> QED
    BY <1>3, <2>1, <2>2, UsedIsKnown
<1>12. Carries(image[w][b0], i, held0)
  BY <1>5, <1>10, <1>11 DEF Follows
<1>13. \A p \in 0 .. Size(i) - 1 : image[w][b0][p].term = held0.term
  <2> HIDE DEF held0
  <2> QED
    BY <1>3, <1>12, CarriesIs
<1>14. image[w][b0][0].term = held0.term /\ Size(i) \in Nat \ {0} /\ Length \in Nat
  <2>1. Size(i) \in Nat \ {0} /\ Length \in Nat
    BY <1>3, ChunkFacts, JobNumbers
  <2>2. 0 \in 0 .. Size(i) - 1
    BY <2>1
  <2> QED
    BY <1>13, <2>1, <2>2
<1>15. e.term = <<Steps[k].fn, held0.term>>
  BY <1>14 DEF e
<1>16. Size(i) = Length => e.exact
  <2> SUFFICES ASSUME Size(i) = Length PROVE e.exact
    OBVIOUS
  <2>1. Start(i) = 0 /\ End(i) = Length - 1
    BY <1>3, WholeChunk
  <2>2. dims[w] = Size(i)
    BY <1>5, Zenon DEF Follows
  <2>3. ASSUME NEW p \in 0 .. Size(i) - 1 PROVE image[w][b0][p].exact
    <3>1. \A x \in held0.reaches : Within(Start(i) + p, x) \subseteq Start(i) .. End(i)
      BY <2>1 DEF Within
    <3> HIDE DEF held0
    <3> QED
      BY <1>3, <1>12, <3>1, CarriesIs
  <2>4. right
    BY <1>13, <1>14, <2>2, <2>3
  <2>5. e.exact = right
    BY DEF e
  <2> QED
    BY <2>4, <2>5, Zenon
<1> HIDE DEF held0, right
<1>17. /\ Planned(base)[k].cur = Planned(base)[k - 1].cur
       /\ Planned(base)[k].scalars
            = Append(Planned(base)[k - 1].scalars, <<Steps[k].fn, held0.term>>)
       /\ \A b \in Buffer : Planned(base)[k].buffers[b] = Planned(base)[k - 1].buffers[b]
  BY <1>2, <1>3, <1>6, <1>11, ReduceStepIs
<1>18. Planned(base)[k].scalars = [s \in DOMAIN scalars'[w] |-> scalars'[w][s].term]
  <2> DEFINE old == Planned(base)[k - 1].scalars
             t == [s \in DOMAIN scalars[w] |-> scalars[w][s].term]
  <2>1. old = t
    <3>1. k - 1 \in Ran(w) .. Issued(w)
      BY <1>10
    <3> QED
      BY <1>5, <3>1 DEF Follows
  <2>2. /\ Len(scalars[w]) \in Nat /\ DOMAIN scalars[w] = 1 .. Len(scalars[w])
        /\ DOMAIN scalars'[w] = 1 .. Len(scalars[w]) + 1
        /\ \A s \in 1 .. Len(scalars[w]) : scalars'[w][s] = scalars[w][s]
        /\ scalars'[w][Len(scalars[w]) + 1] = e
    BY <1>3, <1>9, AppendIs DEF HasLists
  <2>3. Len(t) = Len(scalars[w]) /\ DOMAIN t = 1 .. Len(scalars[w])
        /\ t \in Seq(Range(t))
    BY <2>2 DEF Range
  <2>4. /\ DOMAIN Append(t, e.term) = 1 .. Len(scalars[w]) + 1
        /\ \A s \in 1 .. Len(scalars[w]) : Append(t, e.term)[s] = t[s]
        /\ Append(t, e.term)[Len(scalars[w]) + 1] = e.term
        /\ Append(t, e.term) \in Seq(Range(Append(t, e.term)))
    <3> HIDE DEF t
    <3> QED
      BY <2>3, AppendIs
  <2>5. \A s \in 1 .. Len(scalars[w]) + 1 : Append(t, e.term)[s] = scalars'[w][s].term
    <3>1. \A s \in 1 .. Len(scalars[w]) : t[s] = scalars[w][s].term
      BY <2>2
    <3> HIDE DEF t
    <3> QED
      BY <2>2, <2>4, <3>1
  <2>6. Append(t, e.term) = [s \in 1 .. Len(scalars[w]) + 1 |-> scalars'[w][s].term]
    <3> DEFINE a == Append(t, e.term)
    <3> HIDE DEF a
    <3>1. a = [s \in DOMAIN a |-> a[s]]
      <4>1. a \in Seq(Range(a))
        BY <2>4 DEF a
      <4> QED
        BY <4>1
    <3>2. DOMAIN a = 1 .. Len(scalars[w]) + 1
          /\ \A s \in 1 .. Len(scalars[w]) + 1 : a[s] = scalars'[w][s].term
      BY <2>4, <2>5 DEF a
    <3>3. a = [s \in 1 .. Len(scalars[w]) + 1 |-> scalars'[w][s].term]
      BY <3>1, <3>2
    <3> QED
      BY <3>3 DEF a
  <2> HIDE DEF t, old
  <2>7. Planned(base)[k].scalars = Append(t, e.term)
    BY <1>15, <1>17, <2>1 DEF old
  <2> QED
    BY <2>2, <2>6, <2>7
<1>19. FollowsNext(w, i, base)
  <2>1. \A b \in Buffer : Planned(base)[k].buffers[b].known =>
          Carries(image'[w][b], i, Planned(base)[k].buffers[b])
    <3>1. \A b \in Buffer : Planned(base)[k - 1].buffers[b].known =>
            Carries(image[w][b], i, Planned(base)[k - 1].buffers[b])
      BY <1>5, <1>10 DEF Follows
    <3> QED
      BY <1>8, <1>17, <3>1
  <2>2. \A j \in k + 1 .. k : FALSE
    OBVIOUS
  <2>3. \A j \in k .. k : j = k
    OBVIOUS
  <2>4. dims[w] = Size(i) /\ curBuff[w] = Planned(base)[k - 1].cur
    BY <1>5, <1>10 DEF Follows
  <2>5. Size(i) = Length => \A s \in DOMAIN scalars'[w] : scalars'[w][s].exact
    <3>1. Size(i) = Length => \A s \in DOMAIN scalars[w] : scalars[w][s].exact
      BY <1>5, Zenon DEF Follows
    <3>2. /\ Len(scalars[w]) \in Nat /\ DOMAIN scalars[w] = 1 .. Len(scalars[w])
          /\ DOMAIN scalars'[w] = 1 .. Len(scalars[w]) + 1
          /\ \A s \in 1 .. Len(scalars[w]) : scalars'[w][s] = scalars[w][s]
          /\ scalars'[w][Len(scalars[w]) + 1] = e
      BY <1>3, <1>9, AppendIs DEF HasLists
    <3>3. ASSUME Size(i) = Length, NEW s \in 1 .. Len(scalars[w]) + 1 PROVE scalars'[w][s].exact
      <4>1. CASE s = Len(scalars[w]) + 1
        BY <1>16, <3>2, <3>3, <4>1
      <4>2. CASE s # Len(scalars[w]) + 1
        <5>1. s \in 1 .. Len(scalars[w])
          BY <3>2, <4>2
        <5> QED
          BY <3>1, <3>2, <3>3, <5>1
      <4> QED
        BY <4>1, <4>2
    <3> QED
      BY <3>2, <3>3
  <2>6. k \in 0 .. Len(Steps) /\ k \in Nat /\ pc'[w] # "copy"
    BY <1>2, <1>3, <1>8
  <2> QED
    BY <1>8, <1>10, <1>17, <1>18, <2>1, <2>2, <2>3, <2>4, <2>5, <2>6 DEF FollowsNext
<1>20. Flow(w)'
  BY <1>1, <1>4, <1>8, <1>19, FlowNext
<1>21. Alone(w)
  <2>1. curBuff \in [Worker -> 0 .. Ring - 1] /\ row \in [Worker -> Nat]
    BY <1>3 DEF FlowType
  <2>2. Buffer' = Buffer /\ MaxDeviceDims' = MaxDeviceDims
    BY SameJob
  <2>3. HasBuffers(w)'
    BY <1>3, <1>8, <2>2 DEF HasBuffers
  <2>4. scalars'[w] \in Seq(Range(scalars'[w]))
    BY <1>3, <1>9, AppendIs DEF HasLists
  <2>5. HasLists(w)'
    BY <1>3, <1>8, <2>4 DEF HasLists
  <2> QED
    BY <1>8, <1>9, <2>1, <2>3, <2>5 DEF Alone, Untouched
<1> QED
  BY <1>20, <1>21, AloneKeeps

\* A launch is queued with what the step says, and the host goes on.
LEMMA LaunchFlows ==
  ASSUME FlowInv, RegionInv', UNCHANGED job, NEW w \in Worker, Launch(w)
  PROVE  FlowInv'
<1>1. AtStep(w, "launch")
  BY DEF Launch
<1>2. pc[w] = "body" /\ step[w] \in 1 .. Len(Steps) /\ Steps[step[w]].op = "launch"
  BY <1>1, AtStepOf
<1>3. job \in Jobs /\ FlowType /\ HasBuffers(w) /\ HasLists(w) /\ Len(Steps) \in Nat
      /\ curBuff[w] \in 0 .. Ring - 1 /\ Ring \in Nat \ {0}
  BY <1>2, AtChunk DEF FlowInv
<1>4. PICK i \in Chunks : i = idx[w]
  BY <1>2, AtChunk
<1>5. PICK base \in 0 .. Ring - 1 : Follows(w, i, base)
  BY <1>2, <1>4, AtChunk
<1>6. PICK k \in 1 .. Len(Steps) : k = step[w]
  BY <1>2
<1>7. curBuff[w] = Planned(base)[k - 1].cur /\ dims[w] = Size(i)
  BY <1>5, <1>6 DEF Follows, Issued
<1> DEFINE l == Launched(job.plan, Size(i), scalars[w], Planned(base), k)
<1>8. /\ queue' = [queue EXCEPT ![w] = Append(@, l)]
      /\ step' = [step EXCEPT ![w] = @ + 1]
      /\ UNCHANGED <<pc, idx, image, dims, scalars, row, imageOut>>
  <2>1. l = [fn |-> Steps[k].fn, n |-> dims[w], scalars |-> scalars[w],
             into |-> BufferOf(w, Steps[k].into),
             reads |-> [r \in DOMAIN Steps[k].reads |->
               [buffer |-> BufferOf(w, Steps[k].reads[r].role),
                extent |-> Steps[k].reads[r].extent]]]
    BY <1>7, Zenon DEF Launched, BufferOf, Steps
  <2> HIDE DEF l
  <2> QED
    BY <1>6, <2>1 DEF Launch, Issue, StepDone
<1> HIDE DEF l
<1>9. /\ curBuff' \in [Worker -> 0 .. Ring - 1]
      /\ curBuff'[w] = IF Steps[k].increment THEN (curBuff[w] + 1) % Ring ELSE curBuff[w]
      /\ \A u \in Worker \ {w} : curBuff'[u] = curBuff[u]
  <2>1. curBuff \in [Worker -> 0 .. Ring - 1]
    BY <1>3 DEF FlowType
  <2>2. (curBuff[w] + 1) % Ring \in 0 .. Ring - 1
    BY <1>3
  <2>3. IF Steps[k].increment THEN curBuff' = [curBuff EXCEPT ![w] = (@ + 1) % Ring]
        ELSE curBuff' = curBuff
    BY <1>6 DEF Launch
  <2>4. CASE Steps[k].increment
    BY <2>1, <2>2, <2>3, <2>4
  <2>5. CASE ~Steps[k].increment
    BY <2>1, <2>3, <2>5
  <2> QED
    BY <2>4, <2>5
<1>10. /\ step'[w] = k + 1 /\ step' \in [Worker -> Nat]
       /\ \A u \in Worker \ {w} : step'[u] = step[u]
       /\ queue'[w] = Append(queue[w], l) /\ DOMAIN queue' = DOMAIN queue
       /\ \A u \in Worker \ {w} : queue'[u] = queue[u]
  BY <1>3, <1>6, <1>8 DEF FlowType
<1>11. /\ Len(queue[w]) \in Nat /\ Len(queue'[w]) = Len(queue[w]) + 1
       /\ queue'[w] \in Seq(Range(queue'[w]))
       /\ \A j \in 1 .. Len(queue[w]) : queue'[w][j] = queue[w][j]
       /\ queue'[w][Len(queue[w]) + 1] = l
  BY <1>3, <1>10, AppendIs DEF HasLists
<1>12. /\ Issued(w) = k - 1 /\ Issued(w)' = k /\ Ran(w)' = Ran(w) /\ Ran(w) \in Nat
       /\ Ran(w) = (k - 1) - Len(queue[w])
  <2>1. Ran(w) \in Nat
    BY <1>5, Zenon DEF Follows
  <2>2. Issued(w) = k - 1 /\ Issued(w)' = k /\ Ran(w) = (k - 1) - Len(queue[w])
    BY <1>6, <1>10 DEF Issued, Ran
  <2>3. Ran(w)' = Issued(w)' - Len(queue'[w])
    BY DEF Ran
  <2> QED
    BY <1>11, <2>1, <2>2, <2>3
<1>13. /\ Planned(base)[k].cur = IF Steps[k].increment THEN (Planned(base)[k - 1].cur + 1) % Ring
                                 ELSE Planned(base)[k - 1].cur
       /\ Planned(base)[k].scalars = Planned(base)[k - 1].scalars
  BY <1>2, <1>3, <1>6, LaunchStepIs
<1>14. FollowsNext(w, i, base)
  <2>1. \A b \in Buffer : Planned(base)[Ran(w)].buffers[b].known =>
          Carries(image'[w][b], i, Planned(base)[Ran(w)].buffers[b])
    BY <1>5, <1>8 DEF Follows
  <2>2. ASSUME NEW j \in Ran(w) + 1 .. k
        PROVE  /\ Steps[j].op = "launch"
               /\ queue'[w][j - Ran(w)] = Launched(job.plan, Size(i), scalars[w], Planned(base), j)
    <3>1. CASE j = k
      <4>1. k - Ran(w) = Len(queue[w]) + 1
        BY <1>11, <1>12
      <4> QED
        BY <1>2, <1>6, <1>11, <3>1, <4>1 DEF l
    <3>2. CASE j # k
      <4>1. j \in Ran(w) + 1 .. Issued(w) /\ j - Ran(w) \in 1 .. Len(queue[w])
        BY <1>11, <1>12, <3>2
      <4>2. /\ Steps[j].op = "launch"
            /\ queue[w][j - Ran(w)] = Launched(job.plan, Size(i), scalars[w], Planned(base), j)
        BY <1>5, <4>1 DEF Follows
      <4> QED
        BY <1>11, <4>1, <4>2
    <3> QED
      BY <3>1, <3>2
  <2>3. ASSUME NEW j \in Ran(w) .. k
        PROVE  Planned(base)[j].scalars = [s \in DOMAIN scalars[w] |-> scalars[w][s].term]
    <3>1. \A h \in Ran(w) .. k - 1 :
            Planned(base)[h].scalars = [s \in DOMAIN scalars[w] |-> scalars[w][s].term]
      BY <1>5, <1>12 DEF Follows
    <3>2. k - 1 \in Ran(w) .. k - 1 /\ (j = k \/ j \in Ran(w) .. k - 1)
      BY <1>11, <1>12
    <3> QED
      BY <1>13, <3>1, <3>2
  <2>4. /\ dims[w] = Size(i) /\ curBuff'[w] = Planned(base)[k].cur
        /\ (Size(i) = Length => \A s \in DOMAIN scalars[w] : scalars[w][s].exact)
    <3>1. curBuff'[w] = Planned(base)[k].cur
      BY <1>7, <1>9, <1>13
    <3>2. Size(i) = Length => \A s \in DOMAIN scalars[w] : scalars[w][s].exact
      BY <1>5, Zenon DEF Follows
    <3> QED
      BY <1>7, <3>1, <3>2
  <2>5. k \in 0 .. Len(Steps) /\ pc'[w] # "copy" /\ scalars'[w] = scalars[w] /\ dims'[w] = dims[w]
    BY <1>2, <1>3, <1>8
  <2> QED
    BY <1>12, <2>1, <2>2, <2>3, <2>4, <2>5 DEF FollowsNext
<1>15. Flow(w)'
  <2>1. idx'[w] = i /\ pc'[w] = "body"
    BY <1>2, <1>4, <1>8
  <2> QED
    BY <1>14, <2>1, FlowNext
<1>16. Alone(w)
  <2>1. row \in [Worker -> Nat]
    BY <1>3 DEF FlowType
  <2>2. Buffer' = Buffer /\ MaxDeviceDims' = MaxDeviceDims
    BY SameJob
  <2>3. HasBuffers(w)'
    BY <1>3, <1>8, <2>2 DEF HasBuffers
  <2>4. HasLists(w)'
    BY <1>3, <1>8, <1>11 DEF HasLists
  <2> QED
    BY <1>8, <1>9, <1>10, <2>1, <2>3, <2>4 DEF Alone, Untouched
<1> QED
  BY <1>15, <1>16, AloneKeeps

\* The device runs the next step of the plan, and its buffers are as that step makes them.
LEMMA RunKernelFlows ==
  ASSUME FlowInv, RegionInv', UNCHANGED job, NEW w \in Worker, RunKernel(w)
  PROVE  FlowInv'
<1>1. queue[w] # <<>>
  BY DEF RunKernel
<1>2. pc[w] = "body"
  BY <1>1 DEF FlowInv, Flow
<1>3. job \in Jobs /\ FlowType /\ HasBuffers(w) /\ HasLists(w) /\ Len(Steps) \in Nat
      /\ Ring \in Nat \ {0}
  BY <1>2, AtChunk DEF FlowInv
<1>4. PICK i \in Chunks : i = idx[w]
  BY <1>2, AtChunk
<1>5. PICK base \in 0 .. Ring - 1 : Follows(w, i, base)
  BY <1>2, <1>4, AtChunk
<1>6. Follows(w, idx[w], base) /\ idx[w] \in Chunks
  BY <1>4, <1>5
<1>7. PICK k \in 1 .. Len(Steps) : k = Ran(w) + 1
  BY <1>1, <1>3, <1>6, NextLaunch
<1>8. Ran(w) = k - 1 /\ Ran(w) \in Nat /\ Issued(w) \in 0 .. Len(Steps)
      /\ Len(queue[w]) \in Nat \ {0} /\ Issued(w) = Ran(w) + Len(queue[w])
  <2>1. Ran(w) \in Nat /\ Issued(w) \in 0 .. Len(Steps)
    BY <1>6, Zenon DEF Follows
  <2>2. Len(queue[w]) \in Nat \ {0}
    BY <1>1, <1>3 DEF HasLists
  <2>3. Ran(w) = Issued(w) - Len(queue[w])
    BY DEF Ran
  <2> QED
    BY <1>7, <2>1, <2>2, <2>3
<1>9. /\ Steps[k].op = "launch"
      /\ Head(queue[w]) = Launched(job.plan, Size(i), scalars[w], Planned(base), k)
  BY <1>1, <1>3, <1>4, <1>6, <1>7, NextLaunch
<1>10. PICK l : l = Head(queue[w])
  OBVIOUS
<1>11. /\ l.n = Size(i)
       /\ l.into = RoleBuffer(job.plan, Planned(base)[k - 1].cur, Steps[k].into)
  BY <1>9, <1>10 DEF Launched, Steps
<1>12. PICK b0 \in Buffer : b0 = l.into
  <2>1. Steps[k].into \in Roles(job.plan)
    <3>1. Written(Steps[k]) \subseteq Roles(job.plan)
      BY <1>3, StepFacts
    <3>2. Steps[k].into \in Written(Steps[k])
      BY <1>9 DEF Written
    <3> QED
      BY <3>1, <3>2
  <2>2. Planned(base)[k - 1].cur \in 0 .. Ring - 1
    <3>1. k - 1 \in 0 .. Len(Steps)
      BY <1>3
    <3> QED
      BY <1>3, <3>1, PlanType DEF Typed
  <2> QED
    BY <1>3, <1>11, <2>1, <2>2, RoleIsABuffer
<1> DEFINE old == image[w][b0]
           new == [p \in DOMAIN old |-> IF p < Size(i) THEN Filtered(w, l, p) ELSE old[p]]
           c == Computed(job.plan, Length, Planned(base)[k - 1], Steps[k])
<1>13. /\ image' = [image EXCEPT ![w][b0] = new]
       /\ queue' = [queue EXCEPT ![w] = Tail(@)]
       /\ UNCHANGED <<pc, idx, dims, curBuff, step, scalars, row, imageOut>>
  BY <1>3, <1>10, <1>11, <1>12 DEF RunKernel, FlowType, HasBuffers
<1>14. DOMAIN new = DOMAIN old /\ DOMAIN old = 0 .. MaxDeviceDims - 1
  BY <1>3 DEF HasBuffers
<1>15. Carries(new, i, c)
  <2>1. ASSUME NEW p \in 0 .. Size(i) - 1 PROVE new[p] = Filtered(w, l, p)
    <3>1. p \in 0 .. MaxDeviceDims - 1 /\ p < Size(i)
      BY <1>3, ChunkFits, ChunkFacts
    <3> QED
      BY <1>14, <3>1
  <2>2. ASSUME NEW p \in 0 .. Size(i) - 1
        PROVE  Filtered(w, l, p).vox = Start(i) + p /\ Filtered(w, l, p).term = c.term
    <3>1. p \in 0 .. Size(idx[w]) - 1 /\ Planned(base)[Ran(w)] = Planned(base)[k - 1]
          /\ Steps[Ran(w) + 1] = Steps[k]
      BY <1>4, <1>7, <1>8
    <3>2. /\ Filtered(w, Head(queue[w]), p).vox = Voxel(w, p)
          /\ Filtered(w, Head(queue[w]), p).term
               = Computed(job.plan, Length, Planned(base)[Ran(w)], Steps[Ran(w) + 1]).term
      BY <1>1, <1>3, <1>6, <3>1, FilteredTerm
    <3> QED
      BY <1>4, <1>10, <3>1, <3>2 DEF Voxel
  <2>3. ASSUME NEW p \in 0 .. Size(i) - 1,
               \A x \in c.reaches : Within(Start(i) + p, x) \subseteq Start(i) .. End(i)
        PROVE  Filtered(w, l, p).exact
    <3>1. p \in 0 .. Size(idx[w]) - 1 /\ Planned(base)[Ran(w)] = Planned(base)[k - 1]
          /\ Steps[Ran(w) + 1] = Steps[k]
      BY <1>4, <1>7, <1>8
    <3>2. Sees(idx[w], Voxel(w, p),
               Computed(job.plan, Length, Planned(base)[Ran(w)], Steps[Ran(w) + 1]))
      BY <1>4, <2>3, <3>1 DEF Sees, Voxel
    <3>3. Filtered(w, Head(queue[w]), p).exact
      BY <1>1, <1>3, <1>6, <3>1, <3>2, FilteredExact
    <3> QED
      BY <1>10, <3>3
  <2> HIDE DEF new, c
  <2>4. \A p \in 0 .. Size(i) - 1 :
          /\ new[p].vox = Start(i) + p /\ new[p].term = c.term
          /\ (\A x \in c.reaches : Within(Start(i) + p, x) \subseteq Start(i) .. End(i))
               => new[p].exact
    BY <2>1, <2>2, <2>3
  <2> QED
    BY <1>3, <2>4, CarriesIs, Zenon
<1> HIDE DEF new, old, c
<1>16. /\ DOMAIN image' = DOMAIN image /\ \A u \in Worker \ {w} : image'[u] = image[u]
       /\ DOMAIN image'[w] = Buffer /\ image'[w][b0] = new
       /\ \A b \in Buffer : b # b0 => image'[w][b] = image[w][b]
  BY <1>3, <1>13 DEF FlowType, HasBuffers
<1>17. /\ queue'[w] = Tail(queue[w]) /\ DOMAIN queue' = DOMAIN queue
       /\ \A u \in Worker \ {w} : queue'[u] = queue[u]
  BY <1>3, <1>13 DEF FlowType
<1>18. /\ queue'[w] \in Seq(Range(queue'[w])) /\ Len(queue'[w]) = Len(queue[w]) - 1
       /\ \A j \in 1 .. Len(queue[w]) - 1 : queue'[w][j] = queue[w][j + 1]
  BY <1>1, <1>3, <1>17, TailIs DEF HasLists
<1>19. Issued(w)' = Issued(w) /\ Ran(w)' = k
  <2>1. Issued(w)' = Issued(w) /\ Ran(w)' = Issued(w)' - Len(queue'[w])
    BY <1>13 DEF Issued, Ran
  <2> QED
    BY <1>8, <1>18, <2>1
<1>20. \A b \in Buffer : Planned(base)[k].buffers[b] =
         IF b = b0 THEN c ELSE Planned(base)[k - 1].buffers[b]
  BY <1>3, <1>9, <1>11, <1>12, LaunchStepIs DEF c
<1>21. FollowsNext(w, i, base)
  <2>1. \A b \in Buffer : Planned(base)[k].buffers[b].known =>
          Carries(image'[w][b], i, Planned(base)[k].buffers[b])
    <3>1. \A b \in Buffer : Planned(base)[k - 1].buffers[b].known =>
            Carries(image[w][b], i, Planned(base)[k - 1].buffers[b])
      BY <1>5, <1>8 DEF Follows
    <3> QED
      BY <1>15, <1>16, <1>20, <3>1
  <2>2. ASSUME NEW j \in k + 1 .. Issued(w)
        PROVE  /\ Steps[j].op = "launch"
               /\ queue'[w][j - k] = Launched(job.plan, Size(i), scalars[w], Planned(base), j)
    <3>1. j \in Ran(w) + 1 .. Issued(w)
      BY <1>8
    <3>2. /\ Steps[j].op = "launch"
          /\ queue[w][j - Ran(w)] = Launched(job.plan, Size(i), scalars[w], Planned(base), j)
      BY <1>5, <3>1 DEF Follows
    <3>3. j - k \in 1 .. Len(queue[w]) - 1 /\ j - Ran(w) = (j - k) + 1
      BY <1>8
    <3> QED
      BY <1>18, <3>2, <3>3
  <2>3. ASSUME NEW j \in k .. Issued(w)
        PROVE  Planned(base)[j].scalars = [s \in DOMAIN scalars[w] |-> scalars[w][s].term]
    <3>1. j \in Ran(w) .. Issued(w)
      BY <1>8
    <3> QED
      BY <1>5, <3>1 DEF Follows
  <2>4. /\ dims[w] = Size(i) /\ curBuff[w] = Planned(base)[Issued(w)].cur
        /\ (Size(i) = Length => \A s \in DOMAIN scalars[w] : scalars[w][s].exact)
    BY <1>5, Zenon DEF Follows
  <2>5. k \in Nat /\ pc'[w] # "copy" /\ scalars'[w] = scalars[w] /\ dims'[w] = dims[w]
        /\ curBuff'[w] = curBuff[w]
    BY <1>2, <1>3, <1>13
  <2> QED
    BY <1>8, <1>19, <2>1, <2>2, <2>3, <2>4, <2>5 DEF FollowsNext
<1>22. Flow(w)'
  <2>1. idx'[w] = i /\ pc'[w] = "body"
    BY <1>2, <1>4, <1>13
  <2> QED
    BY <1>21, <2>1, FlowNext
<1>23. Alone(w)
  <2>1. curBuff \in [Worker -> 0 .. Ring - 1] /\ row \in [Worker -> Nat] /\ step \in [Worker -> Nat]
    BY <1>3 DEF FlowType
  <2>2. Buffer' = Buffer /\ MaxDeviceDims' = MaxDeviceDims
    BY SameJob
  <2>3. HasBuffers(w)'
    BY <1>3, <1>14, <1>16, <2>2 DEF HasBuffers, old
  <2>4. HasLists(w)'
    BY <1>3, <1>13, <1>18 DEF HasLists
  <2> QED
    BY <1>13, <1>16, <1>17, <2>1, <2>3, <2>4 DEF Alone, Untouched
<1> QED
  BY <1>22, <1>23, AloneKeeps

\* Nobody is at a chunk when a call begins.
LEMMA FlowInit == Init => FlowInv
<1> SUFFICES ASSUME Init PROVE FlowInv
  OBVIOUS
<1>1. RegionInv
  BY RegionInit
<1>2. Ring \in Nat \ {0}
  BY JobNumbers DEF Init
<1>3. FlowType
  <2>1. /\ DOMAIN image = Worker /\ DOMAIN dims = Worker /\ DOMAIN scalars = Worker
        /\ DOMAIN queue = Worker /\ DOMAIN imageOut = 0 .. Length - 1
        /\ curBuff \in [Worker -> 0 .. Ring - 1] /\ step \in [Worker -> Nat]
        /\ row \in [Worker -> Nat]
    BY <1>2 DEF Init
  <2>2. <<>> \in Seq(Range(<<>>))
    OBVIOUS
  <2>3. \A w \in Worker : HasBuffers(w) /\ HasLists(w)
    BY <2>2 DEF Init, HasBuffers, HasLists
  <2> QED
    BY <2>1, <2>3 DEF FlowType
<1>4. ASSUME NEW w \in Worker PROVE Flow(w)
  BY DEF Init, Flow
<1> QED
  BY <1>1, <1>3, <1>4 DEF FlowInv

\* The steps that do nothing with a chunk.
LEMMA RegionFlows ==
  ASSUME FlowInv, RegionInv', UNCHANGED job, NEW w \in Worker,
         MallocBuffer(w) \/ LoadKernel(w) \/ Clean(w) \/ FreeBuffer(w)
  PROVE  FlowInv'
<1>1. pc \in [Worker -> Place] /\ FlowType
  BY DEF FlowInv, RegionInv, RegionType
<1>2. /\ UNCHANGED <<idx, image, dims, curBuff, step, scalars, queue, row, imageOut>>
      /\ pc[w] # "body" /\ pc'[w] \notin {"body", "copy"} /\ \A u \in Worker \ {w} : pc'[u] = pc[u]
  <2>1. CASE MallocBuffer(w)
    BY <1>1, <2>1 DEF MallocBuffer, At, Goto
  <2>2. CASE LoadKernel(w)
    BY <1>1, <2>2 DEF LoadKernel, At, Goto
  <2>3. CASE Clean(w)
    BY <1>1, <2>3 DEF Clean, At, Goto
  <2>4. CASE FreeBuffer(w)
    BY <1>1, <2>4 DEF FreeBuffer, At, Goto
  <2> QED
    BY <2>1, <2>2, <2>3, <2>4
<1>3. row' \in [Worker -> Nat] /\ DOMAIN imageOut' = DOMAIN imageOut
  BY <1>1, <1>2 DEF FlowType
<1> QED
  BY <1>2, <1>3, QuietKeeps

\* Copying the chunk out changes no buffer.
LEMMA CopyFlows ==
  ASSUME FlowInv, RegionInv', UNCHANGED job, NEW w \in Worker, CopyWhole(w) \/ CopyLine(w)
  PROVE  FlowInv'
<1>1. pc \in [Worker -> Place] /\ idx \in [Worker -> Nat] /\ FlowType /\ pc[w] = "copy"
  BY DEF FlowInv, RegionInv, RegionType, CopyWhole, CopyLine, At
<1>2. /\ UNCHANGED <<image, dims, curBuff, step, scalars, queue>>
      /\ DOMAIN imageOut' = DOMAIN imageOut
      /\ row' \in [Worker -> Nat]
  <2>1. CASE CopyWhole(w)
    BY <1>1, <2>1 DEF CopyWhole, FlowType
  <2>2. CASE CopyLine(w)
    <3>1. row' = row \/ row' = [row EXCEPT ![w] = @ + 1]
      BY <2>2 DEF CopyLine
    <3>2. row' \in [Worker -> Nat]
      BY <1>1, <3>1 DEF FlowType
    <3> QED
      BY <2>2, <3>2 DEF CopyLine
  <2> QED
    BY <2>1, <2>2
<1>3. CASE NextChunk(w)
  <2>1. /\ pc'[w] = "loop" /\ pc[w] # "body"
        /\ \A u \in Worker \ {w} : pc'[u] = pc[u] /\ idx'[u] = idx[u]
    BY <1>1, <1>3 DEF NextChunk, Goto
  <2> QED
    BY <1>2, <2>1, QuietKeeps
<1>4. CASE UNCHANGED <<pc, idx>>
  BY <1>2, <1>4, SameKeeps
<1> QED
  BY <1>3, <1>4 DEF CopyWhole, CopyLine

\* Every step keeps the invariant.
LEMMA FlowStep == FlowInv /\ [Next]_vars => FlowInv'
<1> SUFFICES ASSUME FlowInv, [Next]_vars PROVE FlowInv'
  OBVIOUS
<1>1. RegionInv'
  BY RegionStep DEF FlowInv
<1>2. row \in [Worker -> Nat]
  BY DEF FlowInv, FlowType
<1>3. CASE UNCHANGED vars \/ Return \/ Over
  <2>1. UNCHANGED <<pc, idx, image, dims, curBuff, step, scalars, queue, row, imageOut>>
    BY <1>3 DEF vars, Return, Over
  <2>2. UNCHANGED job
    BY <1>3 DEF vars, Next
  <2>3. row' \in [Worker -> Nat] /\ DOMAIN imageOut' = DOMAIN imageOut
    BY <1>2, <2>1, <2>2, SameJob
  <2> QED
    BY <1>1, <2>1, <2>2, <2>3, SameKeeps
<1>4. ASSUME Next, NEW w \in Worker, CudaFails(w) PROVE FlowInv'
  <2>1. UNCHANGED <<job, pc, idx, image, dims, curBuff, step, scalars, queue, row, imageOut>>
    BY <1>4 DEF Next, CudaFails
  <2>2. row' \in [Worker -> Nat] /\ DOMAIN imageOut' = DOMAIN imageOut
    BY <1>2, <2>1, SameJob
  <2> QED
    BY <1>1, <2>1, <2>2, SameKeeps
<1>5. ASSUME Next, NEW w \in Worker, Host(w) \/ RunKernel(w) PROVE FlowInv'
  <2>1. UNCHANGED job
    BY <1>5 DEF Next
  <2> QED
    BY <1>1, <1>5, <2>1, RegionFlows, TakeChunkFlows, SendROIFlows, MemsetFlows,
       ReduceBufferFlows, LaunchFlows, SynchronizeFlows, CopyFlows, RunKernelFlows DEF Host
<1> QED
  BY <1>3, <1>4, <1>5 DEF Next

\* The device is behind the host by the launches that are pending, which are the plan's
\* next; its buffers are what the plan makes them when every step is done before the next
\* (the asynchronous launches of every filter, and the rotation of incrementBuffer).
THEOREM PlanIsFollowed == Spec => []FlowInv
BY FlowInit, FlowStep, PTL DEF Spec

\* What is copied back is what the plan computes from the chunk, as the promise says.
LEMMA ResultIsPromised ==
  ASSUME FlowInv, NEW w \in Worker, pc[w] = "copy"
  PROVE  /\ idx[w] \in Chunks /\ job \in Jobs
         /\ \A p \in 0 .. Size(idx[w]) - 1 :
              /\ Result(w)[p].vox = Start(idx[w]) + p /\ Result(w)[p].term = Promised
              /\ Around(Start(idx[w]) + p) \subseteq Start(idx[w]) .. End(idx[w])
                   => Result(w)[p].exact
<1>1. job \in Jobs /\ FlowType /\ Len(Steps) \in Nat /\ Ring \in Nat \ {0} /\ queue[w] = <<>>
  BY AtChunk DEF FlowInv, Flow
<1>2. PICK i \in Chunks : i = idx[w]
  BY AtChunk
<1>3. PICK base \in 0 .. Ring - 1 : Follows(w, i, base)
  BY <1>2, AtChunk
<1>4. Issued(w) = Len(Steps) /\ Ran(w) = Len(Steps) /\ curBuff[w] = Planned(base)[Len(Steps)].cur
  BY <1>1, <1>3 DEF Follows, Ran
<1> DEFINE b == RoleBuffer(job.plan, Planned(base)[Len(Steps)].cur, job.plan.result)
           held0 == Planned(base)[Len(Steps)].buffers[b]
<1>5. Result(w) = image[w][b]
  BY <1>4 DEF Result, BufferOf
<1>6. held0.known /\ held0.term = Promised /\ \A x \in held0.reaches : x <= job.promise.reach
  <2>1. KeepsPromise(job.plan, Length, job.promise)
    BY <1>1, JobNumbers
  <2>2. held0 = Held(job.plan, Planned(base)[Len(job.plan.steps)], job.plan.result)
    BY Zenon DEF Held, Steps
  <2> HIDE DEF held0
  <2>3. base \in 0 .. job.plan.ring - 1
    BY DEF Ring
  <2> QED
    BY <2>1, <2>2, <2>3, Zenon DEF KeepsPromise, Planned, Promised
<1>7. b \in Buffer
  <2>1. Typed(Planned(base)[Len(Steps)]) /\ job.plan.result \in Roles(job.plan)
    <3>1. Len(Steps) \in 0 .. Len(Steps)
      BY <1>1
    <3> QED
      BY <1>1, <3>1, PlanType, StepFacts
  <2> QED
    BY <1>1, <2>1, RoleIsABuffer DEF Typed
<1>8. held0.reaches \subseteq Nat /\ job.promise.reach \in Nat
  <2>1. Typed(Planned(base)[Len(Steps)])
    <3>1. Len(Steps) \in 0 .. Len(Steps)
      BY <1>1
    <3> QED
      BY <1>1, <3>1, PlanType
  <2> QED
    BY <1>1, <1>6, <1>7, <2>1, JobNumbers DEF Typed
<1>9. Carries(image[w][b], i, held0)
  <2> HIDE DEF b
  <2> QED
    BY <1>3, <1>4, <1>6, <1>7 DEF Follows
<1> HIDE DEF b, held0
<1>10. ASSUME NEW p \in 0 .. Size(i) - 1
       PROVE  /\ image[w][b][p].vox = Start(i) + p /\ image[w][b][p].term = Promised
              /\ Around(Start(i) + p) \subseteq Start(i) .. End(i) => image[w][b][p].exact
  <2>1. Start(i) \in Nat /\ Length \in Nat /\ Size(i) \in Nat
    BY <1>1, ChunkFacts, JobNumbers
  <2>2. ASSUME NEW x \in held0.reaches PROVE Within(Start(i) + p, x) \subseteq Around(Start(i) + p)
    <3>1. x \in Nat /\ x <= job.promise.reach
      BY <1>6, <1>8
    <3> QED
      BY <1>8, <2>1, <3>1 DEF Within, Around
  <2>3. /\ image[w][b][p].vox = Start(i) + p /\ image[w][b][p].term = held0.term
        /\ (\A x \in held0.reaches : Within(Start(i) + p, x) \subseteq Start(i) .. End(i))
             => image[w][b][p].exact
    BY <1>1, <1>9, CarriesIs
  <2>4. Around(Start(i) + p) \subseteq Start(i) .. End(i) =>
          \A x \in held0.reaches : Within(Start(i) + p, x) \subseteq Start(i) .. End(i)
    <3> SUFFICES ASSUME Around(Start(i) + p) \subseteq Start(i) .. End(i), NEW x \in held0.reaches
                 PROVE  Within(Start(i) + p, x) \subseteq Start(i) .. End(i)
      OBVIOUS
    <3>1. Within(Start(i) + p, x) \subseteq Around(Start(i) + p)
      BY <2>2
    <3> QED
      BY <3>1
  <2> QED
    BY <1>6, <2>3, <2>4
<1> QED
  BY <1>1, <1>2, <1>5, <1>10

\* When its lines are copied back, the buffer a chunk is copied from holds what the help
\* promises: no launch has read a buffer too early, too late, or another than the host meant
\* (retriveROI after the plan's launches), and the margin is as wide as the plan looks.
THEOREM ROIRightWhenRetrievedHolds == Spec => []ROIRightWhenRetrieved
<1>1. FlowInv => ROIRightWhenRetrieved
  <2> SUFFICES ASSUME FlowInv, NEW w \in Worker, pc[w] = "copy"
               PROVE  LET i == idx[w]
                      IN /\ \A p \in 0 .. Size(i) - 1 :
                              Result(w)[p].vox = Start(i) + p /\ Result(w)[p].term = Promised
                         /\ \A v \in ROI(i) :
                              job.promise.reach <= Margin(KernelLength)
                                \/ Around(v) \subseteq Start(i) .. End(i)
                                => Result(w)[v - Start(i)].exact
    BY DEF ROIRightWhenRetrieved
  <2>1. PICK i \in Chunks : i = idx[w]
    BY ResultIsPromised
  <2>2. ASSUME NEW v \in ROI(i),
               job.promise.reach <= Margin(KernelLength) \/ Around(v) \subseteq Start(i) .. End(i)
        PROVE  Result(w)[v - Start(i)].exact
    <3>1. job \in Jobs /\ job.promise.reach \in Nat /\ Margin(KernelLength) \in Nat
      BY ResultIsPromised, JobNumbers, ChunkNumbers
    <3>2. v \in Start(i) .. End(i)
      BY <3>1, ChunkFacts DEF ROI
    <3>3. Around(v) \subseteq Start(i) .. End(i)
      <4>1. CASE job.promise.reach <= Margin(KernelLength)
        <5>1. Within(v, job.promise.reach) \subseteq Start(i) .. End(i)
          BY <3>1, <4>1, MarginHolds
        <5> QED
          BY <5>1 DEF Within, Around
      <4> QED
        BY <2>2, <4>1
    <3> DEFINE p == v - Start(i)
    <3>4. p \in 0 .. Size(i) - 1 /\ Start(i) + p = v
      BY <3>1, <3>2, ChunkFacts
    <3> HIDE DEF p
    <3>5. Result(w)[p].exact
      BY <2>1, <3>3, <3>4, ResultIsPromised
    <3> QED
      BY <3>5 DEF p
  <2> QED
    BY <2>1, <2>2, ResultIsPromised
<1> QED
  BY <1>1, PlanIsFollowed, PTL

-----------------------------------------------------------------------------
(***************************************************************************)
(* The output                                                              *)
(***************************************************************************)
\* A voxel that is not written stays right.
LEMMA RightStays ==
  ASSUME UNCHANGED job, NEW v, imageOut'[v] = imageOut[v], Right(v)
  PROVE  Right(v)'
<1>1. Chunks' = Chunks /\ Length' = Length
  BY SameJob
<1>2. \A i : Start(i)' = Start(i) /\ End(i)' = End(i)
  BY SameJob
<1>3. Around(v)' = Around(v) /\ Promised' = Promised
  BY <1>1 DEF Around, Promised
<1> QED
  BY <1>1, <1>2, <1>3 DEF Right

\* What is copied out of a chunk's buffer is right.
LEMMA CopiedIsRight ==
  ASSUME FlowInv, UNCHANGED job, NEW w \in Worker, pc[w] = "copy",
         NEW p \in 0 .. Size(idx[w]) - 1, NEW v, v = Start(idx[w]) + p,
         imageOut'[v] = Result(w)[p]
  PROVE  Right(v)'
<1>1. PICK i \in Chunks : i = idx[w]
  BY ResultIsPromised
<1>2. /\ Result(w)[p].vox = v /\ Result(w)[p].term = Promised
      /\ Around(v) \subseteq Start(i) .. End(i) => Result(w)[p].exact
  BY <1>1, ResultIsPromised
<1>3. v \in Start(i) .. End(i)
  BY <1>1, ResultIsPromised, ChunkFacts
<1>4. Chunks' = Chunks /\ Length' = Length /\ \A c : Start(c)' = Start(c) /\ End(c)' = End(c)
  BY SameJob
<1>5. Around(v)' = Around(v) /\ Promised' = Promised
  BY <1>4 DEF Around, Promised
<1>6. (\A c \in Chunks : v \in Start(c) .. End(c) => Around(v) \subseteq Start(c) .. End(c))
        => imageOut'[v].exact
  <2> SUFFICES ASSUME \A c \in Chunks : v \in Start(c) .. End(c) =>
                        Around(v) \subseteq Start(c) .. End(c)
               PROVE  imageOut'[v].exact
    OBVIOUS
  <2>1. Around(v) \subseteq Start(i) .. End(i)
    BY <1>3
  <2> QED
    BY <1>2, <2>1
<1> QED
  BY <1>2, <1>4, <1>5, <1>6 DEF Right

\* A step that writes no output, and no more of a chunk done.
LEMMA OutputStays ==
  ASSUME OutputInv, UNCHANGED <<job, imageOut>>,
         \A i \in Chunks : progress'[i] = "done" => progress[i] = "done",
         \A w \in Worker : pc'[w] = "copy" =>
           \/ pc[w] = "copy" /\ idx'[w] = idx[w] /\ row'[w] = row[w]
           \/ row'[w] = 0 /\ idx'[w] \in Chunks /\ job \in Jobs
  PROVE  OutputInv'
<1>1. Chunks' = Chunks /\ Worker' = Worker
      /\ \A i : Start(i)' = Start(i) /\ End(i)' = End(i) /\ Size(i)' = Size(i)
  BY SameJob
<1>2. \A v : Right(v) => Right(v)'
  BY RightStays
<1>3. \A i \in Chunks' : progress'[i] = "done" => \A v \in (Start(i) .. End(i))' : Right(v)'
  BY <1>1, <1>2 DEF OutputInv
<1>4. ASSUME NEW w \in Worker, pc'[w] = "copy"
      PROVE  (row[w] < Size(idx[w]) /\ \A r \in 0 .. row[w] - 1 : Right(Start(idx[w]) + r))'
  <2>1. PICK j : j = idx'[w]
    OBVIOUS
  <2>2. row'[w] < Size(j) /\ \A r \in 0 .. row'[w] - 1 : Right(Start(j) + r)
    <3>1. CASE pc[w] = "copy" /\ idx'[w] = idx[w] /\ row'[w] = row[w]
      BY <2>1, <3>1 DEF OutputInv
    <3>2. CASE row'[w] = 0 /\ idx'[w] \in Chunks /\ job \in Jobs
      <4>1. Size(j) \in Nat \ {0}
        BY <2>1, <3>2, ChunkFacts
      <4> QED
        BY <3>2, <4>1
    <3> QED
      BY <1>4, <3>1, <3>2
  <2>3. \A r \in 0 .. row'[w] - 1 : \A v : v = Start(j) + r => Right(v)'
    BY <1>2, <2>2
  <2> QED
    BY <1>1, <2>1, <2>2, <2>3
<1> QED
  BY <1>1, <1>3, <1>4 DEF OutputInv

\* A chunk that is the image is copied in one go.
LEMMA CopyWholeOutput ==
  ASSUME FlowInv, OutputInv, UNCHANGED job, NEW w \in Worker, CopyWhole(w)
  PROVE  OutputInv'
<1>1. /\ pc[w] = "copy" /\ Size(idx[w]) = Length
      /\ imageOut' = [v \in DOMAIN imageOut |-> Result(w)[v]]
  BY DEF CopyWhole, At
<1>2. /\ idx[w] \in Chunks /\ job \in Jobs /\ DOMAIN imageOut = 0 .. Length - 1
      /\ pc \in [Worker -> Place] /\ Length \in Nat
  BY <1>1, ResultIsPromised, JobNumbers DEF FlowInv, FlowType, RegionInv, RegionType
<1>3. Start(idx[w]) = 0
  BY <1>1, <1>2, WholeChunk
<1>4. \A v \in 0 .. Length - 1 : Right(v)'
  <2> SUFFICES ASSUME NEW v \in 0 .. Length - 1 PROVE Right(v)'
    OBVIOUS
  <2>1. v \in 0 .. Size(idx[w]) - 1 /\ v = Start(idx[w]) + v /\ imageOut'[v] = Result(w)[v]
    BY <1>1, <1>2, <1>3
  <2> QED
    BY <1>1, <2>1, CopiedIsRight
<1>5. /\ Chunks' = Chunks /\ Worker' = Worker /\ Length' = Length
      /\ \A i : Start(i)' = Start(i) /\ End(i)' = End(i) /\ Size(i)' = Size(i)
  BY SameJob
<1>6. \A i \in Chunks : \A v \in Start(i) .. End(i) : v \in 0 .. Length - 1
  BY <1>2, ChunkFacts
<1>7. ASSUME NEW u \in Worker, pc'[u] = "copy"
      PROVE  (row[u] < Size(idx[u]) /\ \A r \in 0 .. row[u] - 1 : Right(Start(idx[u]) + r))'
  <2>1. u # w /\ pc[u] = "copy" /\ idx'[u] = idx[u] /\ row'[u] = row[u]
    BY <1>2, <1>7 DEF CopyWhole, NextChunk, Goto
  <2>2. PICK i \in Chunks : i = idx[u]
    BY <2>1, ResultIsPromised
  <2>3. row[u] < Size(i) /\ row[u] \in Nat
    BY <2>1, <2>2 DEF OutputInv, FlowInv, FlowType
  <2>4. \A r \in 0 .. row[u] - 1 : Right(Start(i) + r)'
    <3> SUFFICES ASSUME NEW r \in 0 .. row[u] - 1 PROVE Right(Start(i) + r)'
      OBVIOUS
    <3>1. PICK v : v = Start(i) + r
      OBVIOUS
    <3>2. v \in 0 .. Length - 1
      <4>1. /\ Start(i) \in Nat /\ End(i) \in Nat /\ End(i) < Length
            /\ Size(i) = End(i) - Start(i) + 1
        BY <1>2, ChunkFacts
      <4> QED
        BY <1>2, <2>3, <3>1, <4>1
    <3>3. Right(v)'
      BY <1>4, <3>2
    <3> QED
      BY <1>5, <3>1, <3>3
  <2> QED
    BY <1>5, <2>1, <2>2, <2>3, <2>4
<1> QED
  BY <1>4, <1>5, <1>6, <1>7 DEF OutputInv

\* Another is copied a line at a time; the last one makes it done.
LEMMA CopyLineOutput ==
  ASSUME FlowInv, OutputInv, UNCHANGED job, NEW w \in Worker, CopyLine(w)
  PROVE  OutputInv'
<1>1. pc[w] = "copy"
  BY DEF CopyLine, At
<1>2. PICK i \in Chunks : i = idx[w]
  BY <1>1, ResultIsPromised
<1>3. PICK r \in Nat : r = row[w]
  BY DEF FlowInv, FlowType
<1>4. /\ job \in Jobs /\ DOMAIN imageOut = 0 .. Length - 1 /\ row \in [Worker -> Nat]
      /\ pc \in [Worker -> Place] /\ idx \in [Worker -> Nat]
      /\ progress \in [Chunks -> {"waiting", "taken", "done"}]
      /\ Start(i) \in Nat /\ End(i) \in Nat /\ End(i) < Length /\ Size(i) = End(i) - Start(i) + 1
  BY <1>1, ResultIsPromised, ChunkFacts DEF FlowInv, FlowType, RegionInv, RegionType
<1>5. r < Size(i) /\ \A q \in 0 .. r - 1 : Right(Start(i) + q)
  BY <1>1, <1>2, <1>3 DEF OutputInv
<1>6. PICK at : at = Start(i) + r
  OBVIOUS
<1>7. imageOut' = [imageOut EXCEPT ![at] = Result(w)[r]] /\ at \in 0 .. Length - 1
  <2>1. at \in 0 .. Length - 1
    BY <1>3, <1>4, <1>5, <1>6, JobNumbers
  <2>2. imageOut' = [imageOut EXCEPT ![Start(idx[w]) + row[w]] = Result(w)[row[w]]]
    BY DEF CopyLine
  <2> QED
    BY <1>2, <1>3, <1>6, <2>1, <2>2
<1>8. Right(at)'
  <2>1. r \in 0 .. Size(idx[w]) - 1 /\ at = Start(idx[w]) + r
    BY <1>2, <1>3, <1>4, <1>5, <1>6
  <2>2. imageOut'[at] = Result(w)[r]
    BY <1>4, <1>7
  <2> QED
    BY <1>1, <2>1, <2>2, CopiedIsRight
<1>9. ASSUME NEW v, Right(v) PROVE Right(v)'
  <2>1. CASE v = at
    BY <1>8, <2>1
  <2>2. CASE v # at
    BY <1>7, <1>9, <2>2, RightStays
  <2> QED
    BY <2>1, <2>2
<1>10. ASSUME NEW q \in 0 .. r PROVE Right(Start(i) + q)'
  <2>1. PICK v : v = Start(i) + q
    OBVIOUS
  <2>2. Right(v)'
    <3>1. CASE q = r
      BY <1>6, <1>8, <2>1, <3>1
    <3>2. CASE q # r
      BY <1>5, <1>9, <2>1, <3>2
    <3> QED
      BY <3>1, <3>2
  <2>3. Start(i)' = Start(i)
    BY SameJob
  <2> QED
    BY <2>1, <2>2, <2>3
<1>11. /\ Chunks' = Chunks /\ Worker' = Worker
       /\ \A c : Start(c)' = Start(c) /\ End(c)' = End(c) /\ Size(c)' = Size(c)
  BY SameJob
<1>12. \/ /\ r + 1 = Size(i) /\ pc'[w] = "loop"
          /\ \A c \in Chunks : c # i => progress'[c] = progress[c]
          /\ \A u \in Worker \ {w} : pc'[u] = pc[u] /\ idx'[u] = idx[u] /\ row'[u] = row[u]
       \/ /\ r + 1 # Size(i) /\ row'[w] = r + 1
          /\ UNCHANGED <<pc, idx, progress>>
          /\ \A u \in Worker \ {w} : row'[u] = row[u]
  BY <1>2, <1>3, <1>4 DEF CopyLine, NextChunk, Goto
<1>13. ASSUME NEW c \in Chunks, progress'[c] = "done", NEW v \in Start(c) .. End(c) PROVE Right(v)'
  <2>1. CASE progress[c] = "done"
    BY <1>9, <2>1 DEF OutputInv
  <2>2. CASE progress[c] # "done"
    <3>1. c = i /\ r + 1 = Size(i)
      BY <1>12, <1>13, <2>2
    <3>2. PICK q \in 0 .. r : v = Start(i) + q
      <4>1. v - Start(i) \in 0 .. r /\ v = Start(i) + (v - Start(i))
        BY <1>4, <3>1
      <4> QED
        BY <4>1
    <3>3. Start(i)' = Start(i) /\ Right(Start(i) + q)'
      BY <1>10, SameJob
    <3> QED
      BY <3>2, <3>3
  <2> QED
    BY <2>1, <2>2
<1>14. ASSUME NEW u \in Worker, pc'[u] = "copy"
       PROVE  (row[u] < Size(idx[u]) /\ \A q \in 0 .. row[u] - 1 : Right(Start(idx[u]) + q))'
  <2>1. CASE u = w
    <3>1. row'[u] = r + 1 /\ idx'[u] = i /\ r + 1 < Size(i)
      <4>1. pc'[w] # "loop"
        BY <1>14, <2>1
      <4>2. r + 1 # Size(i) /\ row'[w] = r + 1 /\ idx' = idx
        BY <1>12, <4>1
      <4>3. r + 1 < Size(i)
        BY <1>3, <1>4, <1>5, <4>2
      <4> QED
        BY <1>2, <2>1, <4>2, <4>3
    <3>2. \A q \in 0 .. (r + 1) - 1 : Right(Start(i) + q)'
      BY <1>10
    <3> QED
      BY <1>11, <3>1, <3>2
  <2>2. CASE u # w
    <3>1. pc[u] = "copy" /\ idx'[u] = idx[u] /\ row'[u] = row[u]
      BY <1>12, <1>14, <2>2
    <3>2. PICK j \in Chunks : j = idx[u]
      BY <3>1, ResultIsPromised
    <3>3. row[u] < Size(j) /\ \A q \in 0 .. row[u] - 1 : Right(Start(j) + q)
      BY <3>1, <3>2 DEF OutputInv
    <3>4. \A q \in 0 .. row[u] - 1 : \A v : v = Start(j) + q => Right(v)'
      BY <1>9, <3>3
    <3> QED
      BY <1>11, <3>1, <3>2, <3>3, <3>4
  <2> QED
    BY <2>1, <2>2
<1> QED
  BY <1>11, <1>13, <1>14 DEF OutputInv

\* Every step keeps the output right.
LEMMA OutputStep == FlowInv /\ OutputInv /\ [Next]_vars => OutputInv'
<1> SUFFICES ASSUME FlowInv, OutputInv, [Next]_vars PROVE OutputInv'
  OBVIOUS
<1>1. UNCHANGED job
  BY DEF Next, vars
<1>2. /\ pc \in [Worker -> Place] /\ progress \in [Chunks -> {"waiting", "taken", "done"}]
      /\ row \in [Worker -> Nat] /\ job \in Jobs
  BY DEF FlowInv, FlowType, RegionInv, RegionType
<1>3. ASSUME UNCHANGED <<imageOut, idx, progress, row>>,
             \A w \in Worker : pc'[w] = "copy" => pc[w] = "copy"
      PROVE  OutputInv'
  BY <1>1, <1>3, OutputStays
<1>4. CASE UNCHANGED vars \/ Return \/ Over
  <2>1. UNCHANGED <<imageOut, idx, progress, row, pc>>
    BY <1>4 DEF vars, Return, Over
  <2> QED
    BY <1>3, <2>1
<1>5. ASSUME NEW w \in Worker, CudaFails(w) PROVE OutputInv'
  BY <1>3, <1>5 DEF CudaFails
<1>6. ASSUME NEW w \in Worker, RunKernel(w) PROVE OutputInv'
  BY <1>3, <1>6 DEF RunKernel
<1>7. ASSUME NEW w \in Worker, Host(w) PROVE OutputInv'
  <2>1. CASE MallocBuffer(w) \/ LoadKernel(w) \/ Clean(w) \/ FreeBuffer(w)
    <3>1. UNCHANGED <<imageOut, idx, progress, row>>
      BY <2>1 DEF MallocBuffer, LoadKernel, Clean, FreeBuffer
    <3>2. pc'[w] # "copy" /\ \A u \in Worker \ {w} : pc'[u] = pc[u]
      BY <1>2, <2>1 DEF MallocBuffer, LoadKernel, Clean, FreeBuffer, At, Goto
    <3> QED
      BY <1>3, <3>1, <3>2
  <2>2. CASE TakeChunk(w)
    <3>1. /\ UNCHANGED <<imageOut, idx, row>>
          /\ progress' = [progress EXCEPT ![idx[w]] = "taken"]
          /\ pc'[w] = "body" /\ \A u \in Worker \ {w} : pc'[u] = pc[u]
      BY <1>2, <2>2 DEF TakeChunk, Goto
    <3>2. \A i \in Chunks : progress'[i] = "done" => progress[i] = "done"
      BY <1>2, <3>1
    <3> QED
      BY <1>1, <3>1, <3>2, OutputStays
  <2>3. CASE SendROI(w) \/ Memset(w)
    BY <1>3, <2>3 DEF SendROI, Memset, FillBuffer
  <2>4. CASE ReduceBuffer(w)
    BY <1>3, <2>4 DEF ReduceBuffer
  <2>5. CASE Launch(w)
    BY <1>3, <2>5 DEF Launch, Issue
  <2>6. CASE Synchronize(w)
    <3>1. /\ UNCHANGED <<imageOut, idx, progress>> /\ pc[w] = "body"
          /\ row'[w] = 0 /\ \A u \in Worker \ {w} : row'[u] = row[u] /\ pc'[u] = pc[u]
      BY <1>2, <2>6 DEF Synchronize, At, Goto
    <3>2. idx[w] \in Chunks
      BY <3>1, AtChunk
    <3> QED
      BY <1>1, <1>2, <3>1, <3>2, OutputStays
  <2>7. CASE CopyWhole(w)
    BY <1>1, <2>7, CopyWholeOutput
  <2>8. CASE CopyLine(w)
    BY <1>1, <2>8, CopyLineOutput
  <2> QED
    BY <1>7, <2>1, <2>2, <2>3, <2>4, <2>5, <2>6, <2>7, <2>8 DEF Host
<1> QED
  BY <1>4, <1>5, <1>6, <1>7 DEF Next

\* What is copied out stays right while other workers copy their chunks over it: every
\* voxel of a chunk that is done, and every line copied of one that is not yet.
THEOREM OutputIsRight == Spec => []OutputInv
<1>1. Init => OutputInv
  <2> SUFFICES ASSUME Init PROVE OutputInv
    OBVIOUS
  <2>1. /\ \A i \in Chunks : progress[i] = "waiting"
        /\ \A w \in Worker : pc[w] = "malloc"
    BY DEF Init
  <2> QED
    BY <2>1 DEF OutputInv
<1> QED
  BY <1>1, OutputStep, PlanIsFollowed, PTL DEF Spec

\* When the filter returns, every voxel of the output is what the help promises, of that
\* voxel, and is right if every chunk holding it holds all that its value depends on,
\* whichever worker copied it last (the margins are copied back too).
THEOREM RightAwayFromCutsHolds == Spec => []RightAwayFromCuts
<1>1. FlowInv /\ OutputInv => RightAwayFromCuts
  <2> SUFFICES ASSUME FlowInv, OutputInv, status = "returned", NEW v \in 0 .. Length - 1
               PROVE  Right(v)
    BY DEF RightAwayFromCuts, Right
  <2>1. job \in Jobs
    BY DEF FlowInv, RegionInv, RegionType
  <2>2. PICK i \in Chunks : v \in Start(i) .. End(i)
    BY <2>1, ChunksCover
  <2>3. progress[i] = "done"
    BY BarrierMeansDone DEF FlowInv, RegionInv, Memory
  <2> QED
    BY <2>2, <2>3 DEF OutputInv
<1> QED
  BY <1>1, PlanIsFollowed, OutputIsRight, PTL

-----------------------------------------------------------------------------
(***************************************************************************)
(* The filters keep their promises: what is assumed of a job's plan is so  *)
(* of every filter's, for kernels of any odd extent, any number of         *)
(* iterations and images of any length                                     *)
(***************************************************************************)
\* Two sequences, one after the other.
LEMMA JoinedIs ==
  ASSUME NEW S, NEW s \in Seq(S), NEW t \in Seq(S)
  PROVE  s \o t = [i \in 1 .. Len(s) + Len(t) |-> IF i <= Len(s) THEN s[i] ELSE t[i - Len(s)]]
<1> DEFINE w == s \o t
<1>1. /\ w \in Seq(S) /\ Len(w) = Len(s) + Len(t)
      /\ \A i \in 1 .. Len(s) + Len(t) : w[i] = IF i <= Len(s) THEN s[i] ELSE t[i - Len(s)]
  BY ConcatProperties
<1> HIDE DEF w
<1>2. w = [i \in 1 .. Len(w) |-> w[i]]
  BY <1>1
<1> QED
  BY <1>1, <1>2, Zenon DEF w

\* A function of one term.
Of(fn, term) == <<fn, term>>

\* The terms of the help exist: a function applied n times, each to what the last gave.
LEMMA AppliedIs ==
  ASSUME NEW fn, NEW n \in Nat, NEW term
  PROVE  \E a : /\ a[0] = term /\ \A j \in 1 .. n : a[j] = Of(fn, a[j - 1])
                /\ Applied(fn, n, term) = a[n]
<1> DEFINE Rule(f, k) == IF k = 0 THEN term ELSE <<fn, f[k - 1]>>
           S == {m \in 0 .. n : \E f : \A k \in 0 .. m : f[k] = Rule(f, k)}
<1>1. 0 \in S
  <2> DEFINE f == [k \in 0 .. 0 |-> term]
  <2>1. \A k \in 0 .. 0 : f[k] = Rule(f, k)
    OBVIOUS
  <2> HIDE DEF Rule, f
  <2>2. 0 \in 0 .. n
    OBVIOUS
  <2> QED
    BY <2>1, <2>2
<1>2. ASSUME NEW m \in 0 .. n - 1, m \in S PROVE m + 1 \in S
  <2> HIDE DEF Rule
  <2>1. PICK f : \A k \in 0 .. m : f[k] = Rule(f, k)
    BY <1>2
  <2> DEFINE g == [k \in 0 .. m + 1 |-> IF k = m + 1 THEN Rule(f, m + 1) ELSE f[k]]
  <2>2. (\A k \in 0 .. m : g[k] = f[k]) /\ g[m + 1] = Rule(f, m + 1)
    OBVIOUS
  <2> HIDE DEF g
  <2>3. ASSUME NEW k \in 0 .. m + 1 PROVE g[k] = Rule(g, k)
    <3>1. Rule(g, k) = Rule(f, k)
      <4>1. CASE k = 0
        BY <4>1 DEF Rule
      <4>2. CASE k # 0
        <5>1. k - 1 \in 0 .. m
          BY <4>2
        <5> QED
          BY <4>2, <5>1, <2>2 DEF Rule
      <4> QED
        BY <4>1, <4>2
    <3>2. k \in 0 .. m \/ k = m + 1
      OBVIOUS
    <3> QED
      BY <2>1, <2>2, <3>1, <3>2
  <2>4. m + 1 \in 0 .. n
    OBVIOUS
  <2> QED
    BY <2>3, <2>4
<1>3. n \in S
  <2>1. n \in 0 .. n
    OBVIOUS
  <2> HIDE DEF S
  <2> QED
    BY <1>1, <1>2, <2>1, UpTo
<1>4. PICK f : \A k \in 0 .. n : f[k] = Rule(f, k)
  BY <1>3
<1> DEFINE g == [k \in 0 .. n |-> f[k]]
<1>5. g = [k \in 0 .. n |-> Rule(g, k)]
  <2>1. ASSUME NEW k \in 0 .. n PROVE g[k] = Rule(g, k)
    <3>1. CASE k = 0
      BY <1>4, <3>1
    <3>2. CASE k # 0
      <4>1. k - 1 \in 0 .. n
        BY <3>2
      <4>2. g[k - 1] = f[k - 1] /\ g[k] = f[k]
        BY <4>1
      <4> QED
        BY <1>4, <3>2, <4>2
    <3> QED
      BY <3>1, <3>2
  <2> HIDE DEF Rule
  <2> QED
    BY <2>1
<1> DEFINE r == CHOOSE h : h = [k \in 0 .. n |-> Rule(h, k)]
<1>6. Applied(fn, n, term) = r[n]
  BY DEF Applied
<1> HIDE DEF g, r, Rule
<1>7. r = [k \in 0 .. n |-> Rule(r, k)]
  BY <1>5, Zenon DEF r
<1>8. r[0] = Rule(r, 0) /\ \A k \in 1 .. n : r[k] = Rule(r, k)
  <2>1. 0 \in 0 .. n /\ \A k \in 1 .. n : k \in 0 .. n
    OBVIOUS
  <2> QED
    BY <1>7, <2>1, Zenon
<1>9. r[0] = term /\ \A k \in 1 .. n : r[k] = Of(fn, r[k - 1])
  <2>1. Rule(r, 0) = term /\ \A k \in 1 .. n : Rule(r, k) = Of(fn, r[k - 1])
    BY DEF Rule, Of
  <2> QED
    BY <1>8, <2>1, Zenon
<1> QED
  BY <1>6, <1>9, Zenon

\* Flattening joins the sequences one by one.
LEMMA FlattenSeqIs ==
  ASSUME NEW seqs, Len(seqs) \in Nat \ {0}
  PROVE  \E f : /\ f[1] = seqs[1] /\ \A i \in 2 .. Len(seqs) : f[i] = f[i - 1] \o seqs[i]
                /\ FlattenSeq(seqs) = f[Len(seqs)]
<1> DEFINE N == Len(seqs)
           Rule(f, k) == IF k = 1 THEN seqs[k] ELSE f[k - 1] \o seqs[k]
           S == {m \in 0 .. N : \E f : \A k \in 1 .. m : f[k] = Rule(f, k)}
<1>1. 0 \in S
  <2>1. \A k \in 1 .. 0 : FALSE
    OBVIOUS
  <2> HIDE DEF Rule
  <2>2. 0 \in 0 .. N
    OBVIOUS
  <2> QED
    BY <2>1, <2>2
<1>2. ASSUME NEW m \in 0 .. N - 1, m \in S PROVE m + 1 \in S
  <2> HIDE DEF Rule
  <2>1. PICK f : \A k \in 1 .. m : f[k] = Rule(f, k)
    BY <1>2
  <2> DEFINE g == [k \in 1 .. m + 1 |-> IF k = m + 1 THEN Rule(f, m + 1) ELSE f[k]]
  <2>2. (\A k \in 1 .. m : g[k] = f[k]) /\ g[m + 1] = Rule(f, m + 1)
    OBVIOUS
  <2> HIDE DEF g
  <2>3. ASSUME NEW k \in 1 .. m + 1 PROVE g[k] = Rule(g, k)
    <3>1. Rule(g, k) = Rule(f, k)
      <4>1. CASE k = 1
        BY <4>1 DEF Rule
      <4>2. CASE k # 1
        <5>1. k - 1 \in 1 .. m
          BY <4>2
        <5> QED
          BY <4>2, <5>1, <2>2 DEF Rule
      <4> QED
        BY <4>1, <4>2
    <3>2. k \in 1 .. m \/ k = m + 1
      OBVIOUS
    <3> QED
      BY <2>1, <2>2, <3>1, <3>2
  <2>4. m + 1 \in 0 .. N
    OBVIOUS
  <2> QED
    BY <2>3, <2>4
<1>3. N \in S
  <2>1. N \in Nat /\ N \in 0 .. N
    OBVIOUS
  <2> HIDE DEF S, N
  <2> QED
    BY <1>1, <1>2, <2>1, UpTo
<1>4. PICK f : \A k \in 1 .. N : f[k] = Rule(f, k)
  BY <1>3
<1> DEFINE g == [k \in 1 .. N |-> f[k]]
<1>5. g = [k \in 1 .. N |-> Rule(g, k)]
  <2>1. ASSUME NEW k \in 1 .. N PROVE g[k] = Rule(g, k)
    <3>1. CASE k = 1
      BY <1>4, <3>1
    <3>2. CASE k # 1
      <4>1. k - 1 \in 1 .. N
        BY <3>2
      <4>2. g[k - 1] = f[k - 1] /\ g[k] = f[k]
        BY <4>1
      <4> QED
        BY <1>4, <3>2, <4>2
    <3> QED
      BY <3>1, <3>2
  <2> HIDE DEF Rule
  <2> QED
    BY <2>1
<1> DEFINE r == CHOOSE h : h = [k \in 1 .. N |-> Rule(h, k)]
<1>6. FlattenSeq(seqs) = r[N]
  BY DEF FlattenSeq
<1> HIDE DEF g, r, Rule
<1>7. r = [k \in 1 .. N |-> Rule(r, k)]
  BY <1>5, Zenon DEF r
<1>8. \A k \in 1 .. N : r[k] = Rule(r, k)
  BY <1>7, Zenon
<1>9. r[1] = seqs[1] /\ \A k \in 2 .. N : r[k] = r[k - 1] \o seqs[k]
  <2>1. 1 \in 1 .. N /\ \A k \in 2 .. N : k \in 1 .. N /\ k # 1
    OBVIOUS
  <2>2. Rule(r, 1) = seqs[1] /\ \A k \in 2 .. N : Rule(r, k) = r[k - 1] \o seqs[k]
    BY <2>1, Zenon DEF Rule
  <2> QED
    BY <1>8, <2>1, <2>2, Zenon
<1> QED
  BY <1>6, <1>9, Zenon

\* One step n times.
LEMMA RepeatIs ==
  ASSUME NEW s, NEW n \in Nat
  PROVE  Repeat(<<s>>, n) = [j \in 1 .. n |-> s]
<1> DEFINE seqs == [j \in 1 .. n |-> <<s>>]
           all(i) == [j \in 1 .. i |-> s]
<1>1. Repeat(<<s>>, n) = FlattenSeq(seqs)
  BY DEF Repeat
<1>2. Len(seqs) = n /\ \A i \in 1 .. n : seqs[i] = <<s>>
  OBVIOUS
<1>3. CASE n = 0
  <2>1. FlattenSeq(seqs) = seqs
    BY <1>2, <1>3 DEF FlattenSeq
  <2>2. seqs = [j \in 1 .. n |-> s]
    BY <1>3
  <2> QED
    BY <1>1, <2>1, <2>2
<1>4. CASE n # 0
  <2> HIDE DEF seqs
  <2>1. PICK f : /\ f[1] = seqs[1] /\ \A i \in 2 .. n : f[i] = f[i - 1] \o seqs[i]
                 /\ FlattenSeq(seqs) = f[n]
    <3>1. Len(seqs) \in Nat \ {0}
      BY <1>2, <1>4
    <3> QED
      BY <1>2, <3>1, FlattenSeqIs
  <2> DEFINE S == {i \in 0 .. n : i > 0 => f[i] = all(i)}
  <2>2. 0 \in S
    OBVIOUS
  <2>3. ASSUME NEW i \in 0 .. n - 1, i \in S PROVE i + 1 \in S
    <3>1. CASE i = 0
      <4>1. f[1] = <<s>>
        BY <1>2, <1>4, <2>1
      <4>2. <<s>> = [j \in 1 .. 1 |-> s]
        OBVIOUS
      <4> QED
        BY <1>4, <3>1, <4>1, <4>2
    <3>2. CASE i # 0
      <4>1. f[i + 1] = all(i) \o <<s>>
        <5>1. i + 1 \in 2 .. n /\ (i + 1) - 1 = i /\ i + 1 \in 1 .. n
          BY <3>2
        <5>2. f[i + 1] = f[i] \o seqs[i + 1]
          BY <2>1, <5>1
        <5>3. f[i] = all(i) /\ seqs[i + 1] = <<s>>
          BY <1>2, <2>3, <3>2, <5>1
        <5> QED
          BY <5>2, <5>3, Zenon
      <4>2. all(i) \o <<s>> = all(i + 1)
        <5>1. all(i) \in Seq({s}) /\ <<s>> \in Seq({s}) /\ Len(all(i)) = i /\ i \in Nat
          OBVIOUS
        <5> QED
          BY <5>1
      <4> HIDE DEF all
      <4> QED
        BY <4>1, <4>2
    <3> QED
      BY <3>1, <3>2
  <2>4. n \in S
    <3>1. n \in 0 .. n
      OBVIOUS
    <3> HIDE DEF S
    <3> QED
      BY <2>2, <2>3, <3>1, UpTo
  <2> QED
    BY <1>1, <1>4, <2>1, <2>4
<1> QED
  BY <1>3, <1>4

\* A plan's images are sent, and then its steps are done.
LEMMA TwoBuffersIs ==
  ASSUME NEW S, NEW s \in Seq(S), NEW k
  PROVE  LET plan == TwoBuffers(k, s)
         IN /\ plan.ring = 2 /\ plan.scratch = 0 /\ plan.result = "cur"
            /\ plan.steps \in Seq(S \cup {SendStep(In, "cur")}) /\ Len(plan.steps) = Len(s) + 1
            /\ plan.steps[1] = SendStep(In, "cur")
<1> DEFINE first == <<SendStep(In, "cur")>>
           T == S \cup {SendStep(In, "cur")}
<1>1. first \in Seq(T) /\ Len(first) = 1 /\ first[1] = SendStep(In, "cur") /\ s \in Seq(T)
  OBVIOUS
<1>2. TwoBuffers(k, s).steps = first \o s
  BY DEF TwoBuffers
<1>3. /\ TwoBuffers(k, s).ring = 2 /\ TwoBuffers(k, s).scratch = 0
      /\ TwoBuffers(k, s).result = "cur"
  BY DEF TwoBuffers
<1> HIDE DEF first, T
<1>4. first \o s \in Seq(T) /\ Len(first \o s) = Len(s) + 1
  <2>1. first \o s \in Seq(T) /\ Len(first \o s) = 1 + Len(s)
    <3>1. first \in Seq(T) /\ s \in Seq(T) /\ Len(first) = 1
      BY <1>1
    <3>2. \A p, q \in Seq(T) : p \o q \in Seq(T) /\ Len(p \o q) = Len(p) + Len(q)
      BY ConcatProperties, Zenon
    <3>3. first \o s \in Seq(T) /\ Len(first \o s) = Len(first) + Len(s)
      BY <3>1, <3>2, Zenon
    <3> QED
      BY <3>1, <3>3, Zenon
  <2>2. 1 + Len(s) = Len(s) + 1
    OBVIOUS
  <2> QED
    BY <2>1, <2>2
<1>5. (first \o s)[1] = first[1]
  <2>1. \A i \in 1 .. Len(first) : (first \o s)[i] = first[i]
    <3>1. first \in Seq(T) /\ s \in Seq(T)
      BY <1>1
    <3> QED
      BY <3>1
  <2>2. 1 \in 1 .. Len(first)
    BY <1>1
  <2> QED
    BY <2>1, <2>2
<1> QED
  BY <1>1, <1>2, <1>3, <1>4, <1>5, Zenon DEF T

\* The steps of a plan on two buffers, after the copy of the chunk.
LEMMA TwoBuffersStep ==
  ASSUME NEW S, NEW s \in Seq(S), NEW k, NEW i \in 1 .. Len(s)
  PROVE  TwoBuffers(k, s).steps[i + 1] = s[i]
<1> DEFINE first == <<SendStep(In, "cur")>>
           T == S \cup {SendStep(In, "cur")}
<1>1. first \in Seq(T) /\ Len(first) = 1 /\ s \in Seq(T)
  OBVIOUS
<1>2. TwoBuffers(k, s).steps = first \o s
  BY DEF TwoBuffers
<1> HIDE DEF first, T
<1>3. (first \o s)[i + 1] = s[i]
  <2>1. \A j \in 1 .. Len(s) : (first \o s)[Len(first) + j] = s[j]
    <3>1. first \in Seq(T) /\ s \in Seq(T)
      BY <1>1
    <3> QED
      BY <3>1
  <2>2. Len(first) + i = i + 1
    BY <1>1
  <2> QED
    BY <2>1, <2>2
<1> QED
  BY <1>2, <1>3
-----------------------------------------------------------------------------
\* The buffers of a plan: the ring's, then the scratch ones.
Bufs(plan) == 0 .. (plan.ring + plan.scratch) - 1

\* There is a next buffer, and nothing was reduced so far.
Ready(plan, now) ==
  /\ plan.ring \in Nat /\ plan.ring >= 2 /\ plan.scratch \in Nat
  /\ now.cur \in 0 .. plan.ring - 1 /\ DOMAIN now.buffers = Bufs(plan) /\ now.scalars = <<>>

\* A buffer holds that term, and looks no further than that; so does the current one.
Means(value, term, reach) ==
  value.known = TRUE /\ value.term = term /\ \A x \in value.reaches : x \in 0 .. reach
\* What the current buffer means.
Current(plan, now, term, reach) ==
  Ready(plan, now) /\ reach \in Nat /\ Means(now.buffers[now.cur], term, reach)

\* Where the roles are.
LEMMA RolesAre ==
  ASSUME NEW plan, NEW now, Ready(plan, now)
  PROVE  /\ RoleBuffer(plan, now.cur, "cur") = now.cur
         /\ RoleBuffer(plan, now.cur, "next") = (now.cur + 1) % plan.ring
         /\ RoleBuffer(plan, now.cur, "third") = (now.cur + 2) % plan.ring
         /\ RoleBuffer(plan, now.cur, "scratch") = plan.ring
         /\ (now.cur + 1) % plan.ring \in 0 .. plan.ring - 1
         /\ (now.cur + 2) % plan.ring \in 0 .. plan.ring - 1
         /\ (now.cur + 1) % plan.ring # now.cur
         /\ 0 .. plan.ring - 1 \subseteq Bufs(plan)
         /\ plan.ring >= 3 => /\ (now.cur + 2) % plan.ring # now.cur
                              /\ (now.cur + 2) % plan.ring # (now.cur + 1) % plan.ring
<1> DEFINE c == now.cur
           N == plan.ring
<1>1. N \in Nat /\ N >= 2 /\ c \in 0 .. N - 1 /\ plan.scratch \in Nat
  BY DEF Ready
<1>2. /\ RoleBuffer(plan, c, "cur") = c % N /\ RoleBuffer(plan, c, "next") = (c + 1) % N
      /\ RoleBuffer(plan, c, "third") = (c + 2) % N /\ RoleBuffer(plan, c, "scratch") = N
  <2>1. c + 0 = c
    BY <1>1
  <2> QED
    BY <2>1 DEF RoleBuffer
<1>3. 0 .. N - 1 \subseteq Bufs(plan)
  BY <1>1 DEF Bufs
<1> HIDE DEF c, N
<1>4. c % N = c /\ (c + 1) % N \in 0 .. N - 1 /\ (c + 2) % N \in 0 .. N - 1
  BY <1>1
<1>5. (c + 1) % N # c
  BY <1>1
<1>6. N >= 3 => (c + 2) % N # c /\ (c + 2) % N # (c + 1) % N
  <2> SUFFICES ASSUME N >= 3 PROVE (c + 2) % N # c /\ (c + 2) % N # (c + 1) % N
    OBVIOUS
  <2>1. CASE c + 2 < N
    <3>1. (c + 2) % N = c + 2 /\ (c + 1) % N = c + 1
      BY <1>1, <2>1
    <3> QED
      BY <1>1, <3>1
  <2>2. CASE c + 2 = N
    <3>1. (c + 2) % N = 0 /\ (c + 1) % N = c + 1
      BY <1>1, <2>2
    <3> QED
      BY <1>1, <2>2, <3>1
  <2>3. CASE c + 2 = N + 1
    <3>1. (c + 2) % N = 1 /\ (c + 1) % N = 0
      <4>1. c + 1 = N
        BY <1>1, <2>3
      <4>2. (N + 1) % N = 1 /\ N % N = 0
        BY <1>1
      <4> QED
        BY <2>3, <4>1, <4>2
    <3> QED
      BY <1>1, <2>3, <3>1
  <2> QED
    BY <1>1, <2>1, <2>2, <2>3
<1> QED
  BY <1>2, <1>3, <1>4, <1>5, <1>6 DEF c, N

\* What a step leaves.
LEMMA AfterIs ==
  ASSUME NEW plan, NEW length, NEW now, NEW s, s.op \in {"send", "clear", "launch"},
         NEW c, c = IF s.op = "launch" /\ s.increment THEN (now.cur + 1) % plan.ring ELSE now.cur
  PROVE  LET then == After(plan, length, now, s)
             into == RoleBuffer(plan, now.cur, s.into)
         IN /\ then.cur = c /\ then.scalars = now.scalars
            /\ DOMAIN then.buffers = DOMAIN now.buffers
            /\ into \in DOMAIN now.buffers => then.buffers[into] = Output(plan, length, now, s)
            /\ \A b \in DOMAIN now.buffers : b # into => then.buffers[b] = now.buffers[b]
<1> DEFINE into == RoleBuffer(plan, now.cur, s.into)
           then == After(plan, length, now, s)
<1>1. Written(s) = {s.into} /\ s.op # "reduce"
  BY DEF Written
<1>2. \A b : b \in {RoleBuffer(plan, now.cur, role) : role \in Written(s)} <=> b = into
  BY <1>1
<1>3. then.buffers = [b \in DOMAIN now.buffers |->
        IF b \in {RoleBuffer(plan, now.cur, role) : role \in Written(s)}
        THEN Output(plan, length, now, s) ELSE now.buffers[b]]
  BY DEF After
<1>4. then.cur = c /\ then.scalars = now.scalars
  BY <1>1 DEF After
<1> HIDE DEF then, into
<1>5. /\ DOMAIN then.buffers = DOMAIN now.buffers
      /\ \A b \in DOMAIN now.buffers : then.buffers[b] =
           IF b = into THEN Output(plan, length, now, s) ELSE now.buffers[b]
  BY <1>2, <1>3, Zenon
<1> QED
  BY <1>4, <1>5, Zenon DEF then, into

\* A copy of the image into a buffer, between two steps of a plan.
LEMMA SendIs ==
  ASSUME NEW plan, NEW length, NEW now, NEW term, NEW role, Ready(plan, now),
         RoleBuffer(plan, now.cur, role) \in Bufs(plan)
  PROVE  LET then == After(plan, length, now, SendStep(term, role))
             into == RoleBuffer(plan, now.cur, role)
         IN /\ Ready(plan, then) /\ then.cur = now.cur
            /\ Means(then.buffers[into], term, 0)
            /\ \A b \in Bufs(plan) \ {into} : then.buffers[b] = now.buffers[b]
<1> DEFINE s == SendStep(term, role)
           then == After(plan, length, now, s)
<1>1. s.op = "send" /\ s.into = role /\ s.term = term
  BY DEF SendStep
<1> HIDE DEF s
<1>2. Means(Output(plan, length, now, s), term, 0)
  <2>1. Output(plan, length, now, s) = Holding(term, {0})
    BY <1>1 DEF Output
  <2> QED
    BY <2>1 DEF Holding, Means
<1>3. /\ then.cur = now.cur /\ then.scalars = now.scalars
      /\ DOMAIN then.buffers = DOMAIN now.buffers
      /\ RoleBuffer(plan, now.cur, role) \in DOMAIN now.buffers =>
           then.buffers[RoleBuffer(plan, now.cur, role)] = Output(plan, length, now, s)
      /\ \A b \in DOMAIN now.buffers : b # RoleBuffer(plan, now.cur, role) =>
           then.buffers[b] = now.buffers[b]
  BY <1>1, AfterIs
<1> HIDE DEF then
<1>4. DOMAIN now.buffers = Bufs(plan)
  BY DEF Ready
<1>5. Ready(plan, then)
  BY <1>3, <1>4 DEF Ready
<1> QED
  BY <1>2, <1>3, <1>4, <1>5, Zenon DEF then, s

\* A clear of a buffer, between two steps of a plan.
LEMMA ClearIs ==
  ASSUME NEW plan, NEW length, NEW now, NEW role, Ready(plan, now),
         RoleBuffer(plan, now.cur, role) \in Bufs(plan)
  PROVE  LET then == After(plan, length, now, ClearStep(role))
             into == RoleBuffer(plan, now.cur, role)
         IN /\ Ready(plan, then) /\ then.cur = now.cur
            /\ Means(then.buffers[into], <<"zero">>, 0)
<1> DEFINE s == ClearStep(role)
           then == After(plan, length, now, s)
<1>1. s.op = "clear" /\ s.into = role
  BY DEF ClearStep
<1> HIDE DEF s
<1>2. Means(Output(plan, length, now, s), <<"zero">>, 0)
  <2>1. Output(plan, length, now, s) = Holding(<<"zero">>, {0})
    BY <1>1 DEF Output
  <2> QED
    BY <2>1 DEF Holding, Means
<1>3. /\ then.cur = now.cur /\ then.scalars = now.scalars
      /\ DOMAIN then.buffers = DOMAIN now.buffers
      /\ RoleBuffer(plan, now.cur, role) \in DOMAIN now.buffers =>
           then.buffers[RoleBuffer(plan, now.cur, role)] = Output(plan, length, now, s)
  BY <1>1, AfterIs
<1> HIDE DEF then
<1>4. DOMAIN now.buffers = Bufs(plan)
  BY DEF Ready
<1>5. Ready(plan, then)
  BY <1>3, <1>4 DEF Ready
<1> QED
  BY <1>2, <1>3, <1>4, <1>5, Zenon DEF then, s

\* Sequences of two and of three.
LEMMA JoinedTwo ==
  ASSUME NEW a, NEW b
  PROVE  <<a>> \o <<b>> = <<a, b>>
<1> DEFINE u == <<a>>
           v == <<b>>
<1>1. /\ u \in Seq({a, b}) /\ v \in Seq({a, b}) /\ Len(u) = 1 /\ Len(v) = 1
      /\ u[1] = a /\ v[1] = b
  OBVIOUS
<1> HIDE DEF u, v
<1>2. u \o v = [i \in 1 .. Len(u) + Len(v) |-> IF i <= Len(u) THEN u[i] ELSE v[i - Len(u)]]
  BY <1>1, JoinedIs
<1>3. u \o v = [i \in 1 .. 2 |-> IF i <= 1 THEN a ELSE b]
  BY <1>1, <1>2
<1>4. [i \in 1 .. 2 |-> IF i <= 1 THEN a ELSE b] = <<a, b>>
  OBVIOUS
<1> QED
  BY <1>3, <1>4 DEF u, v

\* One step before two.
LEMMA JoinedThree ==
  ASSUME NEW a, NEW b, NEW c
  PROVE  <<a>> \o <<b, c>> = <<a, b, c>>
<1> DEFINE u == <<a>>
           v == <<b, c>>
<1>1. /\ u \in Seq({a, b, c}) /\ v \in Seq({a, b, c}) /\ Len(u) = 1 /\ Len(v) = 2
      /\ u[1] = a /\ v[1] = b /\ v[2] = c
  OBVIOUS
<1> HIDE DEF u, v
<1>2. u \o v = [i \in 1 .. Len(u) + Len(v) |-> IF i <= Len(u) THEN u[i] ELSE v[i - Len(u)]]
  BY <1>1, JoinedIs
<1>3. u \o v = [i \in 1 .. 3 |-> IF i <= 1 THEN a ELSE IF i <= 2 THEN b ELSE c]
  BY <1>1, <1>2
<1>4. [i \in 1 .. 3 |-> IF i <= 1 THEN a ELSE IF i <= 2 THEN b ELSE c] = <<a, b, c>>
  OBVIOUS
<1> QED
  BY <1>3, <1>4 DEF u, v

\* A launch's value: what it computes of the terms it reads, no further than any of them.
LEMMA ComputedHolds ==
  ASSUME NEW plan, NEW length, NEW now, NEW s, NEW reach,
         \A r \in DOMAIN s.reads : \A x \in Held(plan, now, s.reads[r].role).reaches :
           x + s.reads[r].extent \div 2 \in 0 .. reach,
         now.scalars # <<>> => length \in 0 .. reach
  PROVE  Means(Computed(plan, length, now, s),
           <<s.fn>> \o [r \in DOMAIN s.reads |-> Held(plan, now, s.reads[r].role).term]
             \o now.scalars, reach)
<1> DEFINE c == Computed(plan, length, now, s)
<1>1. /\ c.known = TRUE
      /\ c.term = <<s.fn>> \o [r \in DOMAIN s.reads |-> Held(plan, now, s.reads[r].role).term]
                    \o now.scalars
  BY DEF Computed, Holding
<1>2. \A y : y \in c.reaches <=> Looks(plan, length, now, s, y)
  BY ReachesAre
<1> HIDE DEF c
<1>3. \A y \in c.reaches : y \in 0 .. reach
  <2> SUFFICES ASSUME NEW y \in c.reaches PROVE y \in 0 .. reach
    OBVIOUS
  <2>1. Looks(plan, length, now, s, y)
    BY <1>2
  <2> QED
    BY <2>1, Zenon DEF Looks
<1> QED
  BY <1>1, <1>3, Zenon DEF Means, c

\* A launch that reads one buffer, and one that reads two, with nothing reduced.
LEMMA ComputedOfOne ==
  ASSUME NEW plan, NEW length, NEW now, NEW fn, NEW role, NEW k \in Nat, NEW into, NEW increment,
         NEW term, NEW reach \in Nat,
         now.scalars = <<>>, Means(Held(plan, now, role), term, reach)
  PROVE  Means(Computed(plan, length, now, LaunchStep(fn, <<Near(role, k)>>, into, increment)),
               <<fn, term>>, reach + k \div 2)
<1> DEFINE s == LaunchStep(fn, <<Near(role, k)>>, into, increment)
           found == Held(plan, now, role)
<1>1. /\ s.fn = fn /\ DOMAIN s.reads = 1 .. 1 /\ 1 \in DOMAIN s.reads
      /\ s.reads[1].role = role /\ s.reads[1].extent = k
  BY DEF LaunchStep, Near
<1> HIDE DEF s
<1>2. ASSUME NEW r \in DOMAIN s.reads PROVE s.reads[r].role = role /\ s.reads[r].extent = k
  <2>1. r = 1
    BY <1>1
  <2> QED
    BY <1>1, <2>1
<1>3. \A x \in found.reaches : x + k \div 2 \in 0 .. reach + k \div 2
  BY DEF Means
<1>4. found.term = term
  BY DEF Means
<1>5. \A r \in DOMAIN s.reads : \A x \in Held(plan, now, s.reads[r].role).reaches :
        x + s.reads[r].extent \div 2 \in 0 .. reach + k \div 2
  BY <1>2, <1>3
<1> DEFINE t == <<s.fn>> \o [r \in DOMAIN s.reads |-> Held(plan, now, s.reads[r].role).term]
                  \o now.scalars
<1>6. Means(Computed(plan, length, now, s), t, reach + k \div 2)
  BY <1>5, ComputedHolds
<1>7. t = <<fn, term>>
  <2>1. [r \in DOMAIN s.reads |-> Held(plan, now, s.reads[r].role).term] = [r \in 1 .. 1 |-> term]
    BY <1>1, <1>2, <1>4
  <2>2. [r \in 1 .. 1 |-> term] = <<term>>
    OBVIOUS
  <2>3. <<fn>> \o <<term>> = <<fn, term>>
    BY JoinedTwo
  <2>4. <<fn, term>> \o <<>> = <<fn, term>>
    OBVIOUS
  <2> QED
    BY <1>1, <2>1, <2>2, <2>3, <2>4
<1> QED
  BY <1>6, <1>7 DEF s

\* A launch that reads two buffers at the voxel looks as far as the further of them.
LEMMA ComputedOfTwo ==
  ASSUME NEW plan, NEW length, NEW now, NEW fn, NEW role, NEW other, NEW into, NEW increment,
         NEW term, NEW with, NEW reach \in Nat, NEW further \in Nat, reach <= further,
         now.scalars = <<>>,
         \/ /\ Means(Held(plan, now, role), term, reach)
            /\ Means(Held(plan, now, other), with, further)
         \/ /\ Means(Held(plan, now, role), term, further)
            /\ Means(Held(plan, now, other), with, reach)
  PROVE  Means(Computed(plan, length, now,
                        LaunchStep(fn, <<AtVoxel(role), AtVoxel(other)>>, into, increment)),
               <<fn, term, with>>, further)
<1> DEFINE s == LaunchStep(fn, <<AtVoxel(role), AtVoxel(other)>>, into, increment)
           found == Held(plan, now, role)
           beside == Held(plan, now, other)
<1>1. /\ s.fn = fn /\ DOMAIN s.reads = 1 .. 2
      /\ s.reads[1].role = role /\ s.reads[1].extent = 1
      /\ s.reads[2].role = other /\ s.reads[2].extent = 1
  BY DEF LaunchStep, AtVoxel, Near
<1>2. (\A x \in found.reaches : x \in 0 .. further) /\ \A x \in beside.reaches : x \in 0 .. further
  BY DEF Means
<1>3. found.term = term /\ beside.term = with
  BY DEF Means
<1> HIDE DEF s
<1>4. ASSUME NEW r \in DOMAIN s.reads, NEW x \in Held(plan, now, s.reads[r].role).reaches
      PROVE  x + s.reads[r].extent \div 2 \in 0 .. further
  <2>1. r = 1 \/ r = 2
    BY <1>1
  <2>2. s.reads[r].extent = 1 /\ x \in 0 .. further
    BY <1>1, <1>2, <2>1
  <2> QED
    BY <2>2
<1> DEFINE t == <<s.fn>> \o [r \in DOMAIN s.reads |-> Held(plan, now, s.reads[r].role).term]
                  \o now.scalars
<1>5. Means(Computed(plan, length, now, s), t, further)
  BY <1>4, ComputedHolds
<1>6. t = <<fn, term, with>>
  <2>1. [r \in DOMAIN s.reads |-> Held(plan, now, s.reads[r].role).term]
          = [r \in 1 .. 2 |-> IF r = 1 THEN term ELSE with]
    <3>1. ASSUME NEW r \in 1 .. 2
          PROVE  Held(plan, now, s.reads[r].role).term = IF r = 1 THEN term ELSE with
      <4>1. r = 1 \/ r = 2
        OBVIOUS
      <4> QED
        BY <1>1, <1>3, <4>1
    <3> QED
      BY <1>1, <3>1
  <2>2. [r \in 1 .. 2 |-> IF r = 1 THEN term ELSE with] = <<term, with>>
    OBVIOUS
  <2>3. <<fn>> \o <<term, with>> = <<fn, term, with>>
    BY JoinedThree
  <2>4. <<fn, term, with>> \o <<>> = <<fn, term, with>>
    OBVIOUS
  <2> QED
    BY <1>1, <2>1, <2>2, <2>3, <2>4
<1> QED
  BY <1>5, <1>6 DEF s

\* kernel<<<...>>>(*getCurBuffer(), *getNextBuffer(), ...); incrementBuffer();
LEMMA StencilIs ==
  ASSUME NEW plan, NEW length, NEW now, NEW fn, NEW k \in Nat, NEW term, NEW reach,
         Current(plan, now, term, reach)
  PROVE  LET then == After(plan, length, now, Stencil(fn, k))
         IN /\ Current(plan, then, <<fn, term>>, reach + k \div 2)
            /\ \A b \in Bufs(plan) : b >= plan.ring => then.buffers[b] = now.buffers[b]
<1> DEFINE s == Stencil(fn, k)
           then == After(plan, length, now, s)
           c == (now.cur + 1) % plan.ring
<1>1. s = LaunchStep(fn, <<Near("cur", k)>>, "next", TRUE)
  BY DEF Stencil
<1>2. s.op = "launch" /\ s.increment = TRUE /\ s.into = "next"
  BY <1>1 DEF LaunchStep
<1>3. Ready(plan, now) /\ reach \in Nat /\ Means(now.buffers[now.cur], term, reach)
  BY DEF Current
<1>4. /\ RoleBuffer(plan, now.cur, "cur") = now.cur /\ RoleBuffer(plan, now.cur, "next") = c
      /\ c \in 0 .. plan.ring - 1 /\ c \in Bufs(plan)
  BY <1>3, RolesAre
<1>5. Means(Held(plan, now, "cur"), term, reach) /\ now.scalars = <<>>
  BY <1>3, <1>4 DEF Held, Ready
<1>6. Means(Computed(plan, length, now, s), <<fn, term>>, reach + k \div 2)
  BY <1>1, <1>3, <1>5, ComputedOfOne
<1> HIDE DEF s
<1>7. Output(plan, length, now, s) = Computed(plan, length, now, s)
  BY <1>2 DEF Output
<1> HIDE DEF c
<1>8. c = IF s.op = "launch" /\ s.increment THEN (now.cur + 1) % plan.ring ELSE now.cur
  BY <1>2 DEF c
<1>9. /\ then.cur = c /\ then.scalars = now.scalars /\ DOMAIN then.buffers = DOMAIN now.buffers
      /\ c \in DOMAIN now.buffers => then.buffers[c] = Output(plan, length, now, s)
      /\ \A b \in DOMAIN now.buffers : b # c => then.buffers[b] = now.buffers[b]
  <2>1. /\ then.cur = c /\ then.scalars = now.scalars /\ DOMAIN then.buffers = DOMAIN now.buffers
        /\ RoleBuffer(plan, now.cur, s.into) \in DOMAIN now.buffers =>
             then.buffers[RoleBuffer(plan, now.cur, s.into)] = Output(plan, length, now, s)
        /\ \A b \in DOMAIN now.buffers : b # RoleBuffer(plan, now.cur, s.into) =>
             then.buffers[b] = now.buffers[b]
    <3>1. s.op \in {"send", "clear", "launch"}
      BY <1>2
    <3> QED
      BY <1>8, <3>1, AfterIs
  <2>2. RoleBuffer(plan, now.cur, s.into) = c
    BY <1>2, <1>4
  <2> QED
    BY <2>1, <2>2
<1> HIDE DEF then
<1>10. /\ DOMAIN now.buffers = Bufs(plan) /\ plan.ring \in Nat /\ plan.ring >= 2
       /\ plan.scratch \in Nat
  BY <1>3 DEF Ready
<1>11. Ready(plan, then) /\ Means(then.buffers[then.cur], <<fn, term>>, reach + k \div 2)
  BY <1>3, <1>4, <1>6, <1>7, <1>9, <1>10 DEF Ready
<1>12. reach + k \div 2 \in Nat
  BY <1>3
<1>13. \A b \in Bufs(plan) : b >= plan.ring => b # c
  BY <1>4, <1>10 DEF Bufs
<1> QED
  BY <1>9, <1>10, <1>11, <1>12, <1>13 DEF Current, then, s

\* A launch that puts its value aside: the current buffer stays.
LEMMA AsideIs ==
  ASSUME NEW plan, NEW length, NEW now, NEW s, s.op = "launch", ~s.increment,
         Ready(plan, now), RoleBuffer(plan, now.cur, s.into) \in Bufs(plan)
  PROVE  LET then == After(plan, length, now, s)
             into == RoleBuffer(plan, now.cur, s.into)
         IN /\ Ready(plan, then) /\ then.cur = now.cur
            /\ then.buffers[into] = Computed(plan, length, now, s)
            /\ \A b \in Bufs(plan) \ {into} : then.buffers[b] = now.buffers[b]
<1> DEFINE then == After(plan, length, now, s)
           into == RoleBuffer(plan, now.cur, s.into)
           c == now.cur
<1>1. c = IF s.op = "launch" /\ s.increment THEN (now.cur + 1) % plan.ring ELSE now.cur
  OBVIOUS
<1> HIDE DEF c
<1>2. /\ then.cur = c /\ then.scalars = now.scalars /\ DOMAIN then.buffers = DOMAIN now.buffers
      /\ into \in DOMAIN now.buffers => then.buffers[into] = Output(plan, length, now, s)
      /\ \A b \in DOMAIN now.buffers : b # into => then.buffers[b] = now.buffers[b]
  <2>1. s.op \in {"send", "clear", "launch"}
    OBVIOUS
  <2> QED
    BY <1>1, <2>1, AfterIs
<1>3. Output(plan, length, now, s) = Computed(plan, length, now, s)
  BY DEF Output
<1>4. DOMAIN now.buffers = Bufs(plan)
  BY DEF Ready
<1> HIDE DEF then, into
<1>5. Ready(plan, then)
  BY <1>2, <1>4 DEF Ready, c
<1>6. into \in Bufs(plan)
  BY DEF into
<1> QED
  BY <1>2, <1>3, <1>4, <1>5, <1>6, Zenon DEF then, into, c
-----------------------------------------------------------------------------
\* Steps that send the image, and compute of one buffer into the next: c[k] is step k, its
\* value, and how far it looks.
Chain(plan, first, last, c) ==
  /\ plan.steps[first] = SendStep(In, "cur") /\ c[first].term = In /\ c[first].reach = 0
  /\ \A k \in first + 1 .. last :
       /\ plan.steps[k] = Stencil(c[k].fn, c[k].extent)
       /\ c[k].extent \in Nat /\ c[k].extent % 2 = 1
       /\ c[k].term = <<c[k].fn, c[k - 1].term>>
       /\ c[k].reach = c[k - 1].reach + c[k].extent \div 2

\* A plan starts with its buffers in place.
LEMMA FirstIsReady ==
  ASSUME NEW plan, NEW length, plan.ring \in Nat, plan.ring >= 2, plan.scratch \in Nat,
         Len(plan.steps) \in Nat, NEW base \in 0 .. plan.ring - 1
  PROVE  Ready(plan, StepByStep(plan, length, base)[0])
<1> DEFINE now == StepByStep(plan, length, base)[0]
<1>1. now = Before(plan, base)
  BY StepByStepIs
<1>2. now.cur = base /\ now.scalars = <<>>
  BY <1>1 DEF Before
<1>3. now.buffers = [b \in 0 .. (plan.ring + plan.scratch) - 1 |-> Nothing]
  BY <1>1 DEF Before
<1>4. DOMAIN now.buffers = Bufs(plan)
  BY <1>3 DEF Bufs
<1> HIDE DEF now
<1>5. Ready(plan, now)
  BY <1>2, <1>4 DEF Ready
<1> QED
  BY <1>5 DEF now

\* The stencils of a chain leave what the chain says in the current buffer.
LEMMA ChainRuns ==
  ASSUME NEW plan, Len(plan.steps) \in Nat, NEW length, NEW base,
         NEW first \in 1 .. Len(plan.steps), NEW last \in first .. Len(plan.steps), NEW c,
         Chain(plan, first, last, c), Ready(plan, StepByStep(plan, length, base)[first - 1])
  PROVE  LET after == StepByStep(plan, length, base)
         IN \A k \in first .. last :
              /\ Current(plan, after[k], c[k].term, c[k].reach)
              /\ \A b \in Bufs(plan) : b >= plan.ring =>
                   after[k].buffers[b] = after[first - 1].buffers[b]
<1> DEFINE after == StepByStep(plan, length, base)
           Is(k) == /\ Current(plan, after[k], c[k].term, c[k].reach)
                    /\ \A b \in Bufs(plan) : b >= plan.ring =>
                         after[k].buffers[b] = after[first - 1].buffers[b]
           S == {k \in 0 .. last - first : Is(first + k)}
<1>1. \A k \in 1 .. Len(plan.steps) : after[k] = After(plan, length, after[k - 1], plan.steps[k])
  BY StepByStepIs
<1> HIDE DEF after
<1>2. 0 \in S
  <2> DEFINE now == after[first - 1]
  <2>1. /\ Ready(plan, now) /\ after[first] = After(plan, length, now, SendStep(In, "cur"))
        /\ c[first].term = In /\ c[first].reach = 0
    BY <1>1 DEF Chain, after
  <2> HIDE DEF now
  <2>2. /\ RoleBuffer(plan, now.cur, "cur") = now.cur /\ now.cur \in 0 .. plan.ring - 1
        /\ now.cur \in Bufs(plan)
    <3>1. now.cur \in 0 .. plan.ring - 1
      BY <2>1 DEF Ready
    <3> QED
      BY <2>1, <3>1, RolesAre
  <2>3. LET then == After(plan, length, now, SendStep(In, "cur"))
        IN /\ Ready(plan, then) /\ then.cur = now.cur /\ Means(then.buffers[now.cur], In, 0)
           /\ \A b \in Bufs(plan) \ {now.cur} : then.buffers[b] = now.buffers[b]
    <3>1. RoleBuffer(plan, now.cur, "cur") \in Bufs(plan)
      BY <2>2
    <3>2. LET then == After(plan, length, now, SendStep(In, "cur"))
              into == RoleBuffer(plan, now.cur, "cur")
          IN /\ Ready(plan, then) /\ then.cur = now.cur /\ Means(then.buffers[into], In, 0)
             /\ \A b \in Bufs(plan) \ {into} : then.buffers[b] = now.buffers[b]
      BY <2>1, <3>1, SendIs
    <3> QED
      BY <2>2, <3>2
  <2>4. Current(plan, after[first], c[first].term, c[first].reach)
    BY <2>1, <2>3 DEF Current
  <2>5. \A b \in Bufs(plan) : b >= plan.ring => after[first].buffers[b] = now.buffers[b]
    <3>1. \A b \in Bufs(plan) : b >= plan.ring => b # now.cur
      BY <2>1, <2>2 DEF Ready, Bufs
    <3> QED
      BY <2>1, <2>3, <3>1
  <2>6. Is(first)
    BY <2>4, <2>5 DEF now
  <2> HIDE DEF Is
  <2> QED
    BY <2>6
<1>3. ASSUME NEW n \in 0 .. (last - first) - 1, n \in S PROVE n + 1 \in S
  <2> DEFINE k == first + (n + 1)
  <2>1. k \in first + 1 .. last /\ k \in 1 .. Len(plan.steps) /\ k - 1 = first + n
    OBVIOUS
  <2>2. Is(k - 1)
    <3> HIDE DEF Is
    <3> QED
      BY <1>3, <2>1
  <2> HIDE DEF k
  <2>3. /\ after[k] = After(plan, length, after[k - 1], Stencil(c[k].fn, c[k].extent))
        /\ c[k].extent \in Nat /\ c[k].term = <<c[k].fn, c[k - 1].term>>
        /\ c[k].reach = c[k - 1].reach + c[k].extent \div 2
    BY <1>1, <2>1, Zenon DEF Chain
  <2>4. /\ Current(plan, after[k], <<c[k].fn, c[k - 1].term>>, c[k - 1].reach + c[k].extent \div 2)
        /\ \A b \in Bufs(plan) : b >= plan.ring => after[k].buffers[b] = after[k - 1].buffers[b]
    BY <2>2, <2>3, StencilIs
  <2>5. Is(k)
    BY <2>2, <2>3, <2>4
  <2> HIDE DEF Is
  <2> QED
    BY <2>5 DEF k
<1>4. \A n \in 0 .. last - first : n \in S
  <2>1. last - first \in Nat
    OBVIOUS
  <2> HIDE DEF S
  <2> QED
    BY <1>2, <1>3, <2>1, UpTo
<1>5. ASSUME NEW k \in first .. last PROVE Is(k)
  <2>1. k - first \in 0 .. last - first /\ first + (k - first) = k
    OBVIOUS
  <2> HIDE DEF Is
  <2> QED
    BY <1>4, <2>1
<1> QED
  BY <1>5 DEF after

\* The two facts of KeepsPromise, for one buffer that the first step finds current.
LEMMA PromiseKept ==
  ASSUME NEW plan, NEW length, NEW promise, DOMAIN plan.steps = 1 .. Len(plan.steps),
         promise.reach \in Nat,
         \A base \in 0 .. plan.ring - 1 :
           /\ \A k \in 1 .. Len(plan.steps) : \A role \in Used(plan.steps[k]) :
                Held(plan, StepByStep(plan, length, base)[k - 1], role).known = TRUE
           /\ Means(Held(plan, StepByStep(plan, length, base)[Len(plan.steps)], plan.result),
                    promise.term, promise.reach)
  PROVE  KeepsPromise(plan, length, promise)
<1> SUFFICES ASSUME NEW base \in 0 .. plan.ring - 1
             PROVE  LET after == StepByStep(plan, length, base)
                        result == Held(plan, after[Len(plan.steps)], plan.result)
                    IN /\ \A k \in DOMAIN plan.steps : \A role \in Used(plan.steps[k]) :
                            Held(plan, after[k - 1], role).known
                       /\ result.known /\ result.term = promise.term
                       /\ \A x \in result.reaches : x <= promise.reach
  BY DEF KeepsPromise
<1> DEFINE after == StepByStep(plan, length, base)
           result == Held(plan, after[Len(plan.steps)], plan.result)
<1>1. ASSUME NEW k \in DOMAIN plan.steps, NEW role \in Used(plan.steps[k])
      PROVE  Held(plan, after[k - 1], role).known
  <2>1. k \in 1 .. Len(plan.steps)
    OBVIOUS
  <2>2. Held(plan, after[k - 1], role).known = TRUE
    BY <2>1
  <2> QED
    BY <2>2
<1>2. Means(result, promise.term, promise.reach)
  OBVIOUS
<1> HIDE DEF result, after
<1>3. result.known /\ result.term = promise.term /\ \A x \in result.reaches : x <= promise.reach
  <2>1. result.known = TRUE /\ result.term = promise.term
    BY <1>2 DEF Means
  <2>2. \A x \in result.reaches : x \in 0 .. promise.reach
    BY <1>2 DEF Means
  <2>3. \A x \in 0 .. promise.reach : x <= promise.reach
    OBVIOUS
  <2> QED
    BY <2>1, <2>2, <2>3
<1> QED
  BY <1>1, <1>3 DEF after, result

\* A plan keeps a promise.
Keeps(plan, length, promise) == WellFormed(plan) /\ KeepsPromise(plan, length, promise)

\* What a step of a chain is, and what it needs.
LEMMA SendForm ==
  ASSUME NEW plan, NEW term, NEW role \in Roles(plan)
  PROVE  LET s == SendStep(term, role)
         IN s.op = "send" /\ Written(s) = {role} /\ Used(s) = {}
  BY DEF SendStep, Written, Used

\* What a stencil reads, what an element-wise launch reads, and that launch.
OneRead(role, k) == <<Near(role, k)>>
TwoReads(role, other) == <<AtVoxel(role), AtVoxel(other)>>
Aside(fn, role, other, into) == LaunchStep(fn, <<AtVoxel(role), AtVoxel(other)>>, into, FALSE)

\* A step that is well formed, of a plan that has these roles.
StepFormed(plan, s) ==
  /\ s.op \in {"send", "clear", "reduce", "launch"}
  /\ Written(s) \cup Used(s) \subseteq Roles(plan)
  /\ s.op = "launch" =>
       /\ s.reads \in Seq(Range(s.reads)) \ {<<>>}
       /\ s.increment \in BOOLEAN
       /\ \A r \in DOMAIN s.reads : s.reads[r].extent \in Nat /\ s.reads[r].extent % 2 = 1

\* A launch that reads one buffer is well formed.
LEMMA OneReadForm ==
  ASSUME NEW plan, NEW role \in Roles(plan), NEW k \in Nat, k % 2 = 1,
         NEW s, s.op = "launch", s.reads = OneRead(role, k), s.into \in Roles(plan),
         s.increment \in BOOLEAN
  PROVE  StepFormed(plan, s) /\ Used(s) = {role}
<1> DEFINE reads == <<Near(role, k)>>
<1>1. s.reads = reads
  BY DEF OneRead
<1>2. /\ DOMAIN reads = 1 .. 1 /\ reads[1].role = role /\ reads[1].extent = k
      /\ reads \in Seq({Near(role, k)}) /\ reads # <<>>
  BY DEF Near
<1> HIDE DEF reads
<1>3. reads \in Seq(Range(reads))
  BY <1>2, SeqOfRange
<1>4. \A r \in DOMAIN reads : r = 1
  BY <1>2
<1>5. Used(s) = {role}
  <2>1. Used(s) = {reads[r].role : r \in DOMAIN reads}
    BY <1>1 DEF Used
  <2>2. 1 \in DOMAIN reads
    BY <1>2
  <2> QED
    BY <1>2, <1>4, <2>1, <2>2
<1>6. Written(s) = {s.into}
  BY DEF Written
<1>7. \A r \in DOMAIN reads : reads[r].extent \in Nat /\ reads[r].extent % 2 = 1
  BY <1>2, <1>4
<1>8. Written(s) \cup Used(s) \subseteq Roles(plan)
  BY <1>5, <1>6
<1>9. StepFormed(plan, s)
  BY <1>1, <1>2, <1>3, <1>7, <1>8 DEF StepFormed
<1> QED
  BY <1>5, <1>9

\* A launch that reads two buffers is well formed.
LEMMA TwoReadsForm ==
  ASSUME NEW plan, NEW fn, NEW role \in Roles(plan), NEW other \in Roles(plan),
         NEW s, s.op = "launch", s.reads = TwoReads(role, other), s.into \in Roles(plan),
         s.increment \in BOOLEAN
  PROVE  StepFormed(plan, s) /\ Used(s) = {role, other}
<1> DEFINE reads == <<AtVoxel(role), AtVoxel(other)>>
<1>1. s.reads = reads
  BY DEF TwoReads
<1>2. /\ DOMAIN reads = 1 .. 2 /\ reads \in Seq({AtVoxel(role), AtVoxel(other)}) /\ reads # <<>>
      /\ reads[1].role = role /\ reads[1].extent = 1
      /\ reads[2].role = other /\ reads[2].extent = 1
  BY DEF AtVoxel, Near
<1> HIDE DEF reads
<1>3. reads \in Seq(Range(reads))
  BY <1>2, SeqOfRange
<1>4. \A r : r \in DOMAIN reads <=> r = 1 \/ r = 2
  BY <1>2
<1>5. Used(s) = {role, other}
  <2>1. Used(s) = {reads[r].role : r \in DOMAIN reads}
    BY <1>1 DEF Used
  <2> QED
    BY <1>2, <1>4, <2>1
<1>6. Written(s) = {s.into}
  BY DEF Written
<1>7. \A r \in DOMAIN reads : reads[r].extent \in Nat /\ reads[r].extent % 2 = 1
  <2>1. 1 \in Nat /\ 1 % 2 = 1
    OBVIOUS
  <2> QED
    BY <1>2, <1>4, <2>1
<1>8. Written(s) \cup Used(s) \subseteq Roles(plan)
  BY <1>5, <1>6
<1>9. StepFormed(plan, s)
  BY <1>1, <1>2, <1>3, <1>7, <1>8 DEF StepFormed
<1> QED
  BY <1>5, <1>9

\* A copy of the image is well formed.
LEMMA SendFormed ==
  ASSUME NEW plan, NEW term, NEW role \in Roles(plan)
  PROVE  StepFormed(plan, SendStep(term, role))
<1> DEFINE s == SendStep(term, role)
<1>1. s.op = "send" /\ Written(s) = {role} /\ Used(s) = {}
  BY SendForm
<1> HIDE DEF s
<1>2. StepFormed(plan, s)
  BY <1>1 DEF StepFormed
<1> QED
  BY <1>2 DEF s

\* A stencil of an odd extent is well formed.
LEMMA StencilFormed ==
  ASSUME NEW plan, NEW fn, NEW k \in Nat, k % 2 = 1
  PROVE  /\ StepFormed(plan, Stencil(fn, k)) /\ Stencil(fn, k).op = "launch"
         /\ Used(Stencil(fn, k)) = {"cur"}
<1> DEFINE s == Stencil(fn, k)
<1>1. /\ s.op = "launch" /\ s.increment = TRUE /\ s.into = "next"
      /\ s.reads = OneRead("cur", k)
  BY DEF Stencil, LaunchStep, OneRead
<1> HIDE DEF s
<1>2. "cur" \in Roles(plan) /\ "next" \in Roles(plan)
  BY DEF Roles
<1>3. s.increment \in BOOLEAN /\ s.into \in Roles(plan)
  BY <1>1, <1>2
<1>4. StepFormed(plan, s)
  BY <1>1, <1>2, <1>3, OneReadForm
<1>5. Used(s) = {"cur"}
  BY <1>1, <1>2, <1>3, OneReadForm
<1> QED
  BY <1>1, <1>4, <1>5 DEF s

\* An element-wise launch is well formed.
LEMMA AsideFormed ==
  ASSUME NEW plan, NEW role \in Roles(plan), NEW other \in Roles(plan), NEW into \in Roles(plan),
         NEW fn
  PROVE  LET s == Aside(fn, role, other, into)
         IN /\ StepFormed(plan, s) /\ s.op = "launch" /\ ~s.increment
            /\ s.into = into /\ Used(s) = {role, other}
<1> DEFINE s == Aside(fn, role, other, into)
<1>1. /\ s.op = "launch" /\ ~s.increment /\ s.into = into
      /\ s.reads = TwoReads(role, other)
  BY DEF Aside, LaunchStep, TwoReads
<1>2. s.increment \in BOOLEAN /\ s.into \in Roles(plan)
  BY DEF Aside, LaunchStep
<1> HIDE DEF s
<1>3. StepFormed(plan, s)
  BY <1>1, <1>2, TwoReadsForm
<1>4. Used(s) = {role, other}
  BY <1>1, <1>2, TwoReadsForm
<1> QED
  BY <1>1, <1>3, <1>4 DEF s

\* A plan that is well formed, step by step.
LEMMA PlanFormed ==
  ASSUME NEW plan, NEW T, plan.steps \in Seq(T), plan.result \in Roles(plan),
         \A k \in 1 .. Len(plan.steps) : StepFormed(plan, plan.steps[k]),
         \A k \in 2 .. Len(plan.steps) : plan.steps[k].op # "clear"
  PROVE  WellFormed(plan)
<1>1. /\ DOMAIN plan.steps = 1 .. Len(plan.steps) /\ plan.steps \in Seq(Range(plan.steps))
      /\ Len(plan.steps) \in Nat
  <2>1. plan.steps \in Seq(Range(plan.steps))
    BY SeqOfRange
  <2> QED
    BY <2>1
<1>2. \A k \in 1 .. Len(plan.steps) : k > 1 => k \in 2 .. Len(plan.steps)
  OBVIOUS
<1> QED
  BY <1>1, <1>2 DEF WellFormed, StepFormed

\* The steps of a chain are well formed, and read only what the chain computed.
LEMMA ChainFormed ==
  ASSUME NEW plan, NEW first \in Nat, NEW last \in Nat, NEW c, Chain(plan, first, last, c),
         NEW k \in first .. last
  PROVE  /\ StepFormed(plan, plan.steps[k]) /\ plan.steps[k].op # "clear"
         /\ k = first => Used(plan.steps[k]) = {}
         /\ Used(plan.steps[k]) \subseteq {"cur"}
<1>1. CASE k = first
  <2>1. plan.steps[k] = SendStep(In, "cur")
    BY <1>1 DEF Chain
  <2>2. /\ SendStep(In, "cur").op = "send" /\ Used(SendStep(In, "cur")) = {}
        /\ StepFormed(plan, SendStep(In, "cur"))
    <3>1. "cur" \in Roles(plan)
      BY DEF Roles
    <3> QED
      BY <3>1, SendForm, SendFormed
  <2> QED
    BY <2>1, <2>2
<1>2. CASE k # first
  <2>1. k \in first + 1 .. last
    BY <1>2
  <2>2. PICK fn, extent : plan.steps[k] = Stencil(fn, extent) /\ extent \in Nat /\ extent % 2 = 1
    BY <2>1 DEF Chain
  <2>3. /\ Stencil(fn, extent).op = "launch" /\ Used(Stencil(fn, extent)) = {"cur"}
        /\ StepFormed(plan, Stencil(fn, extent))
    BY <2>2, StencilFormed
  <2> QED
    BY <1>2, <2>2, <2>3
<1> QED
  BY <1>1, <1>2

\* The buffers beside those that take turns are left as they are.
Kept(plan, now, then) ==
  \A b \in Bufs(plan) : b >= plan.ring => then.buffers[b] = now.buffers[b]

\* And what they read was computed.
LEMMA ChainKnown ==
  ASSUME NEW plan, Len(plan.steps) \in Nat, NEW length, NEW base,
         NEW first \in 1 .. Len(plan.steps), NEW last \in first .. Len(plan.steps), NEW c,
         Chain(plan, first, last, c), Ready(plan, StepByStep(plan, length, base)[first - 1]),
         NEW k \in first .. last
  PROVE  /\ Means(Held(plan, StepByStep(plan, length, base)[k], "cur"), c[k].term, c[k].reach)
         /\ Ready(plan, StepByStep(plan, length, base)[k]) /\ c[k].reach \in Nat
         /\ Kept(plan, StepByStep(plan, length, base)[first - 1], StepByStep(plan, length, base)[k])
         /\ \A role \in Used(plan.steps[k]) :
              Held(plan, StepByStep(plan, length, base)[k - 1], role).known = TRUE
<1> DEFINE after == StepByStep(plan, length, base)
<1>1. \A j \in first .. last :
        /\ Current(plan, after[j], c[j].term, c[j].reach)
        /\ \A b \in Bufs(plan) : b >= plan.ring =>
             after[j].buffers[b] = after[first - 1].buffers[b]
  BY ChainRuns
<1> HIDE DEF after
<1>2. ASSUME NEW j \in first .. last
      PROVE  /\ Means(Held(plan, after[j], "cur"), c[j].term, c[j].reach)
             /\ Ready(plan, after[j]) /\ c[j].reach \in Nat
  <2>1. Current(plan, after[j], c[j].term, c[j].reach)
    BY <1>1
  <2>2. RoleBuffer(plan, after[j].cur, "cur") = after[j].cur
    BY <2>1, RolesAre DEF Current
  <2> QED
    BY <2>1, <2>2 DEF Current, Held
<1>3. ASSUME NEW role \in Used(plan.steps[k])
      PROVE  Held(plan, after[k - 1], role).known = TRUE
  <2>1. k # first /\ role = "cur"
    <3>1. first \in Nat /\ last \in Nat
      OBVIOUS
    <3>2. (k = first => Used(plan.steps[k]) = {}) /\ Used(plan.steps[k]) \subseteq {"cur"}
      BY <3>1, ChainFormed
    <3> QED
      BY <3>2
  <2>2. k - 1 \in first .. last
    BY <2>1
  <2>3. Means(Held(plan, after[k - 1], "cur"), c[k - 1].term, c[k - 1].reach)
    BY <1>2, <2>2
  <2> QED
    BY <2>1, <2>3 DEF Means
<1>4. Means(Held(plan, after[k], "cur"), c[k].term, c[k].reach) /\ Ready(plan, after[k])
  BY <1>2
<1>5. c[k].reach \in Nat
  BY <1>2
<1>6. Kept(plan, after[first - 1], after[k])
  BY <1>1 DEF Kept
<1> QED
  BY <1>3, <1>4, <1>5, <1>6 DEF after

\* A chain keeps the promise its last value is.
LEMMA ChainKeeps ==
  ASSUME NEW plan, NEW length, NEW promise, NEW T, plan.steps \in Seq(T), Len(plan.steps) > 0,
         plan.ring \in Nat, plan.ring >= 2, plan.scratch \in Nat, plan.result = "cur",
         NEW c, Chain(plan, 1, Len(plan.steps), c),
         promise.term = c[Len(plan.steps)].term, promise.reach = c[Len(plan.steps)].reach
  PROVE  Keeps(plan, length, promise)
<1> DEFINE N == Len(plan.steps)
<1>1. /\ N \in Nat /\ 1 \in 1 .. N /\ N \in 1 .. N /\ 1 - 1 = 0
      /\ DOMAIN plan.steps = 1 .. N
  OBVIOUS
<1>2. WellFormed(plan)
  <2>1. plan.result \in Roles(plan)
    BY DEF Roles
  <2>2. \A k \in 1 .. N : StepFormed(plan, plan.steps[k]) /\ plan.steps[k].op # "clear"
    BY <1>1, ChainFormed
  <2>3. \A k \in 2 .. N : k \in 1 .. N
    OBVIOUS
  <2> QED
    BY <2>1, <2>2, <2>3, PlanFormed
<1>3. ASSUME NEW base \in 0 .. plan.ring - 1, NEW k \in 1 .. N
      PROVE  /\ Means(Held(plan, StepByStep(plan, length, base)[k], "cur"), c[k].term, c[k].reach)
             /\ c[k].reach \in Nat
             /\ \A role \in Used(plan.steps[k]) :
                  Held(plan, StepByStep(plan, length, base)[k - 1], role).known = TRUE
  <2>1. Ready(plan, StepByStep(plan, length, base)[1 - 1])
    BY <1>1, FirstIsReady
  <2> QED
    BY <1>1, <2>1, ChainKnown
<1> HIDE DEF N
<1>4. KeepsPromise(plan, length, promise)
  <2>1. 0 \in 0 .. plan.ring - 1
    OBVIOUS
  <2>2. promise.reach \in Nat
    BY <1>1, <1>3, <2>1 DEF N
  <2> QED
    BY <1>1, <1>3, <2>2, PromiseKept DEF N
<1> QED
  BY <1>2, <1>4 DEF Keeps

-----------------------------------------------------------------------------
\* (n - 1) + 1 halves are n halves.
LEMMA OneMore ==
  ASSUME NEW n \in Nat \ {0}, NEW h \in Nat
  PROVE  n * h = (n - 1) * h + h /\ n * h \in Nat
  OBVIOUS

\* f n times, and then g m times.
TwoPhases(f, n, g, m, k) ==
  TwoBuffers(k, Repeat(<<Stencil(f, k)>>, n) \o Repeat(<<Stencil(g, k)>>, m))

\* The steps of a plan of two phases.
LEMMA TwoPhasesAre ==
  ASSUME NEW f, NEW n \in Nat, NEW g, NEW m \in Nat, NEW k
  PROVE  LET plan == TwoPhases(f, n, g, m, k)
         IN /\ plan.ring = 2 /\ plan.scratch = 0 /\ plan.result = "cur"
            /\ \E T : plan.steps \in Seq(T)
            /\ Len(plan.steps) = (n + m) + 1
            /\ plan.steps[1] = SendStep(In, "cur")
            /\ \A i \in 1 .. n + m :
                 plan.steps[i + 1] = Stencil(IF i <= n THEN f ELSE g, k)
<1> DEFINE S == {Stencil(f, k), Stencil(g, k)}
           u == [j \in 1 .. n |-> Stencil(f, k)]
           v == [j \in 1 .. m |-> Stencil(g, k)]
           w == u \o v
<1>1. Repeat(<<Stencil(f, k)>>, n) = u /\ Repeat(<<Stencil(g, k)>>, m) = v
  BY RepeatIs
<1>2. u \in Seq(S) /\ v \in Seq(S) /\ Len(u) = n /\ Len(v) = m
  OBVIOUS
<1>3. \A i \in 1 .. n + m : i > n => i - n \in 1 .. m
  OBVIOUS
<1>4. w \in Seq(S) /\ Len(w) = n + m
  <2> HIDE DEF S, u, v
  <2> QED
    BY <1>2, ConcatProperties
<1>5. \A i \in 1 .. n + m : w[i] = Stencil(IF i <= n THEN f ELSE g, k)
  <2>1. \A i \in 1 .. n + m : w[i] = IF i <= n THEN u[i] ELSE v[i - n]
    <3> HIDE DEF S, u, v
    <3> QED
      BY <1>2, ConcatProperties
  <2>2. ASSUME NEW i \in 1 .. n + m PROVE w[i] = Stencil(IF i <= n THEN f ELSE g, k)
    <3>1. CASE i <= n
      <4>1. w[i] = u[i] /\ i \in 1 .. n
        BY <2>1, <3>1
      <4> QED
        BY <3>1, <4>1
    <3>2. CASE i > n
      <4>1. w[i] = v[i - n] /\ i - n \in 1 .. m
        BY <1>3, <2>1, <3>2
      <4>2. v[i - n] = Stencil(g, k)
        BY <4>1
      <4> QED
        BY <3>2, <4>1, <4>2
    <3> QED
      BY <3>1, <3>2
  <2> QED
    BY <2>2
<1>6. TwoPhases(f, n, g, m, k) = TwoBuffers(k, w)
  BY <1>1 DEF TwoPhases
<1> HIDE DEF w, S
<1> DEFINE plan == TwoBuffers(k, w)
           T == S \cup {SendStep(In, "cur")}
<1>7. /\ plan.ring = 2 /\ plan.scratch = 0 /\ plan.result = "cur"
      /\ plan.steps \in Seq(T) /\ Len(plan.steps) = Len(w) + 1
      /\ plan.steps[1] = SendStep(In, "cur")
      /\ \A i \in 1 .. Len(w) : plan.steps[i + 1] = w[i]
  <2> HIDE DEF T
  <2>1. /\ plan.ring = 2 /\ plan.scratch = 0 /\ plan.result = "cur"
        /\ plan.steps[1] = SendStep(In, "cur")
    BY <1>4, TwoBuffersIs
  <2>2. plan.steps \in Seq(S \cup {SendStep(In, "cur")}) /\ Len(plan.steps) = Len(w) + 1
    BY <1>4, TwoBuffersIs
  <2>3. \A i \in 1 .. Len(w) : plan.steps[i + 1] = w[i]
    <3>1. w \in Seq(S)
      BY <1>4
    <3> QED
      BY <3>1, TwoBuffersStep
  <2> QED
    BY <2>1, <2>2, <2>3 DEF T
<1> HIDE DEF plan, T
<1>8. \A i \in 1 .. n + m : plan.steps[i + 1] = Stencil(IF i <= n THEN f ELSE g, k)
  BY <1>4, <1>5, <1>7
<1>9. Len(plan.steps) = (n + m) + 1
  BY <1>4, <1>7
<1> QED
  BY <1>6, <1>7, <1>8, <1>9 DEF plan

\* A plan of n iterations of f and m of g keeps the promise of both, one after the other.
LEMMA TwoPhasesKeep ==
  ASSUME NEW f, NEW n \in Nat, NEW g, NEW m \in Nat, NEW k \in Nat, k % 2 = 1, NEW length
  PROVE  Keeps(TwoPhases(f, n, g, m, k), length,
               Promise(Applied(g, m, Applied(f, n, In)), (n + m) * (k \div 2)))
<1> DEFINE plan == TwoPhases(f, n, g, m, k)
           h == k \div 2
           N == (n + m) + 1
           promise == Promise(Applied(g, m, Applied(f, n, In)), (n + m) * h)
<1>1. /\ plan.ring = 2 /\ plan.scratch = 0 /\ plan.result = "cur"
      /\ \E T : plan.steps \in Seq(T)
      /\ Len(plan.steps) = N /\ plan.steps[1] = SendStep(In, "cur")
      /\ \A i \in 1 .. n + m : plan.steps[i + 1] = Stencil(IF i <= n THEN f ELSE g, k)
  BY TwoPhasesAre
<1>2. PICK a : /\ a[0] = In /\ \A j \in 1 .. n : a[j] = Of(f, a[j - 1])
               /\ Applied(f, n, In) = a[n]
  BY AppliedIs
<1>3. PICK b : /\ b[0] = a[n] /\ \A j \in 1 .. m : b[j] = Of(g, b[j - 1])
               /\ Applied(g, m, a[n]) = b[m]
  BY AppliedIs
<1>4. promise.term = b[m] /\ promise.reach = (n + m) * h
  BY <1>2, <1>3 DEF Promise
<1>5. h \in Nat
  OBVIOUS
<1> DEFINE term(i) == IF i - 1 <= n THEN a[i - 1] ELSE b[(i - 1) - n]
           c == [i \in 1 .. N |->
             [fn |-> IF i - 1 <= n THEN f ELSE g, extent |-> k, term |-> term(i),
              reach |-> (i - 1) * h]]
<1> HIDE DEF plan, h, promise
<1>6. term(1) = In
  BY <1>2
<1>7. ASSUME NEW i \in 1 + 1 .. N
      PROVE  term(i) = Of(IF i - 1 <= n THEN f ELSE g, term(i - 1))
  <2> DEFINE j == i - 1
  <2>1. j \in 1 .. n + m /\ (i - 1) - 1 = j - 1
    OBVIOUS
  <2> HIDE DEF j
  <2>2. CASE j <= n
    <3>1. a[j] = Of(f, a[j - 1]) /\ j - 1 <= n
      BY <1>2, <2>1, <2>2
    <3> QED
      BY <2>1, <2>2, <3>1 DEF j
  <2>3. CASE j = n + 1
    <3>1. b[1] = Of(g, b[0]) /\ 1 \in 1 .. m
      <4>1. 1 \in 1 .. m /\ 1 - 1 = 0
        BY <2>1, <2>3
      <4> QED
        BY <1>3, <4>1
    <3>2. j - n = 1 /\ j - 1 = n
      BY <2>3
    <3>3. term(i) = b[1] /\ term(i - 1) = a[n]
      BY <2>1, <2>3, <3>2 DEF j
    <3>4. ~(i - 1 <= n)
      BY <2>3 DEF j
    <3> HIDE DEF term
    <3> QED
      BY <1>3, <3>1, <3>3, <3>4
  <2>4. CASE j > n + 1
    <3>1. j - n \in 1 .. m /\ (j - 1) - n = (j - n) - 1 /\ ~(j <= n) /\ ~(j - 1 <= n)
      BY <2>1, <2>4
    <3>2. b[j - n] = Of(g, b[(j - n) - 1])
      BY <1>3, <3>1
    <3>3. term(i) = b[j - n] /\ term(i - 1) = b[(j - n) - 1]
      BY <2>1, <3>1 DEF j
    <3>4. ~(i - 1 <= n)
      BY <3>1 DEF j
    <3> HIDE DEF term
    <3> QED
      BY <3>2, <3>3, <3>4
  <2> QED
    BY <2>1, <2>2, <2>3, <2>4
<1>8. term(N) = b[m]
  <2>1. CASE m = 0
    BY <1>3, <2>1
  <2>2. CASE m # 0
    <3>1. ~(N - 1 <= n) /\ (N - 1) - n = m
      BY <2>2
    <3> QED
      BY <3>1
  <2> QED
    BY <2>1, <2>2
<1> HIDE DEF term
<1>9. Chain(plan, 1, N, c)
  <2>1. 1 \in 1 .. N /\ c[1].term = In /\ c[1].reach = 0
    <3>1. 1 \in 1 .. N /\ (1 - 1) * h = 0
      BY <1>5
    <3> QED
      BY <1>6, <3>1
  <2>2. ASSUME NEW i \in 1 + 1 .. N
        PROVE  /\ plan.steps[i] = Stencil(c[i].fn, c[i].extent)
               /\ c[i].extent \in Nat /\ c[i].extent % 2 = 1
               /\ c[i].term = <<c[i].fn, c[i - 1].term>>
               /\ c[i].reach = c[i - 1].reach + c[i].extent \div 2
    <3>1. i \in 1 .. N /\ i - 1 \in 1 .. N /\ i - 1 \in 1 .. n + m /\ (i - 1) + 1 = i
      OBVIOUS
    <3>2. /\ c[i].fn = (IF i - 1 <= n THEN f ELSE g) /\ c[i].extent = k /\ c[i].term = term(i)
          /\ c[i].reach = (i - 1) * h
          /\ c[i - 1].term = term(i - 1) /\ c[i - 1].reach = ((i - 1) - 1) * h
      BY <3>1
    <3> HIDE DEF c
    <3>3. plan.steps[i] = Stencil(IF i - 1 <= n THEN f ELSE g, k)
      BY <1>1, <3>1
    <3>4. (i - 1) * h = ((i - 1) - 1) * h + h
      <4>1. i - 1 \in Nat \ {0}
        OBVIOUS
      <4> QED
        BY <1>5, <4>1, OneMore
    <3> QED
      BY <1>7, <3>2, <3>3, <3>4 DEF h, Of
  <2> HIDE DEF c, N
  <2> QED
    BY <1>1, <2>1, <2>2 DEF Chain
<1>10. N \in 1 .. N /\ N > 0 /\ c[N].term = b[m] /\ c[N].reach = (n + m) * h
  <2>1. N \in 1 .. N /\ N > 0 /\ N - 1 = n + m
    OBVIOUS
  <2> QED
    BY <1>8, <2>1
<1> HIDE DEF c, N
<1>11. Keeps(plan, length, promise)
  <2>1. PICK T : plan.steps \in Seq(T)
    BY <1>1
  <2>2. /\ plan.ring \in Nat /\ plan.ring >= 2 /\ plan.scratch \in Nat /\ plan.result = "cur"
        /\ Len(plan.steps) > 0 /\ Chain(plan, 1, Len(plan.steps), c)
        /\ promise.term = c[Len(plan.steps)].term /\ promise.reach = c[Len(plan.steps)].reach
    BY <1>1, <1>4, <1>9, <1>10
  <2> QED
    BY <2>1, <2>2, ChainKeeps
<1> QED
  BY <1>11 DEF plan, promise, h

\* One kernel, n times.
LEMMA OnePhase ==
  ASSUME NEW f, NEW n \in Nat, NEW k \in Nat, k % 2 = 1, NEW length
  PROVE  Keeps(TwoBuffers(k, Repeat(<<Stencil(f, k)>>, n)), length, Neighbourhood(f, k, n))
<1> DEFINE u == [j \in 1 .. n |-> Stencil(f, k)]
<1>1. Repeat(<<Stencil(f, k)>>, n) = u /\ Repeat(<<Stencil(f, k)>>, 0) = <<>>
  <2>1. Repeat(<<Stencil(f, k)>>, 0) = [j \in 1 .. 0 |-> Stencil(f, k)]
    BY RepeatIs
  <2>2. [j \in 1 .. 0 |-> Stencil(f, k)] = <<>>
    OBVIOUS
  <2> QED
    BY <2>1, <2>2, RepeatIs
<1>2. u \o <<>> = u
  <2>1. u \in Seq({Stencil(f, k)})
    OBVIOUS
  <2> HIDE DEF u
  <2> QED
    BY <2>1, ConcatEmptySeq
<1> HIDE DEF u
<1>3. TwoPhases(f, n, f, 0, k) = TwoBuffers(k, Repeat(<<Stencil(f, k)>>, n))
  BY <1>1, <1>2 DEF TwoPhases
<1>4. Applied(f, 0, Applied(f, n, In)) = Applied(f, n, In)
  <2>1. \E a : a[0] = Applied(f, n, In) /\ Applied(f, 0, Applied(f, n, In)) = a[0]
    BY AppliedIs
  <2> QED
    BY <2>1
<1>5. (n + 0) * (k \div 2) = n * (k \div 2)
  OBVIOUS
<1>6. Keeps(TwoPhases(f, n, f, 0, k), length,
            Promise(Applied(f, 0, Applied(f, n, In)), (n + 0) * (k \div 2)))
  <2>1. 0 \in Nat
    OBVIOUS
  <2> QED
    BY <2>1, TwoPhasesKeep
<1> QED
  BY <1>3, <1>4, <1>5, <1>6 DEF Neighbourhood

\* A filter of one kernel, in any number of iterations, computes what its help says, and looks
\* half the kernel's extent further in each: maximum, minimum, mean, standard deviation,
\* variance, median and multiply-sum.
THEOREM NeighbourhoodFiltersKeepTheirPromises ==
  \A k, n, length \in Nat : k % 2 = 1 =>
    /\ Keeps(cMaxFilter(k, n), length, Neighbourhood("max", k, n))
    /\ Keeps(cMinFilter(k, n), length, Neighbourhood("min", k, n))
    /\ Keeps(cMeanFilter(k, n), length, Neighbourhood("mean", k, n))
    /\ Keeps(cStdFilter(k, n), length, Neighbourhood("std", k, n))
    /\ Keeps(cVarFilter(k, n), length, Neighbourhood("var", k, n))
    /\ Keeps(cMedianFilter(k, n), length, Neighbourhood("median", k, n))
    /\ Keeps(cMultiplySum(k, n), length, Neighbourhood("multiplySum", k, n))
<1> TAKE k, n, length \in Nat
<1> HAVE k % 2 = 1
<1>1. ASSUME NEW f
      PROVE  Keeps(TwoBuffers(k, Repeat(<<Stencil(f, k)>>, n)), length, Neighbourhood(f, k, n))
  BY OnePhase
<1> QED
  BY <1>1 DEF cMaxFilter, cMinFilter, cMeanFilter, cStdFilter, cVarFilter, cMedianFilter,
              cMultiplySum

\* A closure is a dilation and then an erosion, an opening the other way around, each pass in
\* as many iterations as asked for.
THEOREM MorphologyKeepsItsPromise ==
  \A k, n, length \in Nat : k % 2 = 1 =>
    Keeps(cClosure(k, n), length, Closed(k, n)) /\ Keeps(cOpener(k, n), length, Opened(k, n))
<1> TAKE k, n, length \in Nat
<1> HAVE k % 2 = 1
<1>1. (n + n) * (k \div 2) = 2 * n * (k \div 2)
  <2>1. n + n = 2 * n
    OBVIOUS
  <2> QED
    BY <2>1
<1>2. ASSUME NEW f, NEW g
      PROVE  Keeps(TwoPhases(f, n, g, n, k), length,
                   Promise(Applied(g, n, Applied(f, n, In)), 2 * n * (k \div 2)))
  BY <1>1, TwoPhasesKeep
<1> QED
  BY <1>2 DEF cClosure, cOpener, Closed, Opened, TwoPhases

-----------------------------------------------------------------------------
\* A function applied once.
LEMMA AppliedOnce ==
  ASSUME NEW f, NEW term
  PROVE  Applied(f, 1, term) = <<f, term>>
<1>1. PICK a : /\ a[0] = term /\ \A j \in 1 .. 1 : a[j] = Of(f, a[j - 1])
               /\ Applied(f, 1, term) = a[1]
  <2>1. 1 \in Nat
    OBVIOUS
  <2> QED
    BY <2>1, AppliedIs
<1>2. a[1] = Of(f, a[1 - 1]) /\ 1 - 1 = 0
  BY <1>1
<1> QED
  BY <1>1, <1>2 DEF Of

\* One kernel, once.
LEMMA OneStencil ==
  ASSUME NEW plan, NEW T, plan.steps \in Seq(T), Len(plan.steps) = 2,
         plan.ring = 2, plan.scratch = 0, plan.result = "cur", NEW f, NEW k \in Nat, k % 2 = 1,
         plan.steps[1] = SendStep(In, "cur"), plan.steps[2] = Stencil(f, k), NEW length
  PROVE  Keeps(plan, length, Neighbourhood(f, k, 1))
<1> DEFINE h == k \div 2
           c == [i \in 1 .. 2 |-> [fn |-> f, extent |-> k, term |-> IF i = 1 THEN In ELSE <<f, In>>,
                                   reach |-> IF i = 1 THEN 0 ELSE h]]
           promise == Neighbourhood(f, k, 1)
<1>1. promise.term = <<f, In>> /\ promise.reach = h
  <2>1. 1 * h = h
    OBVIOUS
  <2> QED
    BY <2>1, AppliedOnce DEF Neighbourhood, Promise
<1>2. h \in Nat /\ 0 + h = h
  OBVIOUS
<1> HIDE DEF h, promise
<1>3. /\ c[1].term = In /\ c[1].reach = 0
      /\ c[2].fn = f /\ c[2].extent = k /\ c[2].term = <<f, In>> /\ c[2].reach = h
  OBVIOUS
<1> HIDE DEF c
<1>4. Chain(plan, 1, 2, c)
  <2>1. \A i \in 1 + 1 .. 2 : i = 2 /\ i - 1 = 1
    OBVIOUS
  <2> QED
    BY <1>2, <1>3, <2>1 DEF Chain, h
<1>5. /\ plan.ring \in Nat /\ plan.ring >= 2 /\ plan.scratch \in Nat /\ Len(plan.steps) > 0
      /\ Chain(plan, 1, Len(plan.steps), c)
      /\ promise.term = c[Len(plan.steps)].term /\ promise.reach = c[Len(plan.steps)].reach
  BY <1>1, <1>3, <1>4
<1>6. Keeps(plan, length, promise)
  BY <1>5, ChainKeeps
<1> QED
  BY <1>6 DEF promise

\* The steps of a plan of one stencil.
LEMMA OneStencilPlan ==
  ASSUME NEW k, NEW f, NEW extent
  PROVE  LET plan == TwoBuffers(k, <<Stencil(f, extent)>>)
         IN /\ plan.ring = 2 /\ plan.scratch = 0 /\ plan.result = "cur"
            /\ (\E T : plan.steps \in Seq(T)) /\ Len(plan.steps) = 2
            /\ plan.steps[1] = SendStep(In, "cur") /\ plan.steps[2] = Stencil(f, extent)
<1> DEFINE s == <<Stencil(f, extent)>>
           plan == TwoBuffers(k, s)
           S == {Stencil(f, extent)}
<1>1. s \in Seq(S) /\ Len(s) = 1 /\ s[1] = Stencil(f, extent) /\ 1 \in 1 .. Len(s) /\ 1 + 1 = 2
  OBVIOUS
<1> HIDE DEF s, S
<1>2. /\ plan.ring = 2 /\ plan.scratch = 0 /\ plan.result = "cur"
      /\ plan.steps[1] = SendStep(In, "cur")
  BY <1>1, TwoBuffersIs
<1>3. plan.steps \in Seq(S \cup {SendStep(In, "cur")}) /\ Len(plan.steps) = Len(s) + 1
  BY <1>1, TwoBuffersIs
<1>4. plan.steps[1 + 1] = s[1]
  BY <1>1, TwoBuffersStep
<1> HIDE DEF plan
<1>5. plan.steps[2] = Stencil(f, extent) /\ Len(plan.steps) = 2
  BY <1>1, <1>3, <1>4
<1>6. \E T : plan.steps \in Seq(T)
  BY <1>3
<1> QED
  BY <1>2, <1>5, <1>6 DEF plan, s

\* The identity filter copies the image, although its chunks have the margin of a kernel of
\* 376 slices.
THEOREM IdentityFilterKeepsItsPromise ==
  \A length \in Nat : Keeps(cIdentityFilter, length, Neighbourhood("identity", 1, 1))
<1> TAKE length \in Nat
<1> DEFINE of == TwoBuffers(5 * 75 + 1, <<Stencil("identity", 1)>>)
           plan == cIdentityFilter
<1>1. /\ plan.steps = of.steps /\ plan.ring = of.ring /\ plan.scratch = of.scratch
      /\ plan.result = of.result
  BY DEF cIdentityFilter, TwoBuffers
<1>2. /\ of.ring = 2 /\ of.scratch = 0 /\ of.result = "cur"
      /\ (\E T : of.steps \in Seq(T)) /\ Len(of.steps) = 2
      /\ of.steps[1] = SendStep(In, "cur") /\ of.steps[2] = Stencil("identity", 1)
  BY OneStencilPlan
<1> HIDE DEF of, plan
<1>3. PICK T : plan.steps \in Seq(T)
  BY <1>1, <1>2
<1>4. 1 \in Nat /\ 1 % 2 = 1
  OBVIOUS
<1>5. Keeps(plan, length, Neighbourhood("identity", 1, 1))
  BY <1>1, <1>2, <1>3, <1>4, OneStencil
<1> QED
  BY <1>5 DEF plan

\* With the noise given, the Wiener filter is one kernel.
THEOREM WienerFilterKeepsItsPromise ==
  \A k, length \in Nat : k % 2 = 1 => Keeps(cWienerFilter(k, TRUE), length, Denoised(k))
<1> TAKE k, length \in Nat
<1> HAVE k % 2 = 1
<1> DEFINE plan == TwoBuffers(k, <<Stencil("wiener", k)>>)
<1>1. cWienerFilter(k, TRUE) = plan
  <2>1. <<>> \o <<Stencil("wiener", k)>> = <<Stencil("wiener", k)>>
    OBVIOUS
  <2> QED
    BY <2>1 DEF cWienerFilter
<1>2. /\ plan.ring = 2 /\ plan.scratch = 0 /\ plan.result = "cur"
      /\ (\E T : plan.steps \in Seq(T)) /\ Len(plan.steps) = 2
      /\ plan.steps[1] = SendStep(In, "cur") /\ plan.steps[2] = Stencil("wiener", k)
  BY OneStencilPlan
<1> HIDE DEF plan
<1>3. PICK T : plan.steps \in Seq(T)
  BY <1>2
<1>4. Keeps(plan, length, Neighbourhood("wiener", k, 1))
  BY <1>2, <1>3, OneStencil
<1> QED
  BY <1>1, <1>4 DEF Denoised

-----------------------------------------------------------------------------
\* A launch that takes a difference of the current buffer and the next, and what it is.
Differs(s, value, term, with) ==
  \/ s = Aside("difference", "cur", "next", "third") /\ value = <<"difference", term, with>>
  \/ s = Aside("difference", "next", "cur", "third") /\ value = <<"difference", with, term>>

\* Another image is sent into the next buffer, and a difference goes into the third.
LEMMA DifferenceIs ==
  ASSUME NEW plan, plan.ring = 3, NEW length, NEW now, Ready(plan, now),
         NEW term, NEW reach \in Nat, Means(Held(plan, now, "cur"), term, reach), NEW with,
         NEW then, then = After(plan, length, now, SendStep(with, "next")),
         NEW s, NEW value, Differs(s, value, term, with)
  PROVE  /\ Means(Held(plan, then, "cur"), term, reach)
         /\ Means(Held(plan, then, "next"), with, 0)
         /\ Means(Held(plan, After(plan, length, then, s), "third"), value, reach)
<1> DEFINE b == RoleBuffer(plan, now.cur, "next")
           t == RoleBuffer(plan, then.cur, "third")
           end == After(plan, length, then, s)
<1>1. /\ RoleBuffer(plan, now.cur, "cur") = now.cur /\ b \in Bufs(plan) /\ b # now.cur
      /\ now.cur \in Bufs(plan)
  <2>1. /\ RoleBuffer(plan, now.cur, "cur") = now.cur
        /\ RoleBuffer(plan, now.cur, "next") = (now.cur + 1) % plan.ring
        /\ (now.cur + 1) % plan.ring \in 0 .. plan.ring - 1
        /\ (now.cur + 1) % plan.ring # now.cur
        /\ 0 .. plan.ring - 1 \subseteq Bufs(plan)
    BY RolesAre
  <2>2. now.cur \in 0 .. plan.ring - 1
    BY DEF Ready
  <2> QED
    BY <2>1, <2>2
<1>2. /\ Ready(plan, then) /\ then.cur = now.cur /\ Means(then.buffers[b], with, 0)
      /\ \A d \in Bufs(plan) \ {b} : then.buffers[d] = now.buffers[d]
  BY <1>1, SendIs
<1>3. Means(Held(plan, then, "cur"), term, reach) /\ Means(Held(plan, then, "next"), with, 0)
  <2>1. then.buffers[now.cur] = now.buffers[now.cur]
    BY <1>1, <1>2
  <2> QED
    BY <1>1, <1>2, <2>1 DEF Held
<1>4. Means(Computed(plan, length, then, s), value, reach)
  <2>1. then.scalars = <<>> /\ 0 \in Nat /\ 0 <= reach
    BY <1>2 DEF Ready
  <2>2. Means(Computed(plan, length, then,
          LaunchStep("difference", <<AtVoxel("cur"), AtVoxel("next")>>, "third", FALSE)),
          <<"difference", term, with>>, reach)
    BY <1>3, <2>1, ComputedOfTwo
  <2>3. Means(Computed(plan, length, then,
          LaunchStep("difference", <<AtVoxel("next"), AtVoxel("cur")>>, "third", FALSE)),
          <<"difference", with, term>>, reach)
    BY <1>3, <2>1, ComputedOfTwo
  <2> QED
    BY <2>2, <2>3 DEF Aside, Differs
<1>5. s.op = "launch" /\ ~s.increment /\ s.into = "third"
  BY DEF Aside, LaunchStep, Differs
<1>6. t \in Bufs(plan)
  <2>1. /\ RoleBuffer(plan, then.cur, "third") = (then.cur + 2) % plan.ring
        /\ (then.cur + 2) % plan.ring \in 0 .. plan.ring - 1
        /\ 0 .. plan.ring - 1 \subseteq Bufs(plan)
    BY <1>2, RolesAre
  <2> QED
    BY <2>1
<1>7. end.cur = then.cur /\ end.buffers[t] = Computed(plan, length, then, s)
  <2>1. RoleBuffer(plan, then.cur, s.into) \in Bufs(plan) /\ Ready(plan, then)
    BY <1>2, <1>5, <1>6
  <2>2. /\ end.cur = then.cur
        /\ end.buffers[RoleBuffer(plan, then.cur, s.into)] = Computed(plan, length, then, s)
    BY <1>5, <2>1, AsideIs
  <2> QED
    BY <1>5, <2>2
<1>8. Held(plan, end, "third") = Computed(plan, length, then, s)
  BY <1>7 DEF Held
<1> QED
  BY <1>3, <1>4, <1>8

\* A chain of m steps, another image sent into the next buffer, and a difference into the third.
LEMMA DifferenceKeeps ==
  ASSUME NEW plan, NEW length, NEW promise, NEW T, plan.steps \in Seq(T),
         NEW m \in Nat \ {0}, Len(plan.steps) = m + 2,
         plan.ring = 3, plan.scratch = 0, plan.result = "third",
         NEW c, Chain(plan, 1, m, c),
         NEW with, plan.steps[m + 1] = SendStep(with, "next"),
         Differs(plan.steps[m + 2], promise.term, c[m].term, with), promise.reach = c[m].reach
  PROVE  Keeps(plan, length, promise)
<1> DEFINE N == Len(plan.steps)
           last == plan.steps[m + 2]
           send == plan.steps[m + 1]
<1>1. /\ N \in Nat /\ m \in Nat /\ 1 \in 1 .. N /\ m \in 1 .. N /\ 1 \in 1 .. m /\ m \in 1 .. m
      /\ 1 - 1 = 0 /\ (m + 1) - 1 = m /\ (m + 2) - 1 = m + 1 /\ m + 1 \in 1 .. N /\ m + 2 \in 1 .. N
      /\ DOMAIN plan.steps = 1 .. N /\ Len(plan.steps) > 0
  OBVIOUS
<1>2. {"cur", "next", "third"} \subseteq Roles(plan)
  BY DEF Roles
<1>3. /\ send.op = "send" /\ Used(send) = {} /\ StepFormed(plan, send)
  BY <1>2, SendForm, SendFormed
<1>4. StepFormed(plan, last) /\ last.op = "launch" /\ Used(last) = {"cur", "next"}
  <2>1. "cur" \in Roles(plan) /\ "next" \in Roles(plan) /\ "third" \in Roles(plan)
    BY <1>2
  <2>2. \/ last = Aside("difference", "cur", "next", "third")
        \/ last = Aside("difference", "next", "cur", "third")
    BY DEF Differs
  <2> HIDE DEF last
  <2>3. CASE last = Aside("difference", "cur", "next", "third")
    BY <2>1, <2>3, AsideFormed
  <2>4. CASE last = Aside("difference", "next", "cur", "third")
    BY <2>1, <2>4, AsideFormed
  <2> QED
    BY <2>2, <2>3, <2>4
<1> HIDE DEF send, last
<1>5. \A k \in 1 .. N : k \in 1 .. m \/ k = m + 1 \/ k = m + 2
  OBVIOUS
<1>6. WellFormed(plan)
  <2>1. plan.result \in Roles(plan)
    BY <1>2
  <2>2. ASSUME NEW k \in 1 .. N PROVE StepFormed(plan, plan.steps[k]) /\ plan.steps[k].op # "clear"
    <3>1. CASE k \in 1 .. m
      <4>1. 1 \in Nat
        OBVIOUS
      <4>2. StepFormed(plan, plan.steps[k])
        BY <1>1, <3>1, <4>1, ChainFormed
      <4>3. plan.steps[k].op # "clear"
        BY <1>1, <3>1, <4>1, ChainFormed
      <4> QED
        BY <4>2, <4>3
    <3>2. CASE k = m + 1
      BY <1>3, <3>2 DEF send
    <3>3. CASE k = m + 2
      BY <1>4, <3>3 DEF last
    <3> QED
      BY <1>5, <3>1, <3>2, <3>3
  <2>3. \A k \in 2 .. N : k \in 1 .. N
    OBVIOUS
  <2> QED
    BY <2>1, <2>2, <2>3, PlanFormed
<1>7. ASSUME NEW base \in 0 .. plan.ring - 1
      PROVE  /\ \A k \in 1 .. N : \A r \in Used(plan.steps[k]) :
                  Held(plan, StepByStep(plan, length, base)[k - 1], r).known = TRUE
             /\ Means(Held(plan, StepByStep(plan, length, base)[N], plan.result),
                      promise.term, promise.reach)
             /\ promise.reach \in Nat
  <2> DEFINE after == StepByStep(plan, length, base)
             now == after[m]
             then == after[m + 1]
  <2>1. Ready(plan, after[1 - 1])
    <3>1. plan.ring \in Nat /\ plan.ring >= 2 /\ plan.scratch \in Nat /\ Len(plan.steps) \in Nat
      BY <1>1
    <3>2. Ready(plan, StepByStep(plan, length, base)[0])
      BY <3>1, FirstIsReady
    <3> QED
      BY <1>1, <3>2
  <2>2. ASSUME NEW k \in 1 .. m
        PROVE  /\ Means(Held(plan, after[k], "cur"), c[k].term, c[k].reach)
               /\ Ready(plan, after[k]) /\ c[k].reach \in Nat
               /\ \A r \in Used(plan.steps[k]) : Held(plan, after[k - 1], r).known = TRUE
    <3>1. m \in 1 .. Len(plan.steps)
      BY <1>1
    <3> QED
      BY <1>1, <2>1, <3>1, ChainKnown
  <2>3. /\ then = After(plan, length, now, SendStep(with, "next"))
        /\ after[N] = After(plan, length, then, last)
    <3>1. \A k \in 1 .. N : after[k] = After(plan, length, after[k - 1], plan.steps[k])
      BY <1>1, StepByStepIs
    <3> HIDE DEF after
    <3>2. after[m + 1] = After(plan, length, after[(m + 1) - 1], plan.steps[m + 1])
      BY <1>1, <3>1
    <3>3. after[m + 2] = After(plan, length, after[(m + 2) - 1], plan.steps[m + 2])
      BY <1>1, <3>1
    <3> QED
      BY <1>1, <3>2, <3>3 DEF last
  <2>4. Ready(plan, now) /\ Means(Held(plan, now, "cur"), c[m].term, c[m].reach)
        /\ c[m].reach \in Nat
    BY <1>1, <2>2
  <2> HIDE DEF after, now
  <2>5. /\ Means(Held(plan, then, "cur"), c[m].term, c[m].reach)
        /\ Means(Held(plan, then, "next"), with, 0)
        /\ Means(Held(plan, After(plan, length, then, last), "third"), promise.term, c[m].reach)
    <3>1. Differs(last, promise.term, c[m].term, with)
      BY DEF last
    <3> HIDE DEF then
    <3> QED
      BY <2>3, <2>4, <3>1, DifferenceIs
  <2>6. ASSUME NEW k \in 1 .. N, NEW r \in Used(plan.steps[k])
        PROVE  Held(plan, after[k - 1], r).known = TRUE
    <3>1. CASE k \in 1 .. m
      BY <2>2, <3>1 DEF after
    <3>2. CASE k = m + 1
      BY <1>3, <3>2 DEF send
    <3>3. CASE k = m + 2
      <4>1. r = "cur" \/ r = "next"
        BY <1>4, <3>3 DEF last
      <4>2. after[k - 1] = then
        BY <1>1, <3>3 DEF then
      <4> QED
        BY <2>5, <4>1, <4>2 DEF Means
    <3> QED
      BY <1>5, <3>1, <3>2, <3>3
  <2> QED
    BY <2>3, <2>4, <2>5, <2>6 DEF after
<1> HIDE DEF N
<1>8. KeepsPromise(plan, length, promise)
  <2>1. 0 \in 0 .. plan.ring - 1
    OBVIOUS
  <2>2. promise.reach \in Nat
    BY <1>7, <2>1
  <2>3. ASSUME NEW base \in 0 .. plan.ring - 1
        PROVE  /\ \A k \in 1 .. Len(plan.steps) : \A r \in Used(plan.steps[k]) :
                    Held(plan, StepByStep(plan, length, base)[k - 1], r).known = TRUE
               /\ Means(Held(plan, StepByStep(plan, length, base)[Len(plan.steps)], plan.result),
                        promise.term, promise.reach)
    BY <1>7 DEF N
  <2>4. DOMAIN plan.steps = 1 .. Len(plan.steps)
    BY <1>1 DEF N
  <2> QED
    BY <2>2, <2>3, <2>4, PromiseKept
<1> QED
  BY <1>6, <1>8 DEF Keeps

\* The difference of two images is the second taken from the first, voxel by voxel.
THEOREM DifferenceKeepsItsPromise ==
  \A length \in Nat : Keeps(cElementWiseDifference, length, Subtracted)
<1> TAKE length \in Nat
<1> DEFINE plan == cElementWiseDifference
           last == LaunchStep("difference", <<AtVoxel("cur"), AtVoxel("next")>>, "third", FALSE)
           steps == <<SendStep(In, "cur"), SendStep(In2, "next"), last>>
           c == [i \in 1 .. 1 |-> [term |-> In, reach |-> 0]]
<1>1. plan.steps = steps /\ plan.ring = 3 /\ plan.scratch = 0 /\ plan.result = "third"
  <2>1. <<SendStep(In, "cur")>> \o <<SendStep(In2, "next"), last>> = steps
    BY JoinedThree
  <2> HIDE DEF last, steps
  <2> QED
    BY <2>1 DEF cElementWiseDifference, ThreeBuffers, TwoBuffers, last
<1>2. /\ steps \in Seq({SendStep(In, "cur"), SendStep(In2, "next"), last})
      /\ Len(steps) = 1 + 2 /\ steps[1] = SendStep(In, "cur")
      /\ steps[1 + 1] = SendStep(In2, "next") /\ steps[1 + 2] = last
  BY Zenon, SMT
<1>3. c[1].term = In /\ c[1].reach = 0
  OBVIOUS
<1>4. last = Aside("difference", "cur", "next", "third")
  BY DEF Aside
<1>5. Subtracted.term = <<"difference", In, In2>> /\ Subtracted.reach = 0
  BY DEF Subtracted, Promise
<1> HIDE DEF plan, last, steps, c
<1>6. Chain(plan, 1, 1, c)
  BY <1>1, <1>2, <1>3 DEF Chain
<1>7. Differs(plan.steps[1 + 2], Subtracted.term, c[1].term, In2)
  BY <1>1, <1>2, <1>3, <1>4, <1>5 DEF Differs
<1>8. 1 \in Nat \ {0}
  OBVIOUS
<1>9. Keeps(plan, length, Subtracted)
  BY <1>1, <1>2, <1>3, <1>5, <1>6, <1>7, <1>8, DifferenceKeeps
<1> QED
  BY <1>9 DEF plan

\* The three passes of a Gaussian kernel.
LEMMA SeparableIs ==
  ASSUME NEW k
  PROVE  /\ SeparableMultiplySum(k)
              \in Seq({Stencil("gaussX", 1), Stencil("gaussY", 1), Stencil("gaussZ", k)})
         /\ Len(SeparableMultiplySum(k)) = 3
         /\ SeparableMultiplySum(k)[1] = Stencil("gaussX", 1)
         /\ SeparableMultiplySum(k)[2] = Stencil("gaussY", 1)
         /\ SeparableMultiplySum(k)[3] = Stencil("gaussZ", k)
<1> DEFINE pass(j) == Stencil(GaussAlong[Axes[j]], ExtentAlong(Axes[j], k))
           s == [j \in 1 .. 3 |-> pass(j)]
           S == {Stencil("gaussX", 1), Stencil("gaussY", 1), Stencil("gaussZ", k)}
<1>1. SeparableMultiplySum(k) = s
  BY DEF SeparableMultiplySum
<1>2. /\ Axes[1] = "x" /\ Axes[2] = "y" /\ Axes[3] = "z"
      /\ GaussAlong["x"] = "gaussX" /\ GaussAlong["y"] = "gaussY" /\ GaussAlong["z"] = "gaussZ"
      /\ ExtentAlong("x", k) = 1 /\ ExtentAlong("y", k) = 1 /\ ExtentAlong("z", k) = k
  BY DEF Axes, GaussAlong, ExtentAlong
<1>3. /\ pass(1) = Stencil("gaussX", 1) /\ pass(2) = Stencil("gaussY", 1)
      /\ pass(3) = Stencil("gaussZ", k)
  BY <1>2
<1> HIDE DEF pass
<1>4. \A j \in 1 .. 3 : pass(j) \in S
  <2>1. \A j \in 1 .. 3 : j = 1 \/ j = 2 \/ j = 3
    OBVIOUS
  <2> QED
    BY <1>3, <2>1
<1> HIDE DEF S
<1>5. s \in Seq(S) /\ Len(s) = 3 /\ s[1] = pass(1) /\ s[2] = pass(2) /\ s[3] = pass(3)
  BY <1>4
<1> HIDE DEF s
<1> QED
  BY <1>1, <1>3, <1>5 DEF S

\* The blur is three Gaussians, one along each axis.
LEMMA BlurIs ==
  ASSUME NEW term
  PROVE  Blur(term) = <<"gaussZ", <<"gaussY", <<"gaussX", term>>>>>>
<1>1. Applied("gaussX", 1, term) = <<"gaussX", term>>
  BY AppliedOnce
<1>2. Applied("gaussY", 1, <<"gaussX", term>>) = <<"gaussY", <<"gaussX", term>>>>
  BY AppliedOnce
<1>3. Applied("gaussZ", 1, <<"gaussY", <<"gaussX", term>>>>)
        = <<"gaussZ", <<"gaussY", <<"gaussX", term>>>>>>
  BY AppliedOnce
<1> QED
  BY <1>1, <1>2, <1>3 DEF Blur

\* A link of a chain: a stencil and what the current buffer means after it.
Link(fn, extent, term, reach) == [fn |-> fn, extent |-> extent, term |-> term, reach |-> reach]

\* The image, blurred once.
LEMMA BlurChain ==
  ASSUME NEW plan, NEW k \in Nat, k % 2 = 1, plan.steps[1] = SendStep(In, "cur"),
         plan.steps[2] = Stencil("gaussX", 1), plan.steps[3] = Stencil("gaussY", 1),
         plan.steps[4] = Stencil("gaussZ", k)
  PROVE  \E c : Chain(plan, 1, 4, c) /\ c[4].term = Blur(In) /\ c[4].reach = k \div 2
<1> DEFINE x == <<"gaussX", In>>
           y == <<"gaussY", x>>
           z == <<"gaussZ", y>>
           h == k \div 2
           c == [i \in 1 .. 4 |->
                   CASE i = 1 -> Link("gaussX", 1, In, 0)
                     [] i = 2 -> Link("gaussX", 1, x, 0)
                     [] i = 3 -> Link("gaussY", 1, y, 0)
                     [] i = 4 -> Link("gaussZ", k, z, h)]
<1>1. h \in Nat /\ 0 + h = h /\ 1 % 2 = 1 /\ 0 + 1 \div 2 = 0 /\ 1 \in Nat
  OBVIOUS
<1>2. z = Blur(In)
  BY BlurIs
<1> HIDE DEF h
<1>3. /\ c[1] = Link("gaussX", 1, In, 0) /\ c[2] = Link("gaussX", 1, x, 0)
      /\ c[3] = Link("gaussY", 1, y, 0) /\ c[4] = Link("gaussZ", k, z, h)
  OBVIOUS
<1> HIDE DEF c
<1>4. /\ c[1].term = In /\ c[1].reach = 0
      /\ c[2].fn = "gaussX" /\ c[2].extent = 1 /\ c[2].term = x /\ c[2].reach = 0
      /\ c[3].fn = "gaussY" /\ c[3].extent = 1 /\ c[3].term = y /\ c[3].reach = 0
      /\ c[4].fn = "gaussZ" /\ c[4].extent = k /\ c[4].term = z /\ c[4].reach = h
  BY <1>3 DEF Link
<1>5. ASSUME NEW i \in 1 + 1 .. 4
      PROVE  /\ plan.steps[i] = Stencil(c[i].fn, c[i].extent)
             /\ c[i].extent \in Nat /\ c[i].extent % 2 = 1
             /\ c[i].term = <<c[i].fn, c[i - 1].term>>
             /\ c[i].reach = c[i - 1].reach + c[i].extent \div 2
  <2>1. (i = 2 /\ i - 1 = 1) \/ (i = 3 /\ i - 1 = 2) \/ (i = 4 /\ i - 1 = 3)
    OBVIOUS
  <2> QED
    BY <1>1, <1>4, <2>1 DEF h
<1>6. Chain(plan, 1, 4, c)
  BY <1>4, <1>5 DEF Chain
<1> QED
  BY <1>2, <1>4, <1>6 DEF h

\* The image, blurred, and blurred again.
LEMMA BlurTwiceChain ==
  ASSUME NEW plan, NEW k \in Nat, k % 2 = 1, plan.steps[1] = SendStep(In, "cur"),
         plan.steps[2] = Stencil("gaussX", 1), plan.steps[3] = Stencil("gaussY", 1),
         plan.steps[4] = Stencil("gaussZ", k), plan.steps[5] = Stencil("gaussX", 1),
         plan.steps[6] = Stencil("gaussY", 1), plan.steps[7] = Stencil("gaussZ", k)
  PROVE  \E c : /\ Chain(plan, 1, 7, c)
                /\ c[7].term = Blur(Blur(In)) /\ c[7].reach = 2 * (k \div 2)
<1> DEFINE h == k \div 2
<1>1. h \in Nat /\ 0 + h = h /\ h + h = 2 * h /\ 1 % 2 = 1 /\ 1 \in Nat
      /\ 0 + 1 \div 2 = 0 /\ h + 1 \div 2 = h
  OBVIOUS
<1>2. PICK b : Chain(plan, 1, 4, b) /\ b[4].term = Blur(In) /\ b[4].reach = k \div 2
  BY BlurChain
<1> DEFINE x == <<"gaussX", Blur(In)>>
           y == <<"gaussY", x>>
           z == <<"gaussZ", y>>
           c == [i \in 1 .. 7 |->
                   CASE i = 5 -> Link("gaussX", 1, x, h)
                     [] i = 6 -> Link("gaussY", 1, y, h)
                     [] i = 7 -> Link("gaussZ", k, z, 2 * h)
                     [] OTHER -> b[i]]
<1>3. z = Blur(Blur(In))
  BY BlurIs
<1> HIDE DEF h
<1>4. /\ c[1] = b[1] /\ c[2] = b[2] /\ c[3] = b[3] /\ c[4] = b[4]
      /\ c[5] = Link("gaussX", 1, x, h) /\ c[6] = Link("gaussY", 1, y, h)
      /\ c[7] = Link("gaussZ", k, z, 2 * h)
  OBVIOUS
<1> HIDE DEF c
<1>5. /\ c[4].term = Blur(In) /\ c[4].reach = h
      /\ c[5].fn = "gaussX" /\ c[5].extent = 1 /\ c[5].term = x /\ c[5].reach = h
      /\ c[6].fn = "gaussY" /\ c[6].extent = 1 /\ c[6].term = y /\ c[6].reach = h
      /\ c[7].fn = "gaussZ" /\ c[7].extent = k /\ c[7].term = z /\ c[7].reach = 2 * h
  BY <1>2, <1>4 DEF Link, h
<1>6. ASSUME NEW i \in 1 + 1 .. 7
      PROVE  /\ plan.steps[i] = Stencil(c[i].fn, c[i].extent)
             /\ c[i].extent \in Nat /\ c[i].extent % 2 = 1
             /\ c[i].term = <<c[i].fn, c[i - 1].term>>
             /\ c[i].reach = c[i - 1].reach + c[i].extent \div 2
  <2>1. CASE i \in 1 + 1 .. 4
    <3>1. c[i] = b[i] /\ c[i - 1] = b[i - 1]
      <4>1. (i = 2 /\ i - 1 = 1) \/ (i = 3 /\ i - 1 = 2) \/ (i = 4 /\ i - 1 = 3)
        BY <2>1
      <4> QED
        BY <1>4, <4>1
    <3>2. /\ plan.steps[i] = Stencil(b[i].fn, b[i].extent)
          /\ b[i].extent \in Nat /\ b[i].extent % 2 = 1
          /\ b[i].term = <<b[i].fn, b[i - 1].term>>
          /\ b[i].reach = b[i - 1].reach + b[i].extent \div 2
      BY <1>2, <2>1, Zenon DEF Chain
    <3> QED
      BY <3>1, <3>2
  <2>2. CASE i \in 5 .. 7
    <3>1. (i = 5 /\ i - 1 = 4) \/ (i = 6 /\ i - 1 = 5) \/ (i = 7 /\ i - 1 = 6)
      BY <2>2
    <3> QED
      BY <1>1, <1>5, <3>1 DEF h
  <2>3. i \in 1 + 1 .. 4 \/ i \in 5 .. 7
    OBVIOUS
  <2> QED
    BY <2>1, <2>2, <2>3
<1>7. c[1].term = In /\ c[1].reach = 0 /\ plan.steps[1] = SendStep(In, "cur")
  BY <1>2, <1>4 DEF Chain
<1>8. Chain(plan, 1, 7, c)
  BY <1>6, <1>7 DEF Chain
<1> QED
  BY <1>3, <1>5, <1>8 DEF h

\* Steps repeated once, and twice.
LEMMA RepeatedOnce ==
  ASSUME NEW s
  PROVE  Repeat(s, 1) = s
<1> DEFINE seqs == [j \in 1 .. 1 |-> s]
<1>1. Repeat(s, 1) = FlattenSeq(seqs)
  BY DEF Repeat
<1>2. Len(seqs) = 1 /\ seqs[1] = s
  OBVIOUS
<1> HIDE DEF seqs
<1>3. PICK f : f[1] = seqs[1] /\ FlattenSeq(seqs) = f[Len(seqs)]
  <2>1. Len(seqs) \in Nat \ {0}
    BY <1>2
  <2> QED
    BY <2>1, FlattenSeqIs
<1> QED
  BY <1>1, <1>2, <1>3

\* A sequence repeated twice.
LEMMA RepeatedTwice ==
  ASSUME NEW s
  PROVE  Repeat(s, 2) = s \o s
<1> DEFINE seqs == [j \in 1 .. 2 |-> s]
<1>1. Repeat(s, 2) = FlattenSeq(seqs)
  BY DEF Repeat
<1>2. Len(seqs) = 2 /\ seqs[1] = s /\ seqs[2] = s
  OBVIOUS
<1> HIDE DEF seqs
<1>3. PICK f : /\ f[1] = seqs[1] /\ \A i \in 2 .. Len(seqs) : f[i] = f[i - 1] \o seqs[i]
               /\ FlattenSeq(seqs) = f[Len(seqs)]
  <2>1. Len(seqs) \in Nat \ {0}
    BY <1>2
  <2> QED
    BY <2>1, FlattenSeqIs
<1>4. f[2] = f[1] \o seqs[2]
  <2>1. 2 \in 2 .. Len(seqs) /\ 2 - 1 = 1
    BY <1>2
  <2>2. f[2] = f[2 - 1] \o seqs[2]
    BY <1>3, <2>1
  <2> QED
    BY <2>1, <2>2
<1> QED
  BY <1>1, <1>2, <1>3, <1>4

\* A Gaussian is the kernel's three passes, as often as it is asked for; once looks half the
\* kernel's extent along z further, and twice as far again.
THEOREM GaussianKeepsItsPromise ==
  \A k, length \in Nat : k % 2 = 1 =>
    /\ Keeps(cGaussian(k, 1), length, Blurred(k))
    /\ Keeps(cGaussian(k, 2), length, BlurredTwice(k))
<1> TAKE k, length \in Nat
<1> HAVE k % 2 = 1
<1> DEFINE s == SeparableMultiplySum(k)
           S == {Stencil("gaussX", 1), Stencil("gaussY", 1), Stencil("gaussZ", k)}
<1>1. /\ s \in Seq(S) /\ Len(s) = 3 /\ s[1] = Stencil("gaussX", 1)
      /\ s[2] = Stencil("gaussY", 1) /\ s[3] = Stencil("gaussZ", k)
  BY SeparableIs
<1>2. cGaussian(k, 1) = TwoBuffers(k, s) /\ cGaussian(k, 2) = TwoBuffers(k, s \o s)
  BY RepeatedOnce, RepeatedTwice DEF cGaussian
<1> HIDE DEF s, S
<1>3. /\ 1 \in 1 .. 3 /\ 2 \in 1 .. 3 /\ 3 \in 1 .. 3 /\ 1 + 1 = 2 /\ 2 + 1 = 3 /\ 3 + 1 = 4
  OBVIOUS
<1>4. Keeps(TwoBuffers(k, s), length, Blurred(k))
  <2> DEFINE plan == TwoBuffers(k, s)
  <2>1. /\ plan.ring = 2 /\ plan.scratch = 0 /\ plan.result = "cur"
        /\ plan.steps[1] = SendStep(In, "cur")
    BY <1>1, TwoBuffersIs
  <2>2. plan.steps \in Seq(S \cup {SendStep(In, "cur")}) /\ Len(plan.steps) = Len(s) + 1
    BY <1>1, TwoBuffersIs
  <2>3. \A i \in 1 .. Len(s) : plan.steps[i + 1] = s[i]
    BY <1>1, TwoBuffersStep
  <2> HIDE DEF plan
  <2>4. /\ plan.steps[2] = Stencil("gaussX", 1) /\ plan.steps[3] = Stencil("gaussY", 1)
        /\ plan.steps[4] = Stencil("gaussZ", k) /\ Len(plan.steps) = 4
    <3>1. plan.steps[1 + 1] = s[1] /\ plan.steps[2 + 1] = s[2] /\ plan.steps[3 + 1] = s[3]
      BY <1>1, <1>3, <2>3
    <3> QED
      BY <1>1, <1>3, <2>2, <3>1
  <2>5. PICK c : Chain(plan, 1, 4, c) /\ c[4].term = Blur(In) /\ c[4].reach = k \div 2
    BY <2>1, <2>4, BlurChain
  <2>6. Blurred(k).term = Blur(In) /\ Blurred(k).reach = k \div 2
    BY DEF Blurred, Promise
  <2>7. /\ plan.ring \in Nat /\ plan.ring >= 2 /\ plan.scratch \in Nat /\ plan.result = "cur"
        /\ Len(plan.steps) > 0 /\ Chain(plan, 1, Len(plan.steps), c)
        /\ Blurred(k).term = c[Len(plan.steps)].term
        /\ Blurred(k).reach = c[Len(plan.steps)].reach
    BY <2>1, <2>4, <2>5, <2>6
  <2>8. Keeps(plan, length, Blurred(k))
    BY <2>2, <2>7, ChainKeeps
  <2> QED
    BY <2>8 DEF plan
<1>5. Keeps(TwoBuffers(k, s \o s), length, BlurredTwice(k))
  <2> DEFINE t == s \o s
             plan == TwoBuffers(k, t)
  <2>1. /\ t \in Seq(S) /\ Len(t) = 6 /\ t[1] = s[1] /\ t[2] = s[2] /\ t[3] = s[3]
        /\ t[4] = s[1] /\ t[5] = s[2] /\ t[6] = s[3]
    <3>1. t \in Seq(S) /\ Len(t) = Len(s) + Len(s)
      BY <1>1, ConcatProperties
    <3>2. \A i \in 1 .. Len(s) + Len(s) : t[i] = IF i <= Len(s) THEN s[i] ELSE s[i - Len(s)]
      BY <1>1, ConcatProperties
    <3> HIDE DEF t
    <3> QED
      BY <1>1, <3>1, <3>2
  <2> HIDE DEF t
  <2>2. /\ plan.ring = 2 /\ plan.scratch = 0 /\ plan.result = "cur"
        /\ plan.steps[1] = SendStep(In, "cur")
    BY <2>1, TwoBuffersIs
  <2>3. plan.steps \in Seq(S \cup {SendStep(In, "cur")}) /\ Len(plan.steps) = Len(t) + 1
    BY <2>1, TwoBuffersIs
  <2>4. \A i \in 1 .. Len(t) : plan.steps[i + 1] = t[i]
    BY <2>1, TwoBuffersStep
  <2> HIDE DEF plan
  <2>5. /\ plan.steps[2] = Stencil("gaussX", 1) /\ plan.steps[3] = Stencil("gaussY", 1)
        /\ plan.steps[4] = Stencil("gaussZ", k) /\ plan.steps[5] = Stencil("gaussX", 1)
        /\ plan.steps[6] = Stencil("gaussY", 1) /\ plan.steps[7] = Stencil("gaussZ", k)
        /\ Len(plan.steps) = 7
    <3>1. /\ plan.steps[1 + 1] = t[1] /\ plan.steps[2 + 1] = t[2] /\ plan.steps[3 + 1] = t[3]
          /\ plan.steps[4 + 1] = t[4] /\ plan.steps[5 + 1] = t[5] /\ plan.steps[6 + 1] = t[6]
      BY <2>1, <2>4
    <3> QED
      BY <1>1, <2>1, <2>3, <3>1
  <2>6. PICK c : /\ Chain(plan, 1, 7, c)
                 /\ c[7].term = Blur(Blur(In)) /\ c[7].reach = 2 * (k \div 2)
    BY <2>2, <2>5, BlurTwiceChain
  <2>7. BlurredTwice(k).term = Blur(Blur(In)) /\ BlurredTwice(k).reach = 2 * (k \div 2)
    BY DEF BlurredTwice, Promise
  <2>8. /\ plan.ring \in Nat /\ plan.ring >= 2 /\ plan.scratch \in Nat /\ plan.result = "cur"
        /\ Len(plan.steps) > 0 /\ Chain(plan, 1, Len(plan.steps), c)
        /\ BlurredTwice(k).term = c[Len(plan.steps)].term
        /\ BlurredTwice(k).reach = c[Len(plan.steps)].reach
    BY <2>2, <2>5, <2>6, <2>7
  <2>9. Keeps(plan, length, BlurredTwice(k))
    BY <2>3, <2>8, ChainKeeps
  <2> QED
    BY <2>9 DEF plan, t
<1> QED
  BY <1>2, <1>4, <1>5

\* A high pass is the image less the image blurred.
THEOREM HighPassKeepsItsPromise ==
  \A k, length \in Nat : k % 2 = 1 => Keeps(cHighPassFilter(k), length, HighPassed(k))
<1> TAKE k, length \in Nat
<1> HAVE k % 2 = 1
<1> DEFINE s == SeparableMultiplySum(k)
           S == {Stencil("gaussX", 1), Stencil("gaussY", 1), Stencil("gaussZ", k)}
           send == SendStep(In, "next")
           last == LaunchStep("difference", <<AtVoxel("next"), AtVoxel("cur")>>, "third", FALSE)
           t == s \o <<send, last>>
           of == TwoBuffers(k, t)
           plan == cHighPassFilter(k)
           U == S \cup {send, last}
<1>1. /\ s \in Seq(S) /\ Len(s) = 3 /\ s[1] = Stencil("gaussX", 1)
      /\ s[2] = Stencil("gaussY", 1) /\ s[3] = Stencil("gaussZ", k)
  BY SeparableIs
<1>2. plan.steps = of.steps /\ plan.ring = 3 /\ plan.scratch = 0 /\ plan.result = "third"
  BY DEF cHighPassFilter, ThreeBuffers, TwoBuffers
<1>3. last = Aside("difference", "next", "cur", "third")
  BY DEF Aside
<1>4. HighPassed(k).term = <<"difference", In, Blur(In)>> /\ HighPassed(k).reach = k \div 2
  BY DEF HighPassed, Promise
<1> HIDE DEF plan, of, s, S, send, last
<1>5. /\ t \in Seq(U) /\ Len(t) = 5 /\ t[1] = s[1] /\ t[2] = s[2] /\ t[3] = s[3]
      /\ t[4] = send /\ t[5] = last
  <2> DEFINE e == <<send, last>>
  <2>1. e \in Seq(U) /\ Len(e) = 2 /\ e[1] = send /\ e[2] = last
    OBVIOUS
  <2>2. s \in Seq(U)
    BY <1>1
  <2> HIDE DEF e, U
  <2>3. s \o e \in Seq(U) /\ Len(s \o e) = Len(s) + Len(e)
    BY <2>1, <2>2, ConcatProperties
  <2>4. \A i \in 1 .. Len(s) + Len(e) : (s \o e)[i] = IF i <= Len(s) THEN s[i] ELSE e[i - Len(s)]
    BY <2>1, <2>2, ConcatProperties
  <2>5. t = s \o e
    BY DEF e
  <2> HIDE DEF t
  <2> QED
    BY <1>1, <2>1, <2>3, <2>4, <2>5
<1> HIDE DEF t, U
<1>6. /\ plan.steps[1] = SendStep(In, "cur") /\ Len(plan.steps) = 4 + 2
      /\ plan.steps \in Seq(U \cup {SendStep(In, "cur")})
      /\ plan.steps[2] = Stencil("gaussX", 1) /\ plan.steps[3] = Stencil("gaussY", 1)
      /\ plan.steps[4] = Stencil("gaussZ", k) /\ plan.steps[4 + 1] = send
      /\ plan.steps[4 + 2] = last
  <2>1. of.steps[1] = SendStep(In, "cur")
    BY <1>5, TwoBuffersIs DEF of
  <2>2. of.steps \in Seq(U \cup {SendStep(In, "cur")}) /\ Len(of.steps) = Len(t) + 1
    BY <1>5, TwoBuffersIs DEF of
  <2>3. \A i \in 1 .. Len(t) : of.steps[i + 1] = t[i]
    BY <1>5, TwoBuffersStep DEF of
  <2>4. /\ of.steps[1 + 1] = t[1] /\ of.steps[2 + 1] = t[2] /\ of.steps[3 + 1] = t[3]
        /\ of.steps[4 + 1] = t[4] /\ of.steps[5 + 1] = t[5]
    BY <1>5, <2>3
  <2> QED
    BY <1>1, <1>2, <1>5, <2>1, <2>2, <2>4
<1>7. PICK c : Chain(plan, 1, 4, c) /\ c[4].term = Blur(In) /\ c[4].reach = k \div 2
  BY <1>6, BlurChain
<1>8. Differs(plan.steps[4 + 2], HighPassed(k).term, c[4].term, In)
  BY <1>3, <1>4, <1>6, <1>7 DEF Differs
<1>9. 4 \in Nat \ {0} /\ HighPassed(k).reach = c[4].reach
  BY <1>4, <1>7
<1>10. Keeps(plan, length, HighPassed(k))
  BY <1>2, <1>6, <1>7, <1>8, <1>9, DifferenceKeeps DEF send
<1> QED
  BY <1>10 DEF plan

-----------------------------------------------------------------------------
\* What a reduction leaves: a number more, and the buffers.
LEMMA ReduceIs ==
  ASSUME NEW plan, NEW length, NEW now, NEW fn, NEW role,
         NEW then, then = After(plan, length, now, ReduceStep(fn, role))
  PROVE  /\ then.cur = now.cur /\ DOMAIN then.buffers = DOMAIN now.buffers
         /\ then.scalars = Append(now.scalars, Of(fn, Held(plan, now, role).term))
         /\ \A b \in DOMAIN now.buffers : then.buffers[b] = now.buffers[b]
<1> DEFINE s == ReduceStep(fn, role)
<1>1. s.op = "reduce" /\ s.fn = fn /\ s.of = role /\ Written(s) = {}
  BY DEF ReduceStep, Written
<1>2. then = After(plan, length, now, s)
  OBVIOUS
<1> HIDE DEF s
<1>3. /\ then.cur = now.cur
      /\ then.scalars = Append(now.scalars, Of(fn, Held(plan, now, role).term))
  BY <1>1, <1>2 DEF After, Of
<1>4. then.buffers = [b \in DOMAIN now.buffers |->
        IF b \in {RoleBuffer(plan, now.cur, r) : r \in Written(s)}
        THEN Output(plan, length, now, s) ELSE now.buffers[b]]
  BY <1>2 DEF After
<1>5. \A b : b \notin {RoleBuffer(plan, now.cur, r) : r \in Written(s)}
  BY <1>1
<1> DEFINE left == {RoleBuffer(plan, now.cur, r) : r \in Written(s)}
<1> HIDE DEF left
<1>6. then.buffers = [b \in DOMAIN now.buffers |-> now.buffers[b]]
  BY <1>4, <1>5 DEF left
<1> QED
  BY <1>3, <1>6, Zenon

\* Two steps before two.
LEMMA JoinedPairs ==
  ASSUME NEW a, NEW b, NEW c, NEW d
  PROVE  <<a, b>> \o <<c, d>> = <<a, b, c, d>>
<1> DEFINE u == <<a, b>>
           v == <<c, d>>
<1>1. /\ u \in Seq({a, b, c, d}) /\ v \in Seq({a, b, c, d}) /\ Len(u) = 2 /\ Len(v) = 2
      /\ u[1] = a /\ u[2] = b /\ v[1] = c /\ v[2] = d
  OBVIOUS
<1> HIDE DEF u, v
<1>2. u \o v = [i \in 1 .. Len(u) + Len(v) |-> IF i <= Len(u) THEN u[i] ELSE v[i - Len(u)]]
  BY <1>1, JoinedIs
<1>3. u \o v = [i \in 1 .. 4 |-> IF i <= 2 THEN (IF i = 1 THEN a ELSE b)
                                  ELSE IF i = 3 THEN c ELSE d]
  BY <1>1, <1>2
<1>4. [i \in 1 .. 4 |-> IF i <= 2 THEN (IF i = 1 THEN a ELSE b) ELSE IF i = 3 THEN c ELSE d]
        = <<a, b, c, d>>
  OBVIOUS
<1> QED
  BY <1>3, <1>4 DEF u, v

\* The last launch of the Wiener filter: of the current buffer, and two numbers.
LEMMA WienerIs ==
  ASSUME NEW plan, NEW length \in Nat, NEW now, NEW k \in Nat, k \div 2 <= length,
         Means(Held(plan, now, "cur"), In, 0), NEW first, NEW second,
         now.scalars = <<first, second>>
  PROVE  Means(Computed(plan, length, now, Stencil("wiener", k)),
               <<"wiener", In, first, second>>, length)
<1> DEFINE s == Stencil("wiener", k)
           found == Held(plan, now, "cur")
<1>1. /\ s.fn = "wiener" /\ DOMAIN s.reads = 1 .. 1
      /\ s.reads[1].role = "cur" /\ s.reads[1].extent = k
  BY DEF Stencil, LaunchStep, Near
<1>2. \A x \in found.reaches : x \in 0 .. 0
  BY DEF Means
<1>3. found.term = In
  BY DEF Means
<1> HIDE DEF s
<1>4. ASSUME NEW r \in DOMAIN s.reads PROVE s.reads[r].role = "cur" /\ s.reads[r].extent = k
  <2>1. r = 1
    BY <1>1
  <2> QED
    BY <1>1, <2>1
<1>5. ASSUME NEW r \in DOMAIN s.reads, NEW x \in Held(plan, now, s.reads[r].role).reaches
      PROVE  x + s.reads[r].extent \div 2 \in 0 .. length
  <2>1. s.reads[r].extent = k /\ x \in 0 .. 0 /\ x = 0
    BY <1>2, <1>4
  <2>2. k \div 2 \in Nat
    OBVIOUS
  <2> QED
    BY <2>1, <2>2
<1> DEFINE t == <<s.fn>> \o [r \in DOMAIN s.reads |-> Held(plan, now, s.reads[r].role).term]
                  \o now.scalars
<1>6. Means(Computed(plan, length, now, s), t, length)
  <2>1. now.scalars # <<>> => length \in 0 .. length
    OBVIOUS
  <2> QED
    BY <1>5, <2>1, ComputedHolds
<1>7. t = <<"wiener", In, first, second>>
  <2>1. [r \in DOMAIN s.reads |-> Held(plan, now, s.reads[r].role).term] = [r \in 1 .. 1 |-> In]
    BY <1>1, <1>3, <1>4
  <2>2. [r \in 1 .. 1 |-> In] = <<In>>
    OBVIOUS
  <2>3. <<"wiener">> \o <<In>> = <<"wiener", In>>
    BY JoinedTwo
  <2>4. <<"wiener", In>> \o <<first, second>> = <<"wiener", In, first, second>>
    BY JoinedPairs
  <2> QED
    BY <1>1, <2>1, <2>2, <2>3, <2>4
<1> QED
  BY <1>6, <1>7 DEF s

\* A reduction is well formed.
LEMMA ReduceFormed ==
  ASSUME NEW plan, NEW fn, NEW role \in Roles(plan)
  PROVE  /\ StepFormed(plan, ReduceStep(fn, role)) /\ ReduceStep(fn, role).op = "reduce"
         /\ Used(ReduceStep(fn, role)) = {role}
<1> DEFINE s == ReduceStep(fn, role)
<1>1. s.op = "reduce" /\ Written(s) = {} /\ Used(s) = {role}
  BY DEF ReduceStep, Written, Used
<1> HIDE DEF s
<1>2. StepFormed(plan, s)
  BY <1>1 DEF StepFormed
<1> QED
  BY <1>1, <1>2 DEF s

\* The steps of the Wiener filter that estimates the noise.
Variance(k) == LaunchStep("var", <<Near("cur", k)>>, "next", FALSE)

\* That launch is well formed.
LEMMA VarianceFormed ==
  ASSUME NEW plan, NEW k \in Nat, k % 2 = 1
  PROVE  /\ StepFormed(plan, Variance(k)) /\ Variance(k).op = "launch" /\ ~Variance(k).increment
         /\ Variance(k).into = "next" /\ Used(Variance(k)) = {"cur"}
<1> DEFINE s == Variance(k)
<1>1. /\ s.op = "launch" /\ ~s.increment /\ s.into = "next" /\ s.reads = OneRead("cur", k)
  BY DEF Variance, LaunchStep, OneRead
<1>2. s.increment \in BOOLEAN
  BY DEF Variance, LaunchStep
<1> HIDE DEF s
<1>3. "cur" \in Roles(plan) /\ s.into \in Roles(plan)
  BY <1>1 DEF Roles
<1>4. StepFormed(plan, s)
  BY <1>1, <1>2, <1>3, OneReadForm
<1>5. Used(s) = {"cur"}
  BY <1>1, <1>2, <1>3, OneReadForm
<1> QED
  BY <1>1, <1>4, <1>5 DEF s

\* One number, then a second.
LEMMA AppendedIs ==
  ASSUME NEW a, NEW b
  PROVE  Append(<<>>, a) = <<a>> /\ Append(<<a>>, b) = <<a, b>>
<1> DEFINE e == <<>>
           u == <<a>>
           v == <<b>>
<1>1. e \in Seq({a, b}) /\ u \in Seq({a, b}) /\ v \in Seq({a, b})
  OBVIOUS
<1>2. u \o v = <<a, b>>
  BY JoinedTwo
<1> HIDE DEF e, u, v
<1>3. Append(e, a) = e \o u
  BY <1>1, AppendIsConcat DEF u
<1>4. Append(u, b) = u \o v
  BY <1>1, AppendIsConcat DEF v
<1>5. e \o u = u
  BY <1>1, ConcatEmptySeq DEF e
<1> QED
  BY <1>2, <1>3, <1>4, <1>5 DEF e, u

\* The steps of the Wiener filter that estimates its noise.
Estimated(plan, k) ==
  /\ plan.steps[1] = SendStep(In, "cur") /\ plan.steps[2] = Variance(k)
  /\ plan.steps[3] = ReduceStep("sum", "next") /\ plan.steps[4] = ReduceStep("max", "cur")
  /\ plan.steps[5] = Stencil("wiener", k)

\* What each of them leaves.
LEMMA EstimatedRuns ==
  ASSUME NEW plan, Len(plan.steps) = 5, plan.ring = 2, plan.scratch = 0, plan.result = "cur",
         NEW k \in Nat, k % 2 = 1, Estimated(plan, k), NEW length \in Nat, k \div 2 <= length,
         NEW base \in 0 .. plan.ring - 1
  PROVE  LET after == StepByStep(plan, length, base)
         IN /\ Held(plan, after[1], "cur").known = TRUE /\ Held(plan, after[2], "next").known = TRUE
            /\ Held(plan, after[3], "cur").known = TRUE /\ Held(plan, after[4], "cur").known = TRUE
            /\ Means(Held(plan, after[5], "cur"), DenoisedByEstimate(length).term, length)
<1> DEFINE after == StepByStep(plan, length, base)
           v == Of("sum", <<"var", In>>)
           m == Of("max", In)
<1>1. /\ after[1] = After(plan, length, after[0], SendStep(In, "cur"))
      /\ after[2] = After(plan, length, after[1], Variance(k))
      /\ after[3] = After(plan, length, after[2], ReduceStep("sum", "next"))
      /\ after[4] = After(plan, length, after[3], ReduceStep("max", "cur"))
      /\ after[5] = After(plan, length, after[4], Stencil("wiener", k))
  <2>1. Len(plan.steps) \in Nat
    OBVIOUS
  <2>2. \A j \in 1 .. Len(plan.steps) : after[j] = After(plan, length, after[j - 1], plan.steps[j])
    BY <2>1, StepByStepIs
  <2> HIDE DEF after
  <2>3. /\ after[1] = After(plan, length, after[1 - 1], plan.steps[1])
        /\ after[2] = After(plan, length, after[2 - 1], plan.steps[2])
        /\ after[3] = After(plan, length, after[3 - 1], plan.steps[3])
        /\ after[4] = After(plan, length, after[4 - 1], plan.steps[4])
        /\ after[5] = After(plan, length, after[5 - 1], plan.steps[5])
    BY <2>2
  <2>4. 1 - 1 = 0 /\ 2 - 1 = 1 /\ 3 - 1 = 2 /\ 4 - 1 = 3 /\ 5 - 1 = 4
    OBVIOUS
  <2> QED
    BY <2>3, <2>4 DEF Estimated
<1>2. Ready(plan, after[0])
  <2>1. plan.ring \in Nat /\ plan.ring >= 2 /\ plan.scratch \in Nat /\ Len(plan.steps) \in Nat
    OBVIOUS
  <2> QED
    BY <2>1, FirstIsReady
<1> HIDE DEF after
<1> DEFINE cur == after[0].cur
           next == RoleBuffer(plan, cur, "next")
<1>3. /\ RoleBuffer(plan, cur, "cur") = cur /\ cur \in Bufs(plan) /\ next \in Bufs(plan)
      /\ next # cur /\ next = (cur + 1) % plan.ring
  <2>1. /\ RoleBuffer(plan, cur, "cur") = cur
        /\ RoleBuffer(plan, cur, "next") = (cur + 1) % plan.ring
        /\ (cur + 1) % plan.ring \in 0 .. plan.ring - 1
        /\ (cur + 1) % plan.ring # cur
        /\ 0 .. plan.ring - 1 \subseteq Bufs(plan)
    BY <1>2, RolesAre
  <2>2. cur \in 0 .. plan.ring - 1
    BY <1>2 DEF Ready
  <2> QED
    BY <2>1, <2>2
<1>4. Ready(plan, after[1]) /\ after[1].cur = cur /\ Means(after[1].buffers[cur], In, 0)
  <2>1. RoleBuffer(plan, cur, "cur") \in Bufs(plan)
    BY <1>3
  <2> QED
    BY <1>1, <1>2, <1>3, <2>1, SendIs
<1>5. Held(plan, after[1], "cur") = after[1].buffers[cur]
  BY <1>3, <1>4 DEF Held
<1>6. /\ Ready(plan, after[2]) /\ after[2].cur = cur
      /\ after[2].buffers[cur] = after[1].buffers[cur]
      /\ Means(after[2].buffers[next], <<"var", In>>, k \div 2)
  <2> DEFINE now == after[1]
             s == Variance(k)
  <2>1. s.op = "launch" /\ ~s.increment /\ s.into = "next"
    BY VarianceFormed
  <2>2. Means(Computed(plan, length, now, s), <<"var", In>>, 0 + k \div 2)
    <3>1. now.scalars = <<>> /\ Means(Held(plan, now, "cur"), In, 0) /\ 0 \in Nat
      BY <1>4, <1>5 DEF Ready
    <3> QED
      BY <3>1, ComputedOfOne DEF Variance
  <2>3. RoleBuffer(plan, now.cur, s.into) = next
    BY <1>4, <2>1
  <2> HIDE DEF now, s, next
  <2>4. LET then == After(plan, length, now, s)
            into == RoleBuffer(plan, now.cur, s.into)
        IN /\ Ready(plan, then) /\ then.cur = now.cur
           /\ then.buffers[into] = Computed(plan, length, now, s)
           /\ \A b \in Bufs(plan) \ {into} : then.buffers[b] = now.buffers[b]
    <3>1. Ready(plan, now) /\ RoleBuffer(plan, now.cur, s.into) \in Bufs(plan)
      BY <1>3, <1>4, <2>3 DEF now
    <3> QED
      BY <2>1, <3>1, AsideIs
  <2>5. 0 + k \div 2 = k \div 2
    OBVIOUS
  <2> QED
    BY <1>1, <1>3, <1>4, <2>2, <2>3, <2>4, <2>5 DEF now, s
<1>7. /\ Held(plan, after[2], "cur") = after[2].buffers[cur]
      /\ Held(plan, after[2], "next") = after[2].buffers[next]
      /\ after[2].scalars = <<>> /\ DOMAIN after[2].buffers = Bufs(plan)
  BY <1>3, <1>6 DEF Held, Ready
<1>8. /\ after[3].cur = cur /\ DOMAIN after[3].buffers = Bufs(plan)
      /\ after[3].scalars = <<v>>
      /\ \A b \in Bufs(plan) : after[3].buffers[b] = after[2].buffers[b]
  <2>1. Held(plan, after[2], "next").term = <<"var", In>>
    BY <1>6, <1>7 DEF Means
  <2>2. /\ after[3].cur = after[2].cur /\ DOMAIN after[3].buffers = DOMAIN after[2].buffers
        /\ after[3].scalars = Append(after[2].scalars, Of("sum", Held(plan, after[2], "next").term))
        /\ \A b \in DOMAIN after[2].buffers : after[3].buffers[b] = after[2].buffers[b]
    BY <1>1, ReduceIs
  <2>3. after[3].scalars = Append(<<>>, v)
    BY <1>7, <2>1, <2>2, Zenon
  <2> HIDE DEF v
  <2>4. Append(<<>>, v) = <<v>>
    BY AppendedIs
  <2> QED
    BY <1>6, <1>7, <2>2, <2>3, <2>4
<1>9. Held(plan, after[3], "cur") = after[1].buffers[cur]
  BY <1>3, <1>6, <1>8 DEF Held
<1>10. /\ after[4].cur = cur /\ DOMAIN after[4].buffers = Bufs(plan)
       /\ after[4].scalars = <<v, m>>
       /\ \A b \in Bufs(plan) : after[4].buffers[b] = after[3].buffers[b]
  <2>1. Held(plan, after[3], "cur").term = In
    BY <1>4, <1>9 DEF Means
  <2>2. /\ after[4].cur = after[3].cur /\ DOMAIN after[4].buffers = DOMAIN after[3].buffers
        /\ after[4].scalars = Append(after[3].scalars, Of("max", Held(plan, after[3], "cur").term))
        /\ \A b \in DOMAIN after[3].buffers : after[4].buffers[b] = after[3].buffers[b]
    BY <1>1, ReduceIs
  <2>3. after[4].scalars = Append(<<v>>, m)
    BY <1>8, <2>1, <2>2, Zenon
  <2> HIDE DEF v, m
  <2>4. Append(<<v>>, m) = <<v, m>>
    BY AppendedIs
  <2> QED
    BY <1>8, <2>2, <2>3, <2>4
<1>11. Held(plan, after[4], "cur") = after[1].buffers[cur]
  BY <1>3, <1>6, <1>8, <1>10 DEF Held
<1> HIDE DEF v, m
<1>12. Means(Computed(plan, length, after[4], Stencil("wiener", k)), <<"wiener", In, v, m>>, length)
  BY <1>4, <1>10, <1>11, WienerIs
<1>13. Held(plan, after[5], "cur") = Computed(plan, length, after[4], Stencil("wiener", k))
  <2> DEFINE s == Stencil("wiener", k)
             now == after[4]
             c == next
  <2>1. s.op = "launch" /\ s.increment = TRUE /\ s.into = "next"
    BY DEF Stencil, LaunchStep
  <2>2. Output(plan, length, now, s) = Computed(plan, length, now, s)
    BY <2>1 DEF Output
  <2>3. c = IF s.op = "launch" /\ s.increment THEN (now.cur + 1) % plan.ring ELSE now.cur
    <3>1. c = (now.cur + 1) % plan.ring
      BY <1>3, <1>10
    <3> QED
      BY <2>1, <3>1
  <2>4. RoleBuffer(plan, now.cur, s.into) = c /\ c \in DOMAIN now.buffers
    BY <1>3, <1>10, <2>1
  <2> HIDE DEF s, now, c
  <2>5. LET then == After(plan, length, now, s)
            into == RoleBuffer(plan, now.cur, s.into)
        IN /\ then.cur = c
           /\ into \in DOMAIN now.buffers => then.buffers[into] = Output(plan, length, now, s)
    <3>1. s.op \in {"send", "clear", "launch"}
      BY <2>1
    <3> QED
      BY <2>3, <3>1, AfterIs
  <2>6. after[5].cur = c /\ after[5].buffers[c] = Computed(plan, length, now, s)
    BY <1>1, <2>2, <2>4, <2>5 DEF s, now
  <2>7. RoleBuffer(plan, c, "cur") = c
    <3>1. c \in 0 .. 1 /\ c % 2 = c /\ c + 0 = c
      <4>1. (cur + 1) % 2 \in 0 .. 1
        BY <1>2 DEF Ready
      <4>2. c \in 0 .. 1
        BY <1>3, <4>1 DEF c
      <4> QED
        BY <4>2
    <3> QED
      BY <3>1 DEF RoleBuffer
  <2> QED
    BY <2>6, <2>7 DEF Held, s, now
<1>14. DenoisedByEstimate(length).term = <<"wiener", In, v, m>>
  BY DEF DenoisedByEstimate, Promise, v, m, Of
<1>15. /\ Held(plan, after[1], "cur").known = TRUE /\ Held(plan, after[2], "next").known = TRUE
       /\ Held(plan, after[3], "cur").known = TRUE /\ Held(plan, after[4], "cur").known = TRUE
  BY <1>4, <1>5, <1>6, <1>7, <1>9, <1>11 DEF Means
<1> QED
  BY <1>12, <1>13, <1>14, <1>15 DEF after

\* Without a noise variance the Wiener filter computes with the one it estimates: the local
\* variances summed and the greatest value, of the whole image.
THEOREM WienerEstimateKeepsItsPromise ==
  \A k, length \in Nat : k % 2 = 1 /\ k \div 2 <= length =>
    Keeps(cWienerFilter(k, FALSE), length, DenoisedByEstimate(length))
<1> TAKE k, length \in Nat
<1> HAVE k % 2 = 1 /\ k \div 2 <= length
<1> DEFINE sum == ReduceStep("sum", "next")
           max == ReduceStep("max", "cur")
           s == <<Variance(k), sum, max>>
           w == <<Stencil("wiener", k)>>
           t == s \o w
           S == {Variance(k), sum, max, Stencil("wiener", k)}
           plan == TwoBuffers(k, t)
           promise == DenoisedByEstimate(length)
<1>1. cWienerFilter(k, FALSE) = plan
  BY DEF cWienerFilter, Variance
<1>2. /\ s \in Seq(S) /\ Len(s) = 3 /\ s[1] = Variance(k) /\ s[2] = sum /\ s[3] = max
      /\ w \in Seq(S) /\ Len(w) = 1 /\ w[1] = Stencil("wiener", k)
  OBVIOUS
<1> HIDE DEF s, w, S
<1>3. /\ t \in Seq(S) /\ Len(t) = 4 /\ t[1] = Variance(k) /\ t[2] = sum /\ t[3] = max
      /\ t[4] = Stencil("wiener", k)
  <2>1. t \in Seq(S) /\ Len(t) = Len(s) + Len(w)
    BY <1>2, ConcatProperties
  <2>2. \A i \in 1 .. Len(s) + Len(w) : t[i] = IF i <= Len(s) THEN s[i] ELSE w[i - Len(s)]
    BY <1>2, ConcatProperties
  <2> HIDE DEF t, sum, max
  <2> QED
    BY <1>2, <2>1, <2>2
<1> HIDE DEF t
<1>4. /\ plan.ring = 2 /\ plan.scratch = 0 /\ plan.result = "cur"
      /\ plan.steps[1] = SendStep(In, "cur")
  BY <1>3, TwoBuffersIs
<1>5. plan.steps \in Seq(S \cup {SendStep(In, "cur")}) /\ Len(plan.steps) = Len(t) + 1
  BY <1>3, TwoBuffersIs
<1>6. \A i \in 1 .. Len(t) : plan.steps[i + 1] = t[i]
  BY <1>3, TwoBuffersStep
<1> HIDE DEF plan
<1>7. Estimated(plan, k) /\ Len(plan.steps) = 5
  <2>1. /\ plan.steps[1 + 1] = t[1] /\ plan.steps[2 + 1] = t[2] /\ plan.steps[3 + 1] = t[3]
        /\ plan.steps[4 + 1] = t[4]
    BY <1>3, <1>6
  <2> HIDE DEF sum, max
  <2>2. /\ plan.steps[2] = Variance(k) /\ plan.steps[3] = sum /\ plan.steps[4] = max
        /\ plan.steps[5] = Stencil("wiener", k) /\ Len(plan.steps) = 5
    BY <1>3, <1>5, <2>1
  <2> QED
    BY <1>4, <2>2 DEF Estimated, sum, max
<1> HIDE DEF promise
<1>8. /\ StepFormed(plan, SendStep(In, "cur")) /\ SendStep(In, "cur").op = "send"
      /\ Used(SendStep(In, "cur")) = {}
      /\ StepFormed(plan, Variance(k)) /\ Variance(k).op = "launch" /\ Used(Variance(k)) = {"cur"}
      /\ StepFormed(plan, sum) /\ sum.op = "reduce" /\ Used(sum) = {"next"}
      /\ StepFormed(plan, max) /\ max.op = "reduce" /\ Used(max) = {"cur"}
      /\ StepFormed(plan, Stencil("wiener", k)) /\ Stencil("wiener", k).op = "launch"
      /\ Used(Stencil("wiener", k)) = {"cur"}
  <2>1. "cur" \in Roles(plan) /\ "next" \in Roles(plan)
    BY DEF Roles
  <2>2. /\ StepFormed(plan, SendStep(In, "cur")) /\ SendStep(In, "cur").op = "send"
        /\ Used(SendStep(In, "cur")) = {}
    BY <2>1, SendForm, SendFormed
  <2>3. /\ StepFormed(plan, Variance(k)) /\ Variance(k).op = "launch"
        /\ Used(Variance(k)) = {"cur"}
    BY VarianceFormed
  <2>4. \A fn : \A role \in Roles(plan) :
          /\ StepFormed(plan, ReduceStep(fn, role)) /\ ReduceStep(fn, role).op = "reduce"
          /\ Used(ReduceStep(fn, role)) = {role}
    BY ReduceFormed
  <2>5. /\ StepFormed(plan, sum) /\ sum.op = "reduce" /\ Used(sum) = {"next"}
        /\ StepFormed(plan, max) /\ max.op = "reduce" /\ Used(max) = {"cur"}
    BY <2>1, <2>4
  <2>6. /\ StepFormed(plan, Stencil("wiener", k)) /\ Stencil("wiener", k).op = "launch"
        /\ Used(Stencil("wiener", k)) = {"cur"}
    BY StencilFormed
  <2> QED
    BY <2>2, <2>3, <2>4, <2>5, <2>6
<1> HIDE DEF sum, max
<1>9. /\ plan.steps[1] = SendStep(In, "cur") /\ plan.steps[2] = Variance(k)
      /\ plan.steps[3] = sum /\ plan.steps[4] = max /\ plan.steps[5] = Stencil("wiener", k)
  BY <1>7 DEF Estimated, sum, max
<1>10. \A i \in 1 .. Len(plan.steps) : i = 1 \/ i = 2 \/ i = 3 \/ i = 4 \/ i = 5
  BY <1>7
<1>11. WellFormed(plan)
  <2>1. \A i \in 1 .. Len(plan.steps) :
          StepFormed(plan, plan.steps[i]) /\ plan.steps[i].op # "clear"
    BY <1>8, <1>9, <1>10
  <2>2. \A i \in 2 .. Len(plan.steps) : i \in 1 .. Len(plan.steps)
    BY <1>7
  <2>3. plan.result \in Roles(plan)
    BY <1>4 DEF Roles
  <2> QED
    BY <1>5, <2>1, <2>2, <2>3, PlanFormed
<1>12. promise.reach = length
  BY DEF promise, DenoisedByEstimate, Promise
<1>13. ASSUME NEW base \in 0 .. plan.ring - 1
       PROVE  /\ \A i \in 1 .. Len(plan.steps) : \A role \in Used(plan.steps[i]) :
                   Held(plan, StepByStep(plan, length, base)[i - 1], role).known = TRUE
              /\ Means(Held(plan, StepByStep(plan, length, base)[Len(plan.steps)], plan.result),
                       promise.term, promise.reach)
  <2> DEFINE after == StepByStep(plan, length, base)
  <2>1. /\ Held(plan, after[1], "cur").known = TRUE /\ Held(plan, after[2], "next").known = TRUE
        /\ Held(plan, after[3], "cur").known = TRUE /\ Held(plan, after[4], "cur").known = TRUE
        /\ Means(Held(plan, after[5], "cur"), DenoisedByEstimate(length).term, length)
    BY <1>4, <1>7, EstimatedRuns
  <2> HIDE DEF after
  <2>2. 2 - 1 = 1 /\ 3 - 1 = 2 /\ 4 - 1 = 3 /\ 5 - 1 = 4
    OBVIOUS
  <2>3. ASSUME NEW i \in 1 .. Len(plan.steps), NEW role \in Used(plan.steps[i])
        PROVE  Held(plan, after[i - 1], role).known = TRUE
    BY <1>8, <1>9, <1>10, <2>1, <2>2
  <2>4. Means(Held(plan, after[Len(plan.steps)], plan.result), promise.term, promise.reach)
    BY <1>4, <1>7, <1>12, <2>1 DEF promise
  <2> QED
    BY <2>3, <2>4 DEF after
<1>14. DOMAIN plan.steps = 1 .. Len(plan.steps)
  BY <1>5
<1>15. KeepsPromise(plan, length, promise)
  BY <1>12, <1>13, <1>14, PromiseKept
<1>16. Keeps(plan, length, promise)
  BY <1>11, <1>15 DEF Keeps
<1> QED
  BY <1>1, <1>16 DEF promise

-----------------------------------------------------------------------------
\* The launch that adds the current buffer to the scratch one.
Add == Aside("add", "cur", "scratch", "scratch")

\* Four steps of the Laplacian: the image is sent, passed over twice, and added.
Passes(plan, i, f, g, k) ==
  /\ plan.steps[i] = SendStep(In, "cur") /\ plan.steps[i + 1] = Stencil(f, 1)
  /\ plan.steps[i + 2] = Stencil(g, k) /\ plan.steps[i + 3] = Add

\* Two functions of the image, the second of what the first gave.
Twice(f, g) == <<g, <<f, In>>>>

\* The image is sent again, and passed over twice.
LEMMA TwoPassChain ==
  ASSUME NEW plan, NEW i \in Nat, NEW f, NEW g, NEW k \in Nat, k % 2 = 1,
         Passes(plan, i, f, g, k)
  PROVE  \E c : /\ Chain(plan, i, i + 2, c)
                /\ c[i + 2].term = Twice(f, g) /\ c[i + 2].reach = k \div 2
<1> DEFINE h == k \div 2
           c == [j \in i .. i + 2 |->
                   CASE j = i -> Link(f, 1, In, 0)
                     [] j = i + 1 -> Link(f, 1, <<f, In>>, 0)
                     [] j = i + 2 -> Link(g, k, <<g, <<f, In>>>>, h)]
<1>1. h \in Nat /\ 0 + h = h /\ 1 % 2 = 1 /\ 0 + 1 \div 2 = 0 /\ 1 \in Nat
  OBVIOUS
<1> HIDE DEF h
<1>2. /\ c[i] = Link(f, 1, In, 0) /\ c[i + 1] = Link(f, 1, <<f, In>>, 0)
      /\ c[i + 2] = Link(g, k, <<g, <<f, In>>>>, h)
  OBVIOUS
<1> HIDE DEF c
<1>3. /\ c[i].term = In /\ c[i].reach = 0
      /\ c[i + 1].fn = f /\ c[i + 1].extent = 1 /\ c[i + 1].term = <<f, In>>
      /\ c[i + 1].reach = 0
      /\ c[i + 2].fn = g /\ c[i + 2].extent = k /\ c[i + 2].term = <<g, <<f, In>>>>
      /\ c[i + 2].reach = h
  BY <1>2 DEF Link
<1>4. ASSUME NEW j \in i + 1 .. i + 2
      PROVE  /\ plan.steps[j] = Stencil(c[j].fn, c[j].extent)
             /\ c[j].extent \in Nat /\ c[j].extent % 2 = 1
             /\ c[j].term = <<c[j].fn, c[j - 1].term>>
             /\ c[j].reach = c[j - 1].reach + c[j].extent \div 2
  <2>1. (j = i + 1 /\ j - 1 = i) \/ (j = i + 2 /\ j - 1 = i + 1)
    OBVIOUS
  <2> QED
    BY <1>1, <1>3, <2>1 DEF h, Passes
<1>5. Chain(plan, i, i + 2, c)
  BY <1>3, <1>4 DEF Chain, Passes
<1> QED
  BY <1>3, <1>5 DEF h, Twice

\* A plan with one buffer beside the two that take turns.
LEMMA ScratchIs ==
  ASSUME NEW plan, plan.ring = 2, plan.scratch = 1, NEW now, Ready(plan, now)
  PROVE  /\ RoleBuffer(plan, now.cur, "cur") = now.cur /\ now.cur \in Bufs(plan)
         /\ now.cur # 2 /\ RoleBuffer(plan, now.cur, "scratch") = 2 /\ 2 \in Bufs(plan)
         /\ Held(plan, now, "cur") = now.buffers[now.cur]
         /\ Held(plan, now, "scratch") = now.buffers[2]
<1>1. /\ RoleBuffer(plan, now.cur, "cur") = now.cur
      /\ RoleBuffer(plan, now.cur, "scratch") = plan.ring
  BY RolesAre
<1>2. now.cur \in 0 .. 1 /\ Bufs(plan) = 0 .. 2
  BY DEF Ready, Bufs
<1> QED
  BY <1>1, <1>2 DEF Held

\* The passes over the image are added to what was added so far.
LEMMA AddIs ==
  ASSUME NEW plan, plan.ring = 2, plan.scratch = 1, NEW length, NEW now, Ready(plan, now),
         NEW term, NEW reach \in Nat, Means(Held(plan, now, "cur"), term, reach),
         NEW with, NEW sofar \in Nat, sofar <= reach, Means(now.buffers[2], with, sofar),
         NEW then, then = After(plan, length, now, Add)
  PROVE  Ready(plan, then) /\ Means(then.buffers[2], <<"add", term, with>>, reach)
<1> DEFINE s == Add
<1>1. s.op = "launch" /\ ~s.increment /\ s.into = "scratch"
  BY DEF Add, Aside, LaunchStep
<1>2. /\ RoleBuffer(plan, now.cur, "scratch") = 2 /\ 2 \in Bufs(plan)
      /\ Held(plan, now, "scratch") = now.buffers[2]
  BY ScratchIs
<1>3. Means(Computed(plan, length, now, s), <<"add", term, with>>, reach)
  <2>1. now.scalars = <<>>
    BY DEF Ready
  <2>2. Means(Held(plan, now, "scratch"), with, sofar)
    BY <1>2
  <2>3. Means(Computed(plan, length, now,
          LaunchStep("add", <<AtVoxel("cur"), AtVoxel("scratch")>>, "scratch", FALSE)),
          <<"add", term, with>>, reach)
    BY <2>1, <2>2, ComputedOfTwo
  <2> QED
    BY <2>3 DEF Add, Aside
<1>4. then = After(plan, length, now, s)
  OBVIOUS
<1> HIDE DEF s
<1>5. RoleBuffer(plan, now.cur, s.into) = 2
  BY <1>1, <1>2
<1>6. LET end == After(plan, length, now, s)
          into == RoleBuffer(plan, now.cur, s.into)
      IN Ready(plan, end) /\ end.buffers[into] = Computed(plan, length, now, s)
  <2>1. RoleBuffer(plan, now.cur, s.into) \in Bufs(plan)
    BY <1>2, <1>5
  <2> QED
    BY <1>1, <2>1, AsideIs
<1> QED
  BY <1>3, <1>4, <1>5, <1>6

\* A plan with a scratch buffer.
Scratch(plan) == plan.ring = 2 /\ plan.scratch = 1 /\ Len(plan.steps) \in Nat

\* The addition is well formed.
LEMMA AddFormed ==
  ASSUME NEW plan, Scratch(plan)
  PROVE  StepFormed(plan, Add) /\ Add.op = "launch" /\ Used(Add) = {"cur", "scratch"}
<1>1. "cur" \in Roles(plan) /\ "scratch" \in Roles(plan)
  BY DEF Roles, Scratch
<1> QED
  BY <1>1, AsideFormed DEF Add

\* The steps of a part of the Laplacian are well formed.
LEMMA PassesFormed ==
  ASSUME NEW plan, Scratch(plan), NEW i \in Nat, NEW f, NEW g, NEW k \in Nat, k % 2 = 1,
         Passes(plan, i, f, g, k), NEW j \in i .. i + 3
  PROVE  StepFormed(plan, plan.steps[j]) /\ plan.steps[j].op # "clear"
<1>1. StepFormed(plan, SendStep(In, "cur")) /\ SendStep(In, "cur").op = "send"
  <2>1. "cur" \in Roles(plan)
    BY DEF Roles
  <2> QED
    BY <2>1, SendForm, SendFormed
<1>2. StepFormed(plan, Stencil(f, 1)) /\ Stencil(f, 1).op = "launch"
  <2>1. 1 \in Nat /\ 1 % 2 = 1
    OBVIOUS
  <2> QED
    BY <2>1, StencilFormed
<1>3. StepFormed(plan, Stencil(g, k)) /\ Stencil(g, k).op = "launch"
  BY StencilFormed
<1>4. StepFormed(plan, Add) /\ Add.op = "launch"
  BY AddFormed
<1>5. j = i \/ j = i + 1 \/ j = i + 2 \/ j = i + 3
  OBVIOUS
<1> QED
  BY <1>1, <1>2, <1>3, <1>4, <1>5 DEF Passes

\* A part adds its two passes to what the scratch buffer meant.
LEMMA PassesAdded ==
  ASSUME NEW plan, Scratch(plan), NEW length, NEW base, NEW i \in 1 .. Len(plan.steps),
         i + 3 \in 1 .. Len(plan.steps), NEW f, NEW g, NEW k \in Nat, k % 2 = 1,
         Passes(plan, i, f, g, k), Ready(plan, StepByStep(plan, length, base)[i - 1]),
         NEW with, NEW sofar \in Nat, sofar <= k \div 2,
         Means(StepByStep(plan, length, base)[i - 1].buffers[2], with, sofar)
  PROVE  LET after == StepByStep(plan, length, base)
         IN /\ Ready(plan, after[i + 3])
            /\ Means(after[i + 3].buffers[2], <<"add", Twice(f, g), with>>, k \div 2)
            /\ \A j \in i .. i + 3 : \A role \in Used(plan.steps[j]) :
                 Held(plan, after[j - 1], role).known = TRUE
<1> DEFINE after == StepByStep(plan, length, base)
           n == i + 2
           value == Twice(f, g)
<1>1. /\ Len(plan.steps) \in Nat /\ i \in Nat /\ n \in i .. Len(plan.steps)
      /\ n \in i .. n /\ n + 1 = i + 3 /\ (i + 3) - 1 = n /\ i + 3 \in 1 .. Len(plan.steps)
  BY DEF Scratch
<1>2. PICK c : Chain(plan, i, n, c) /\ c[n].term = value /\ c[n].reach = k \div 2
  <2>1. i \in Nat
    BY <1>1
  <2>2. \E c : /\ Chain(plan, i, i + 2, c)
               /\ c[i + 2].term = Twice(f, g) /\ c[i + 2].reach = k \div 2
    BY <2>1, TwoPassChain
  <2> QED
    BY <2>2
<1>3. ASSUME NEW j \in i .. n
      PROVE  /\ Means(Held(plan, after[j], "cur"), c[j].term, c[j].reach)
             /\ Ready(plan, after[j]) /\ c[j].reach \in Nat
             /\ Kept(plan, after[i - 1], after[j])
             /\ \A role \in Used(plan.steps[j]) : Held(plan, after[j - 1], role).known = TRUE
  <2> HIDE DEF n
  <2> QED
    BY <1>1, <1>2, ChainKnown
<1>4. Kept(plan, after[i - 1], after[n])
  BY <1>1, <1>3
<1>5. after[i + 3] = After(plan, length, after[n], Add)
  <2>1. \A j \in 1 .. Len(plan.steps) : after[j] = After(plan, length, after[j - 1], plan.steps[j])
    BY <1>1, StepByStepIs
  <2> HIDE DEF after, n
  <2>2. after[i + 3] = After(plan, length, after[(i + 3) - 1], plan.steps[i + 3])
    BY <1>1, <2>1
  <2> QED
    BY <1>1, <2>2 DEF Passes
<1> HIDE DEF n, value
<1>6. /\ Means(Held(plan, after[n], "cur"), value, k \div 2) /\ Ready(plan, after[n])
      /\ k \div 2 \in Nat
  BY <1>1, <1>2, <1>3
<1>7. /\ Means(after[n].buffers[2], with, sofar)
      /\ Held(plan, after[n], "scratch") = after[n].buffers[2]
  <2>1. plan.ring = 2 /\ plan.scratch = 1
    BY DEF Scratch
  <2>2. 2 \in Bufs(plan) /\ Held(plan, after[n], "scratch") = after[n].buffers[2]
    BY <1>6, <2>1, ScratchIs
  <2> QED
    BY <1>4, <2>1, <2>2 DEF Kept
<1> HIDE DEF after
<1>8. Ready(plan, after[i + 3]) /\ Means(after[i + 3].buffers[2], <<"add", value, with>>, k \div 2)
  <2>1. plan.ring = 2 /\ plan.scratch = 1
    BY DEF Scratch
  <2> QED
    BY <1>5, <1>6, <1>7, <2>1, AddIs
<1>9. ASSUME NEW j \in i .. i + 3, NEW role \in Used(plan.steps[j])
      PROVE  Held(plan, after[j - 1], role).known = TRUE
  <2>1. CASE j \in i .. n
    BY <1>3, <2>1
  <2>2. CASE j = i + 3
    <3>1. role = "cur" \/ role = "scratch"
      <4>1. Used(Add) = {"cur", "scratch"} /\ plan.steps[i + 3] = Add
        BY AddFormed DEF Passes
      <4> QED
        BY <2>2, <4>1
    <3>2. j - 1 = n
      BY <1>1, <2>2
    <3> QED
      BY <1>6, <1>7, <3>1, <3>2 DEF Means
  <2>3. j \in i .. n \/ j = i + 3
    BY DEF n
  <2> QED
    BY <2>1, <2>2, <2>3
<1> QED
  BY <1>8, <1>9 DEF after, value

\* The buffer beside the others is cleared first.
LEMMA ClearedFirst ==
  ASSUME NEW plan, Scratch(plan), 1 <= Len(plan.steps), plan.steps[1] = ClearStep("scratch"),
         NEW length, NEW base \in 0 .. plan.ring - 1
  PROVE  /\ Ready(plan, StepByStep(plan, length, base)[1])
         /\ Means(StepByStep(plan, length, base)[1].buffers[2], <<"zero">>, 0)
<1> DEFINE after == StepByStep(plan, length, base)
<1>1. plan.ring = 2 /\ plan.scratch = 1 /\ Len(plan.steps) \in Nat
  BY DEF Scratch
<1>2. Ready(plan, after[0])
  <2>1. plan.ring \in Nat /\ plan.ring >= 2 /\ plan.scratch \in Nat
    BY <1>1
  <2> QED
    BY <1>1, <2>1, FirstIsReady
<1>3. after[1] = After(plan, length, after[0], ClearStep("scratch"))
  <2>1. \A j \in 1 .. Len(plan.steps) : after[j] = After(plan, length, after[j - 1], plan.steps[j])
    BY <1>1, StepByStepIs
  <2> HIDE DEF after
  <2>2. 1 \in 1 .. Len(plan.steps) /\ 1 - 1 = 0
    BY <1>1
  <2>3. after[1] = After(plan, length, after[1 - 1], plan.steps[1])
    BY <2>1, <2>2
  <2> QED
    BY <2>2, <2>3
<1> HIDE DEF after
<1>4. /\ RoleBuffer(plan, after[0].cur, "scratch") = 2
      /\ RoleBuffer(plan, after[0].cur, "scratch") \in Bufs(plan)
  BY <1>1, <1>2, ScratchIs
<1>5. Ready(plan, after[1]) /\ Means(after[1].buffers[2], <<"zero">>, 0)
  BY <1>2, <1>3, <1>4, ClearIs
<1> QED
  BY <1>5 DEF after

\* The plan of the Laplacian along x and z, cleared and then added to twice.
LEMMA LaplacianKeeps ==
  ASSUME NEW plan, NEW T, plan.steps \in Seq(T), Len(plan.steps) = 9, Scratch(plan),
         plan.result = "scratch", NEW k \in Nat, k % 2 = 1, plan.steps[1] = ClearStep("scratch"),
         Passes(plan, 2, "logX", "gaussZ", k), Passes(plan, 6, "gaussX", "logZ", k), NEW length
  PROVE  Keeps(plan, length, LoGXZ(k))
<1> DEFINE promise == LoGXZ(k)
           first == <<"add", Twice("logX", "gaussZ"), <<"zero">>>>
<1>1. /\ promise.term = <<"add", Twice("gaussX", "logZ"), first>>
      /\ promise.reach = k \div 2
  BY DEF LoGXZ, Promise, Twice
<1>2. k \div 2 \in Nat /\ 0 <= k \div 2 /\ 0 \in Nat
  OBVIOUS
<1>3. \A i \in 1 .. 9 : i = 1 \/ i \in 2 .. 2 + 3 \/ i \in 6 .. 6 + 3
  OBVIOUS
<1> HIDE DEF promise, first
<1>4. StepFormed(plan, ClearStep("scratch")) /\ Used(ClearStep("scratch")) = {}
  <2> DEFINE s == ClearStep("scratch")
  <2>1. s.op = "clear" /\ Written(s) = {"scratch"} /\ Used(s) = {}
    BY DEF ClearStep, Written, Used
  <2>2. "scratch" \in Roles(plan)
    BY DEF Roles, Scratch
  <2> HIDE DEF s
  <2>3. StepFormed(plan, s)
    BY <2>1, <2>2 DEF StepFormed
  <2> QED
    BY <2>1, <2>3 DEF s
<1>5. \A i \in 2 .. 9 : StepFormed(plan, plan.steps[i]) /\ plan.steps[i].op # "clear"
  <2>1. \A i \in 2 .. 2 + 3 : StepFormed(plan, plan.steps[i]) /\ plan.steps[i].op # "clear"
    <3>1. 2 \in Nat
      OBVIOUS
    <3> QED
      BY <3>1, PassesFormed
  <2>2. \A i \in 6 .. 6 + 3 : StepFormed(plan, plan.steps[i]) /\ plan.steps[i].op # "clear"
    <3>1. 6 \in Nat
      OBVIOUS
    <3> QED
      BY <3>1, PassesFormed
  <2>3. \A i \in 2 .. 9 : i \in 2 .. 2 + 3 \/ i \in 6 .. 6 + 3
    OBVIOUS
  <2> QED
    BY <2>1, <2>2, <2>3
<1>6. WellFormed(plan)
  <2>1. \A i \in 1 .. Len(plan.steps) : StepFormed(plan, plan.steps[i])
    <3>1. \A i \in 1 .. 9 : i = 1 \/ i \in 2 .. 9
      OBVIOUS
    <3> QED
      BY <1>4, <1>5, <3>1
  <2>2. plan.result \in Roles(plan)
    BY DEF Roles, Scratch
  <2> QED
    BY <1>5, <2>1, <2>2, PlanFormed
<1>7. ASSUME NEW base \in 0 .. plan.ring - 1
      PROVE  /\ \A i \in 1 .. Len(plan.steps) : \A role \in Used(plan.steps[i]) :
                  Held(plan, StepByStep(plan, length, base)[i - 1], role).known = TRUE
             /\ Means(Held(plan, StepByStep(plan, length, base)[Len(plan.steps)], plan.result),
                      promise.term, promise.reach)
  <2> DEFINE after == StepByStep(plan, length, base)
  <2>1. plan.ring = 2 /\ plan.scratch = 1 /\ Len(plan.steps) \in Nat
    BY DEF Scratch
  <2>4. Ready(plan, after[1]) /\ Means(after[1].buffers[2], <<"zero">>, 0)
    BY <2>1, ClearedFirst
  <2>5. /\ Ready(plan, after[2 + 3]) /\ Means(after[2 + 3].buffers[2], first, k \div 2)
        /\ \A j \in 2 .. 2 + 3 : \A role \in Used(plan.steps[j]) :
             Held(plan, after[j - 1], role).known = TRUE
    <3>1. 2 \in 1 .. Len(plan.steps) /\ 2 + 3 \in 1 .. Len(plan.steps) /\ 2 - 1 = 1
      OBVIOUS
    <3>2. Ready(plan, after[2 - 1]) /\ Means(after[2 - 1].buffers[2], <<"zero">>, 0)
      BY <2>4, <3>1
    <3> QED
      BY <1>2, <3>1, <3>2, PassesAdded DEF first
  <2>6. /\ Ready(plan, after[6 + 3])
        /\ Means(after[6 + 3].buffers[2], <<"add", Twice("gaussX", "logZ"), first>>, k \div 2)
        /\ \A j \in 6 .. 6 + 3 : \A role \in Used(plan.steps[j]) :
             Held(plan, after[j - 1], role).known = TRUE
    <3>1. 6 \in 1 .. Len(plan.steps) /\ 6 + 3 \in 1 .. Len(plan.steps) /\ 6 - 1 = 2 + 3
      OBVIOUS
    <3>2. Ready(plan, after[6 - 1]) /\ Means(after[6 - 1].buffers[2], first, k \div 2)
      BY <2>5, <3>1
    <3>3. k \div 2 \in Nat /\ k \div 2 <= k \div 2
      OBVIOUS
    <3> QED
      BY <3>1, <3>2, <3>3, PassesAdded
  <2> HIDE DEF after
  <2>7. ASSUME NEW i \in 1 .. Len(plan.steps), NEW role \in Used(plan.steps[i])
        PROVE  Held(plan, after[i - 1], role).known = TRUE
    BY <1>3, <1>4, <2>5, <2>6
  <2>8. Means(Held(plan, after[Len(plan.steps)], plan.result), promise.term, promise.reach)
    <3>1. Len(plan.steps) = 6 + 3
      OBVIOUS
    <3>2. Held(plan, after[6 + 3], "scratch") = after[6 + 3].buffers[2]
      BY <2>1, <2>6, ScratchIs
    <3> QED
      BY <1>1, <2>6, <3>1, <3>2
  <2> QED
    BY <2>7, <2>8 DEF after
<1>8. DOMAIN plan.steps = 1 .. Len(plan.steps)
  OBVIOUS
<1>9. promise.reach \in Nat
  BY <1>1, <1>2
<1>10. KeepsPromise(plan, length, promise)
  BY <1>7, <1>8, <1>9, PromiseKept
<1> QED
  BY <1>6, <1>10 DEF Keeps, promise

\* Three sequences, flattened.
LEMMA ThreeFlattened ==
  ASSUME NEW seqs, Len(seqs) = 3
  PROVE  FlattenSeq(seqs) = (seqs[1] \o seqs[2]) \o seqs[3]
<1>1. PICK f : /\ f[1] = seqs[1] /\ \A i \in 2 .. Len(seqs) : f[i] = f[i - 1] \o seqs[i]
               /\ FlattenSeq(seqs) = f[Len(seqs)]
  <2>1. Len(seqs) \in Nat \ {0}
    OBVIOUS
  <2> QED
    BY <2>1, FlattenSeqIs
<1>2. 2 \in 2 .. Len(seqs) /\ 3 \in 2 .. Len(seqs) /\ 2 - 1 = 1 /\ 3 - 1 = 2
  OBVIOUS
<1>3. f[2] = f[2 - 1] \o seqs[2] /\ f[3] = f[3 - 1] \o seqs[3]
  BY <1>1, <1>2
<1> QED
  BY <1>1, <1>2, <1>3

\* The kernel along an axis: the Laplacian's along one, the Gaussian along the others.
Along(a, b) == IF b = a THEN LoGAlong[a] ELSE GaussAlong[b]

\* The part of the Laplacian for an axis, of an image smoothed along x and z.
LEMMA PartIs ==
  ASSUME NEW a, NEW k, NEW p, NEW q,
         p = Stencil(Along(a, "x"), 1), q = Stencil(Along(a, "z"), k)
  PROVE  /\ AddLoGAlong(a, {"x", "z"}, k) \in Seq({SendStep(In, "cur"), p, q, Add})
         /\ Len(AddLoGAlong(a, {"x", "z"}, k)) = 4
         /\ AddLoGAlong(a, {"x", "z"}, k)[1] = SendStep(In, "cur")
         /\ AddLoGAlong(a, {"x", "z"}, k)[2] = p
         /\ AddLoGAlong(a, {"x", "z"}, k)[3] = q
         /\ AddLoGAlong(a, {"x", "z"}, k)[4] = Add
<1> DEFINE pass(j) == Stencil(IF Axes[j] = a THEN LoGAlong[a] ELSE GaussAlong[Axes[j]],
                              ExtentAlong(Axes[j], k))
           seqs == [j \in 1 .. 3 |-> IF Axes[j] \in {"x", "z"} THEN <<pass(j)>> ELSE <<>>]
           u == <<SendStep(In, "cur")>>
           v == <<p, q>>
           w == <<Add>>
           S == {SendStep(In, "cur"), p, q, Add}
           part == AddLoGAlong(a, {"x", "z"}, k)
<1>1. part = (u \o FlattenSeq(seqs)) \o w
  BY DEF AddLoGAlong, Add, Aside
<1>2. /\ Axes[1] = "x" /\ Axes[2] = "y" /\ Axes[3] = "z"
      /\ ExtentAlong("x", k) = 1 /\ ExtentAlong("z", k) = k
  BY DEF Axes, ExtentAlong
<1>3. pass(1) = p /\ pass(3) = q
  BY <1>2 DEF Along
<1> HIDE DEF pass, part
<1>4. Len(seqs) = 3 /\ seqs[1] = <<p>> /\ seqs[2] = <<>> /\ seqs[3] = <<q>>
  <2>1. /\ Len(seqs) = 3
        /\ seqs[1] = (IF Axes[1] \in {"x", "z"} THEN <<pass(1)>> ELSE <<>>)
        /\ seqs[2] = (IF Axes[2] \in {"x", "z"} THEN <<pass(2)>> ELSE <<>>)
        /\ seqs[3] = (IF Axes[3] \in {"x", "z"} THEN <<pass(3)>> ELSE <<>>)
    OBVIOUS
  <2>2. "x" \in {"x", "z"} /\ "y" \notin {"x", "z"} /\ "z" \in {"x", "z"}
    OBVIOUS
  <2> HIDE DEF seqs
  <2> QED
    BY <1>2, <1>3, <2>1, <2>2
<1> HIDE DEF seqs
<1>5. FlattenSeq(seqs) = v
  <2>1. FlattenSeq(seqs) = (<<p>> \o <<>>) \o <<q>>
    BY <1>4, ThreeFlattened
  <2>2. <<p>> \o <<>> = <<p>>
    <3>1. <<p>> \in Seq({p})
      OBVIOUS
    <3> QED
      BY <3>1, ConcatEmptySeq
  <2>3. <<p>> \o <<q>> = <<p, q>>
    BY JoinedTwo
  <2> QED
    BY <2>1, <2>2, <2>3
<1>6. /\ u \in Seq(S) /\ Len(u) = 1 /\ u[1] = SendStep(In, "cur")
      /\ v \in Seq(S) /\ Len(v) = 2 /\ v[1] = p /\ v[2] = q
      /\ w \in Seq(S) /\ Len(w) = 1 /\ w[1] = Add
  OBVIOUS
<1> HIDE DEF u, v, w, S
<1> DEFINE uv == u \o v
<1>7. /\ uv \in Seq(S) /\ Len(uv) = 3 /\ uv[1] = SendStep(In, "cur") /\ uv[2] = p /\ uv[3] = q
  <2>1. uv \in Seq(S) /\ Len(uv) = Len(u) + Len(v)
    BY <1>6, ConcatProperties
  <2>2. \A i \in 1 .. Len(u) + Len(v) : uv[i] = IF i <= Len(u) THEN u[i] ELSE v[i - Len(u)]
    BY <1>6, ConcatProperties
  <2> HIDE DEF uv
  <2> QED
    BY <1>6, <2>1, <2>2
<1>8. part = uv \o w
  BY <1>1, <1>5
<1> HIDE DEF uv
<1>9. part \in Seq(S) /\ Len(part) = Len(uv) + Len(w)
  BY <1>6, <1>7, <1>8, ConcatProperties
<1>10. \A i \in 1 .. Len(uv) + Len(w) : part[i] = IF i <= Len(uv) THEN uv[i] ELSE w[i - Len(uv)]
  BY <1>6, <1>7, <1>8, ConcatProperties
<1>11. /\ Len(part) = 4 /\ part[1] = SendStep(In, "cur") /\ part[2] = p /\ part[3] = q
       /\ part[4] = Add
  BY <1>6, <1>7, <1>9, <1>10
<1> QED
  BY <1>9, <1>11 DEF part, S

\* The Laplacian along x and z is the sum of what a pass along either gives, added to a buffer
\* that was cleared.
THEOREM LaplacianKeepsItsPromise ==
  \A k, length \in Nat : k % 2 = 1 => Keeps(cLoG({"x", "z"}, k), length, LoGXZ(k))
<1> TAKE k, length \in Nat
<1> HAVE k % 2 = 1
<1> DEFINE plan == cLoG({"x", "z"}, k)
           on == {"x", "z"}
           X == AddLoGAlong("x", on, k)
           Z == AddLoGAlong("z", on, k)
           seqs == [j \in 1 .. 3 |-> IF Axes[j] \in on THEN AddLoGAlong(Axes[j], on, k) ELSE <<>>]
           clear == <<ClearStep("scratch")>>
           S == {ClearStep("scratch"), SendStep(In, "cur"), Stencil("logX", 1),
                 Stencil("gaussZ", k), Stencil("gaussX", 1), Stencil("logZ", k), Add}
<1>1. /\ plan.steps = clear \o FlattenSeq(seqs) /\ plan.result = "scratch"
      /\ plan.ring = 2 /\ plan.scratch = 1
  BY DEF cLoG
<1>2. /\ X \in Seq(S) /\ Len(X) = 4 /\ X[1] = SendStep(In, "cur") /\ X[2] = Stencil("logX", 1)
      /\ X[3] = Stencil("gaussZ", k) /\ X[4] = Add
  <2> DEFINE p == Stencil("logX", 1)
             q == Stencil("gaussZ", k)
  <2>1. p = Stencil(Along("x", "x"), 1) /\ q = Stencil(Along("x", "z"), k)
    BY DEF Along, LoGAlong, GaussAlong
  <2> HIDE DEF p, q
  <2>2. /\ X \in Seq({SendStep(In, "cur"), p, q, Add}) /\ Len(X) = 4
        /\ X[1] = SendStep(In, "cur") /\ X[2] = p /\ X[3] = q /\ X[4] = Add
    BY <2>1, PartIs
  <2>3. {SendStep(In, "cur"), p, q, Add} \subseteq S
    BY DEF p, q
  <2> HIDE DEF X, S
  <2> QED
    BY <2>2, <2>3 DEF p, q
<1>3. /\ Z \in Seq(S) /\ Len(Z) = 4 /\ Z[1] = SendStep(In, "cur") /\ Z[2] = Stencil("gaussX", 1)
      /\ Z[3] = Stencil("logZ", k) /\ Z[4] = Add
  <2> DEFINE p == Stencil("gaussX", 1)
             q == Stencil("logZ", k)
  <2>1. p = Stencil(Along("z", "x"), 1) /\ q = Stencil(Along("z", "z"), k)
    BY DEF Along, LoGAlong, GaussAlong
  <2> HIDE DEF p, q
  <2>2. /\ Z \in Seq({SendStep(In, "cur"), p, q, Add}) /\ Len(Z) = 4
        /\ Z[1] = SendStep(In, "cur") /\ Z[2] = p /\ Z[3] = q /\ Z[4] = Add
    BY <2>1, PartIs
  <2>3. {SendStep(In, "cur"), p, q, Add} \subseteq S
    BY DEF p, q
  <2> HIDE DEF Z, S
  <2> QED
    BY <2>2, <2>3 DEF p, q
<1>4. FlattenSeq(seqs) = X \o Z
  <2>1. Axes[1] = "x" /\ Axes[2] = "y" /\ Axes[3] = "z"
    BY DEF Axes
  <2>2. /\ Len(seqs) = 3
        /\ seqs[1] = (IF Axes[1] \in on THEN AddLoGAlong(Axes[1], on, k) ELSE <<>>)
        /\ seqs[2] = (IF Axes[2] \in on THEN AddLoGAlong(Axes[2], on, k) ELSE <<>>)
        /\ seqs[3] = (IF Axes[3] \in on THEN AddLoGAlong(Axes[3], on, k) ELSE <<>>)
    OBVIOUS
  <2>3. "x" \in on /\ "y" \notin on /\ "z" \in on
    OBVIOUS
  <2> HIDE DEF seqs, on
  <2>4. Len(seqs) = 3 /\ seqs[1] = X /\ seqs[2] = <<>> /\ seqs[3] = Z
    BY <2>1, <2>2, <2>3
  <2>5. FlattenSeq(seqs) = (X \o <<>>) \o Z
    BY <2>4, ThreeFlattened
  <2> HIDE DEF X, Z, S
  <2>6. X \o <<>> = X
    BY <1>2, ConcatEmptySeq
  <2> QED
    BY <2>5, <2>6
<1>5. clear \in Seq(S) /\ Len(clear) = 1 /\ clear[1] = ClearStep("scratch")
  OBVIOUS
<1> HIDE DEF plan, seqs, clear, X, Z, S, on
<1> DEFINE xz == X \o Z
<1>6. /\ xz \in Seq(S) /\ Len(xz) = 8 /\ xz[1] = X[1] /\ xz[2] = X[2] /\ xz[3] = X[3]
      /\ xz[4] = X[4] /\ xz[5] = Z[1] /\ xz[6] = Z[2] /\ xz[7] = Z[3] /\ xz[8] = Z[4]
  <2>1. xz \in Seq(S) /\ Len(xz) = Len(X) + Len(Z)
    BY <1>2, <1>3, ConcatProperties
  <2>2. \A i \in 1 .. Len(X) + Len(Z) : xz[i] = IF i <= Len(X) THEN X[i] ELSE Z[i - Len(X)]
    BY <1>2, <1>3, ConcatProperties
  <2> HIDE DEF xz
  <2> QED
    BY <1>2, <1>3, <2>1, <2>2
<1> HIDE DEF xz
<1> DEFINE all == clear \o xz
<1>7. plan.steps = all
  BY <1>1, <1>4 DEF xz
<1>8. all \in Seq(S) /\ Len(all) = Len(clear) + Len(xz)
  BY <1>5, <1>6, ConcatProperties
<1>9. \A i \in 1 .. Len(clear) + Len(xz) :
        all[i] = IF i <= Len(clear) THEN clear[i] ELSE xz[i - Len(clear)]
  BY <1>5, <1>6, ConcatProperties
<1> HIDE DEF all
<1>10. /\ Len(plan.steps) = 9 /\ plan.steps[1] = clear[1] /\ plan.steps[2] = xz[1]
       /\ plan.steps[3] = xz[2] /\ plan.steps[4] = xz[3] /\ plan.steps[5] = xz[4]
       /\ plan.steps[6] = xz[5] /\ plan.steps[7] = xz[6] /\ plan.steps[8] = xz[7]
       /\ plan.steps[9] = xz[8]
  BY <1>5, <1>6, <1>7, <1>8, <1>9
<1>11. Passes(plan, 2, "logX", "gaussZ", k) /\ Passes(plan, 6, "gaussX", "logZ", k)
  <2>1. /\ 2 + 1 = 3 /\ 2 + 2 = 4 /\ 2 + 3 = 5 /\ 6 + 1 = 7 /\ 6 + 2 = 8 /\ 6 + 3 = 9
    OBVIOUS
  <2> QED
    BY <1>2, <1>3, <1>6, <1>10, <2>1 DEF Passes
<1>12. Scratch(plan) /\ plan.result = "scratch" /\ plan.steps[1] = ClearStep("scratch")
  BY <1>1, <1>5, <1>10 DEF Scratch
<1>13. Keeps(plan, length, LoGXZ(k))
  BY <1>7, <1>8, <1>10, <1>11, <1>12, LaplacianKeeps
<1> QED
  BY <1>13 DEF plan
=============================================================================
