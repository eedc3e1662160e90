------------------------------- MODULE Chunking -------------------------------
(***************************************************************************)
(* calculateChunking and setMaxDeviceDims (ImageChunk.cpp) as the loops    *)
(* they are, called by calculateBuffers with the extents it arrives at:    *)
(* one step is one turn of the innermost loop, which computes a chunk and  *)
(* stores it in its slot of localChunks; the last step is the loop of      *)
(* setMaxDeviceDims, whose result sizes the device buffers.                *)
(***************************************************************************)
EXTENDS BufferDims, Sequences

CONSTANT
  NoChunk         \* a slot of localChunks that has not been filled

Chunk ==
  [imageROIstart : [Axis -> Int], imageROIend : [Axis -> Int],
   imageStart : [Axis -> Int], imageEnd : [Axis -> Int], channel : Nat, frame : Nat]

ASSUME NoChunkAssumption == NoChunk \notin Chunk

VARIABLES
  curChunk,       \* the five loop counters
  localChunks,    \* slot -> chunk
  maxDeviceDims   \* the result of setMaxDeviceDims

\* pc goes on from "chunk" to "fill", "size" and "done", or to "undefined".
chunkVars == <<curChunk, localChunks, maxDeviceDims>>
vars == <<im, kern, numVoxels, order, deviceDims, pc, curChunk, localChunks, maxDeviceDims>>

\* The loops from the innermost to the outermost, and the order of the strides.
Dim == <<"x", "y", "z", "chan", "frame">>

numChunks ==
  LET n == NumChunks(im, deviceDims, kern)
  IN [d \in DimSet |-> IF d \in Axis THEN n[d] ELSE im[d]]

chunkDelta == ChunkDelta(im, deviceDims, kern)

\* ImageDimensions::linearAddressAt
LinearAddressAt(n, c) ==
  c["x"] + n["x"] * (c["y"] + n["y"] * (c["z"] + n["z"] * (c["chan"] + n["chan"] * c["frame"])))

NumElements(n) == n["x"] * n["y"] * n["z"] * n["chan"] * n["frame"]

\* The chunk of one turn of the loops.
ChunkAt(c) ==
  LET d == chunkDelta
      m == [a \in Axis |-> Margin(kern[a])]
  IN [imageROIstart |-> [a \in Axis |-> ImageROIStart(d[a], c[a])],
      imageROIend   |-> [a \in Axis |-> ImageROIEnd(im[a], d[a], c[a])],
      imageStart    |-> [a \in Axis |-> ImageStart(d[a], m[a], c[a])],
      imageEnd      |-> [a \in Axis |-> ImageEnd(im[a], d[a], m[a], c[a])],
      channel |-> c["chan"], frame |-> c["frame"]]

\* getFullChunkSize
ChunkSize(ch) == [a \in Axis |-> ch.imageEnd[a] - ch.imageStart[a] + 1]

Init ==
  /\ SizingInit
  /\ curChunk = [d \in DimSet |-> 0]
  /\ localChunks = <<>>
  /\ maxDeviceDims = [a \in Axis |-> 0]

\* localChunks.resize; the number of chunks is not defined when a cut axis has exactly
\* the room of its margins and another one has more.
Resize ==
  /\ pc = "chunk"
  /\ IF WellDefined(im, deviceDims, kern)
     THEN /\ localChunks' = [s \in 0 .. NumElements(numChunks) - 1 |-> NoChunk]
          /\ pc' = "fill"
     ELSE pc' = "undefined" /\ UNCHANGED localChunks
  /\ UNCHANGED <<im, kern, numVoxels, order, deviceDims, curChunk, maxDeviceDims>>

\* The counters after one more ++ with its carries.
NextCounters(c, i) ==
  [d \in DimSet |-> IF d = Dim[i] THEN c[d] + 1
                    ELSE IF \E j \in 1 .. i - 1 : d = Dim[j] THEN 0 ELSE c[d]]

\* What-if: the channel loop runs once.
AdvanceOneChannel ==
  LET more == {i \in DOMAIN Dim \ {4} : curChunk[Dim[i]] + 1 < numChunks[Dim[i]]}
  IN IF more = {}
     THEN pc' = "size" /\ UNCHANGED curChunk
     ELSE /\ \E i \in more : /\ \A j \in more : i <= j
                             /\ curChunk' = NextCounters(curChunk, i)
          /\ UNCHANGED pc

\* The five nested for loops: the innermost counter that has a next value takes it, the
\* counters inside it start again; when none has, the loops are over.
Advance ==
  LET more == {i \in DOMAIN Dim : curChunk[Dim[i]] + 1 < numChunks[Dim[i]]}
  IN IF more = {}
     THEN pc' = "size" /\ UNCHANGED curChunk
     ELSE /\ \E i \in more : /\ \A j \in more : i <= j
                             /\ curChunk' = NextCounters(curChunk, i)
          /\ UNCHANGED pc

Fill ==
  /\ pc = "fill"
  /\ localChunks' = [localChunks EXCEPT ![LinearAddressAt(numChunks, curChunk)] = ChunkAt(curChunk)]
  /\ Advance
  /\ UNCHANGED <<im, kern, numVoxels, order, deviceDims, maxDeviceDims>>

\* What-if: the first chunk is taken for the largest, as cSum does for its blocks.
FirstChunkSize ==
  /\ pc = "size"
  /\ maxDeviceDims' = ChunkSize(localChunks[0])
  /\ pc' = "done"
  /\ UNCHANGED <<im, kern, numVoxels, order, deviceDims, curChunk, localChunks>>

\* setMaxDeviceDims: the largest extent of any chunk, axis by axis.
SetMaxDeviceDims ==
  /\ pc = "size"
  /\ maxDeviceDims' = [a \in Axis |->
        LET sizes == {ChunkSize(localChunks[s])[a] : s \in DOMAIN localChunks}
        IN CHOOSE n \in sizes : \A l \in sizes : l <= n]
  /\ pc' = "done"
  /\ UNCHANGED <<im, kern, numVoxels, order, deviceDims, curChunk, localChunks>>

Next ==
  \/ CalculateBuffers /\ UNCHANGED chunkVars
  \/ Resize \/ Fill \/ SetMaxDeviceDims

Spec == Init /\ [][Next]_vars

-----------------------------------------------------------------------------
(***************************************************************************)
(* Properties                                                              *)
(***************************************************************************)
InROI(ch, v) ==
  /\ ch.channel = v["chan"] /\ ch.frame = v["frame"]
  /\ \A a \in Axis : ch.imageROIstart[a] <= v[a] /\ v[a] <= ch.imageROIend[a]

Filled == {localChunks[s] : s \in {t \in DOMAIN localChunks : localChunks[t] # NoChunk}}

\* When the loops are over no default-constructed chunk is left in the list and every
\* voxel of every channel and frame is in the region of interest of some chunk.
EveryVoxelCovered ==
  pc \in {"size", "done"} =>
    /\ \A s \in DOMAIN localChunks : localChunks[s] # NoChunk
    /\ \A c \in 0 .. im["chan"] - 1, f \in 0 .. im["frame"] - 1 :
       \A x \in 0 .. im["x"] - 1, y \in 0 .. im["y"] - 1, z \in 0 .. im["z"] - 1 :
         \E ch \in Filled :
           InROI(ch, [d \in DimSet |-> CASE d = "x" -> x [] d = "y" -> y [] d = "z" -> z
                                         [] d = "chan" -> c [] d = "frame" -> f])

\* A chunk lies in the image, so sendROI and retriveROI never leave the host buffer.
ChunksInsideImage ==
  \A ch \in Filled : \A a \in Axis :
    /\ 0 <= ch.imageStart[a]
    /\ ch.imageStart[a] <= ch.imageROIstart[a]
    /\ ch.imageROIstart[a] <= ch.imageROIend[a]
    /\ ch.imageROIend[a] <= ch.imageEnd[a]
    /\ ch.imageEnd[a] < im[a]

\* What a kernel reads around a voxel of the region of interest is sent to the device
\* with it: the margin is wide enough for one pass of the kernel, interpolated or not.
NeighbourhoodSent ==
  \A ch \in Filled : \A a \in Axis :
    \A v \in ch.imageROIstart[a] .. ch.imageROIend[a] :
      Window(im[a], kern, a, v) \subseteq ch.imageStart[a] .. ch.imageEnd[a]

\* sendROI's setDims never refuses a chunk (its false would go unnoticed: the callers
\* construct the exception and do not throw it).
BuffersHoldEveryChunk ==
  pc = "done" => \A ch \in Filled : Product(ChunkSize(ch)) <= Product(maxDeviceDims)

\* The axis that is cut second may have been given back what is left over; when that is
\* x, its new extent is divided by its old one.
GivenToX == order[2] = "x" /\ deviceDims[order[3]] = im[order[3]]
CutAlong(a) == IsCut(im[a], deviceDims[a])

\* The buffers a command allocates fit the memory it sized them by but for one plane
\* along each axis that is cut (both ends of a region of interest are inclusive), unless
\* the rest went to x or an axis has no room beside its margins.
FitsButForAPlane ==
  pc = "done" /\ ~GivenToX /\ (\A a \in Axis : CutAlong(a) => deviceDims[a] > 2 * Margin(kern[a])) =>
    Product([a \in Axis |-> maxDeviceDims[a] - IF CutAlong(a) THEN 1 ELSE 0]) <= numVoxels

\* Only an image one line of which does not fit the memory divides by zero.
FaultsOnlyWithoutALine == pc = "fault" => numVoxels < im[order[1]]

\* An image that fits the memory is processed whole: one chunk for each channel of each
\* frame, of the size of the image, unless the rest went to x.
WholeUnlessGivenToX ==
  pc = "done" /\ Product(im) <= numVoxels /\ ~GivenToX =>
    /\ DOMAIN localChunks = 0 .. im["chan"] * im["frame"] - 1
    /\ \A ch \in Filled : \A a \in Axis : ChunkSize(ch)[a] = im[a]
=============================================================================
