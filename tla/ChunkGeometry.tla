---------------------------- MODULE ChunkGeometry ----------------------------
(***************************************************************************)
(* The arithmetic of calculateChunking (ImageChunk.cpp): how an image that *)
(* does not fit a device is cut into chunks, along one axis at a time, and *)
(* the few places where the axes are looked at together.                   *)
(*                                                                         *)
(* A chunk has a region of interest, which it is there to compute, and a   *)
(* margin around it, which it only needs as input.  All ends are inclusive.*)
(***************************************************************************)
EXTENDS Integers

CONSTANT SizeMod      \* 2^64: std::size_t subtraction wraps around

ASSUME SizeModAssumption == SizeMod \in Nat \ {0}

Axis == {"x", "y", "z"}

Least(a, b) == IF a < b THEN a ELSE b
Greatest(a, b) == IF a > b THEN a ELSE b

\* (std::size_t)ceil((double)n / d)
CeilDiv(n, d) == (n + d - 1) \div d

\* What-if: the margin is half the kernel, rounded down.
ThinMargin(k) == k \div 2

\* margin((kernalDims+1)/2), "integer round"
Margin(k) == (k + 1) \div 2

\* What-if: the margin is taken off once.
RoomOneMargin(dev, k) == (dev - Margin(k)) % SizeMod

\* deviceDims - margin*2 on std::size_t
Room(dev, k) == (dev - 2 * Margin(k)) % SizeMod

\* MAX(Vec(1), deviceDims - margin*2): Vec::operator> holds when ALL three components
\* are greater, so the floor of 1 is applied only if no axis has any room left.
DeviceDelta(dev, k) ==
  IF \A a \in Axis : Room(dev[a], k[a]) < 1
  THEN [a \in Axis |-> 1]
  ELSE [a \in Axis |-> Room(dev[a], k[a])]

\* if (imageDims.dims.a > deviceDims.a): the axis is cut.
IsCut(im, dev) == im > dev

\* The code divides by the delta of every axis that is cut.
WellDefined(im, dev, k) ==
  \A a \in Axis : IsCut(im[a], dev[a]) => DeviceDelta(dev, k)[a] > 0

ChunkDelta(im, dev, k) ==
  [a \in Axis |-> IF IsCut(im[a], dev[a]) THEN DeviceDelta(dev, k)[a] ELSE im[a]]

NumChunks(im, dev, k) ==
  [a \in Axis |-> IF IsCut(im[a], dev[a])
                  THEN CeilDiv(im[a], DeviceDelta(dev, k)[a]) ELSE 1]

(***************************************************************************)
(* Chunk number i of an axis of length im, cut every d, with margin m      *)
(***************************************************************************)
ImageROIStart(d, i) == d * i
ImageROIEnd(im, d, i) == Least(d * i + d, im - 1)
ImageStart(d, m, i) == Greatest(d * i - m, 0)

\* What-if: the sent region is not clipped to the image.
UnclippedEnd(im, d, m, i) == ImageROIEnd(im, d, i) + m

ImageEnd(im, d, m, i) == Least(ImageROIEnd(im, d, i) + m, im - 1)

\* getFullChunkSize
FullChunkSize(im, d, m, i) == ImageEnd(im, d, m, i) - ImageStart(d, m, i) + 1

\* How far below and above a voxel a kernel reads along axis a.  KernelIterator centres
\* an even kernel between two voxels; CudaImageContainer then interpolates along EVERY
\* axis (pos.floor()==pos compares whole positions), and half a voxel down on odd ones.
LowReach(k, a) ==
  IF k[a] % 2 = 1 /\ \E b \in Axis : k[b] % 2 = 0 THEN (k[a] + 1) \div 2 ELSE k[a] \div 2
HighReach(k, a) == k[a] \div 2

\* The positions of the image read for voxel v; the others are skipped.
Window(n, k, a, v) ==
  {u \in 0 .. n - 1 : v - LowReach(k, a) <= u /\ u <= v + HighReach(k, a)}
=============================================================================
