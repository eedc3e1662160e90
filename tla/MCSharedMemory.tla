---------------------------- MODULE MCSharedMemory ----------------------------
(* Small images for SharedMemoryKernels. *)
EXTENDS MCReductions, SharedMemoryKernels

MedianBlock(image, weighted, radius, threads, block) ==
  [image |-> image, length |-> Cardinality(DOMAIN image), weighted |-> weighted,
   radius |-> radius, threads |-> threads, block |-> block]

All(radius) == [j \in 0 .. 2 * radius |-> TRUE]

\* One thread on every line of five or seven voxels; two threads with every kernel, some of
\* whose neighbourhoods are empty, in a full block and in one that is half outside the
\* image; three threads.
MCMedianCalls ==
  {MedianBlock(image, All(2), 2, 1, 2) : image \in [0 .. 4 -> 0 .. 3]}
  \cup {MedianBlock(image, All(3), 3, 1, 3) : image \in [0 .. 6 -> 0 .. 1]}
  \cup {MedianBlock(image, w, 1, 2, n) :
          image \in [0 .. 2 -> 0 .. 2], w \in [0 .. 2 -> BOOLEAN], n \in 0 .. 1}
  \cup {MedianBlock(image, All(1), 1, 3, 0) : image \in [0 .. 2 -> 0 .. 1]}
=============================================================================
