------------------------------ MODULE MCChunking ------------------------------
(* Small images, kernels and memories for Chunking. *)
EXTENDS Chunking

\* Cut along up to two axes, and channels and frames to stride over.
MCImageDims ==
  {[x |-> x, y |-> y, z |-> z, chan |-> n[1], frame |-> n[2]] :
     x \in {1, 4, 9}, y \in {1, 5}, z \in {1, 3, 6}, n \in {<<1, 1>>, <<2, 3>>}}
MCKernelDims == {[x |-> x, y |-> y, z |-> z] : x \in {1, 2, 5}, y \in {1, 3, 4}, z \in {1, 3}}
MCVoxelCounts == {1, 4, 9, 12, 20, 24, 36, 60, 150}
=============================================================================
