------------------------------ MODULE MCReductions ------------------------------
(* Small images for Reductions. *)
EXTENDS Reductions

MakeJob(op, length, channels, room, maxThreads) ==
  [op |-> op, length |-> length, channels |-> channels, room |-> room, maxThreads |-> maxThreads]

\* For the host; with blocks that take up to two turns of the grid; with blocks of three
\* threads; in two chunks, and in three, the second the largest.
MCChunked ==
  {MakeJob(op, l[1], l[2], l[3], l[4]) : op \in {"Sum", "MinMax"},
     l \in {<<2, 2, 20, 4>>, <<9, 2, 20, 4>>, <<17, 1, 20, 4>>, <<3, 2, 20, 4>>, <<5, 1, 20, 3>>,
            <<6, 2, 5, 2>>, <<10, 1, 6, 1>>}}

\* Arrays that fit, that come in whole pieces and that leave a small one.
MCArrays ==
  {MakeJob(op, length, 1, room, 2) : op \in {"GetMinMax", "DeviceMinMax"},
     length \in 1 .. 13, room \in {4, 6, 8, 9}}

MCJobs == MCChunked \cup MCArrays

\* An image the device has to be given in pieces.
MCCutImage == {MakeJob("Sum", 9, 1, 6, 4)}
=============================================================================
