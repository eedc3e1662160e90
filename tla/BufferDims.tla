------------------------------ MODULE BufferDims ------------------------------
(***************************************************************************)
(* calculateBuffers (ImageChunk.cpp): how large a device buffer to ask for *)
(* when numVoxels of them fit the memory.  The axis on which a cut would   *)
(* overlap most is not cut, the one with the smallest overlap is cut to a  *)
(* square's side, and when the last one does not need all of the rest, the *)
(* rest is given back to it.                                               *)
(*                                                                         *)
(* One step chooses the axes, one the extents, in the order of the code,   *)
(* and a division by zero stops it.  Chunking goes on with the result.     *)
(***************************************************************************)
EXTENDS ChunkGeometry

DimSet == Axis \cup {"chan", "frame"}

CONSTANTS
  ImageDims,      \* images: [x, y, z, chan, frame]
  KernelDims,     \* neighbourhoods: [x, y, z]
  VoxelCounts     \* voxels that fit a buffer

ASSUME BufferDimsAssumption ==
  /\ ImageDims \subseteq [DimSet -> Nat \ {0}]
  /\ KernelDims \subseteq [Axis -> Nat \ {0}]
  /\ VoxelCounts \subseteq Nat \ {0}

VARIABLES
  im, kern, numVoxels,            \* the arguments
  order,                          \* which axis is kept, tried second, gets the rest
  deviceDims,                     \* the result so far
  pc                              \* "order", "split", "rest", "chunk", "fault"

sizingVars == <<im, kern, numVoxels, order, deviceDims, pc>>

Product(v) == v["x"] * v["y"] * v["z"]

\* (kern.a - 1) times the other two extents: what two chunks share when a is cut.
OverlapVolume(a) == [im EXCEPT ![a] = kern[a] - 1]
Overlap(a) == Product(OverlapVolume(a))

SizingInit ==
  /\ im \in ImageDims
  /\ kern \in KernelDims
  /\ numVoxels \in VoxelCounts
  /\ order = <<>>
  /\ deviceDims = [a \in Axis |-> 0]
  /\ pc = "order"

\* The axis with the largest overlap comes first.  Of the other two, the one with the
\* smaller overlap is sized second, and the other takes the rest.
ChooseAxes ==
  /\ pc = "order"
  /\ order' =
       IF Overlap("x") > Overlap("y") /\ Overlap("x") > Overlap("z")
       THEN IF Overlap("y") < Overlap("z") THEN <<"x", "y", "z">> ELSE <<"x", "z", "y">>
       ELSE IF Overlap("y") > Overlap("z")
       THEN IF Overlap("x") < Overlap("z") THEN <<"y", "x", "z">> ELSE <<"y", "z", "x">>
       ELSE IF Overlap("x") < Overlap("y") THEN <<"z", "x", "y">> ELSE <<"z", "y", "x">>
  /\ pc' = "split"
  /\ UNCHANGED <<im, kern, numVoxels, deviceDims>>

\* What-if: the square root is taken over the extent of another axis.
SquareDimOfThird ==
  LET w == im[order[3]]
  IN CHOOSE s \in 0 .. numVoxels : s * s * w <= numVoxels /\ numVoxels < (s + 1) * (s + 1) * w

\* (std::size_t)sqrt((double)numVoxels / dims of the worst axis)
SquareDim ==
  LET w == im[order[1]]
  IN CHOOSE s \in 0 .. numVoxels : s * s * w <= numVoxels /\ numVoxels < (s + 1) * (s + 1) * w

\* The worst axis is kept whole; the second is at most a square's side.  It is compared
\* with the extent before it is truncated, which for an integer makes no difference.
Split ==
  /\ pc = "split"
  /\ deviceDims' = [deviceDims EXCEPT ![order[1]] = im[order[1]],
                                      ![order[2]] = Least(im[order[2]], SquareDim)]
  /\ pc' = "rest"
  /\ UNCHANGED <<im, kern, numVoxels, order>>

\* What-if: the wrong divisor, on the other axes too.
GivenBackWrong == numVoxels \div (im[order[3]] * deviceDims[order[2]])

\* "give some back": the voxels left when the third axis takes all of its extent.  When
\* they go to x they are divided by z*x, and x is the extent that is being replaced.
GivenBack ==
  IF order[2] = "x"
  THEN numVoxels \div (im["z"] * deviceDims["x"])
  ELSE numVoxels \div (im[order[3]] * im[order[1]])

\* The third axis takes what the other two leave; a zero second extent divides by zero.
Rest ==
  /\ pc = "rest"
  /\ LET second == deviceDims[order[2]]
         third == numVoxels \div (second * deviceDims[order[1]])
     IN IF second = 0 THEN pc' = "fault" /\ UNCHANGED deviceDims
        ELSE /\ pc' = "chunk"
             /\ deviceDims' =
                  IF third > im[order[3]]
                  THEN [deviceDims EXCEPT ![order[3]] = im[order[3]],
                                          ![order[2]] = Least(GivenBack, im[order[2]])]
                  ELSE [deviceDims EXCEPT ![order[3]] = third]
  /\ UNCHANGED <<im, kern, numVoxels, order>>

CalculateBuffers == ChooseAxes \/ Split \/ Rest
=============================================================================
