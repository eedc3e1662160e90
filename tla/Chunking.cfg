CONSTANTS
  SizeMod = 1024
  ImageDims <- MCImageDims
  KernelDims <- MCKernelDims
  VoxelCounts <- MCVoxelCounts
  NoChunk = NoChunk
SPECIFICATION Spec
INVARIANTS EveryVoxelCovered ChunksInsideImage NeighbourhoodSent BuffersHoldEveryChunk FitsButForAPlane FaultsOnlyWithoutALine WholeUnlessGivenToX
CHECK_DEADLOCK FALSE
