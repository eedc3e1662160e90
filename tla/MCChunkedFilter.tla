---------------------------- MODULE MCChunkedFilter ----------------------------
(* Small images, devices and kernels for ChunkedFilter. *)
EXTENDS ChunkedFilter

Call(length, device, plan, promise) ==
  [length |-> length, device |-> device, plan |-> plan, promise |-> promise]

\* Two workers on an image that is cut: one launch, several, three buffers, two sets of
\* buffers, and a kernel in two passes that reach as far as the margin.
MCCutCalls ==
  {Call(12, 7, cGaussian(3, 1), Blurred(3)),
   Call(9, 7, cHighPassFilter(3), HighPassed(3)),
   Call(9, 7, cLoG({"x", "z"}, 3), LoGXZ(3)),
   Call(9, 7, cClosure(3, 1), Closed(3, 1)),
   Call(9, 7, cWienerFilter(3, FALSE), DenoisedByEstimate(9)),
   Call(5, 4, cElementWiseDifference, Subtracted),
   Call(5, 3, cMultiplySum(1, 2), Neighbourhood("multiplySum", 1, 2))}

\* One worker on a whole image, up to fourteen launches ahead of its device.
MCWholeCalls ==
  {Call(6, 6, cMaxFilter(3, 14), Neighbourhood("max", 3, 14)),
   Call(4, 4, cMinFilter(3, 2), Neighbourhood("min", 3, 2)),
   Call(4, 4, cMeanFilter(3, 1), Neighbourhood("mean", 3, 1)),
   Call(4, 4, cStdFilter(3, 1), Neighbourhood("std", 3, 1)),
   Call(4, 4, cVarFilter(3, 1), Neighbourhood("var", 3, 1)),
   Call(4, 4, cMedianFilter(3, 2), Neighbourhood("median", 3, 2)),
   Call(4, 4, cOpener(3, 2), Opened(3, 2)),
   Call(4, 4, cIdentityFilter, Neighbourhood("identity", 1, 1)),
   Call(4, 4, cGaussian(3, 2), BlurredTwice(3)),
   Call(4, 4, cWienerFilter(3, TRUE), Denoised(3)),
   Call(4, 4, cWienerFilter(3, FALSE), DenoisedByEstimate(4))}

MCCalls == MCCutCalls \cup MCWholeCalls

\* cMaxFilter once on an image that is cut.
MCOneCut == {Call(9, 7, cMaxFilter(3, 1), Neighbourhood("max", 3, 1))}
=============================================================================
