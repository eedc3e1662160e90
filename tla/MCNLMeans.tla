------------------------------- MODULE MCNLMeans -------------------------------
(* Two chunks of unequal length, a patch of three voxels. *)
EXTENDS NLMeans

MCLengths == <<4, 3>>
=============================================================================
