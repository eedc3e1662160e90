----------------------------- MODULE MCGpuCommand -----------------------------
(* Three processes on a small device. *)
EXTENDS GpuCommand

MCNeeds == {4, 40}
MCLeaks == {0, 3}
=============================================================================
