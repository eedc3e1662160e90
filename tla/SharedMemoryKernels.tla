------------------------- MODULE SharedMemoryKernels -------------------------
(***************************************************************************)
(* The kernels whose threads share memory: those of Reductions and Median. *)
(* A device runs one command at a time; what the kernels of the other kind *)
(* would work on is left as it is.                                         *)
(***************************************************************************)
EXTENDS Reductions, Median

VARIABLE running      \* "reduction" or "median"

KernelInit ==
  /\ running \in {"reduction", "median"}
  /\ running = "median" => job = CHOOSE j \in Jobs : TRUE
  /\ running = "reduction" => call = CHOOSE c \in MedianCalls : TRUE
  /\ Init /\ MedianInit

\* Every thread of the block has written its voxel, or is lost.
MedianOver ==
  /\ \A t \in Lane : at[t] \in {"done", "undefined"}
  /\ UNCHANGED medianVars

KernelNext ==
  \/ running = "reduction" /\ Next /\ UNCHANGED medianVars
  \/ running = "median" /\ (MedianNext \/ MedianOver) /\ UNCHANGED vars

\* The threads of a launch make progress.
KernelSpec ==
  /\ KernelInit /\ [][KernelNext /\ UNCHANGED running]_<<vars, medianVars, running>>
  /\ WF_medianVars(running = "median" /\ MedianNext /\ UNCHANGED <<vars, running>>)

-----------------------------------------------------------------------------
\* Every thread of a median launch ends, or has left its part of the memory.
MedianEnds == running = "median" => <>(\A t \in Lane : at[t] \in {"done", "undefined"})
=============================================================================
