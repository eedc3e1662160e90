----------------------------- MODULE EntropyRange -----------------------------
(***************************************************************************)
(* The range cEntropyFilter (CudaEntropyFilter.cuh) hands to its kernel,   *)
(* which bins the voxels of a chunk between minVal and maxVal.  The two    *)
(* are declared before the parallel region, so the team shares them:       *)
(* cGetMinMax resets and computes them through references.                 *)
(***************************************************************************)
EXTENDS Integers

CONSTANTS
  Chunks,         \* as many as devices: a worker each
  Lowest,         \* chunk -> its smallest value
  Highest,        \* chunk -> its largest value
  TypeMin,        \* numeric_limits<float>::lowest()
  TypeMax         \* numeric_limits<float>::max()

VARIABLES
  minVal, maxVal, \* the range, shared by the team
  pc,             \* chunk -> "resetMin", "resetMax", "mins", "maxs", "launch", "done"
  range           \* chunk -> the arguments of its launch

vars == <<minVal, maxVal, pc, range>>

\* float minVal, maxVal: not initialised before cGetMinMax.
Init ==
  /\ minVal \in {TypeMin, TypeMax}
  /\ maxVal \in {TypeMin, TypeMax}
  /\ pc = [c \in Chunks |-> "resetMin"]
  /\ range = [c \in Chunks |-> <<>>]

Goto(c, from, to) == pc[c] = from /\ pc' = [pc EXCEPT ![c] = to]

ResetMin(c) ==
  /\ Goto(c, "resetMin", "resetMax")
  /\ minVal' = TypeMax
  /\ UNCHANGED <<maxVal, range>>

ResetMax(c) ==
  /\ Goto(c, "resetMax", "mins")
  /\ maxVal' = TypeMin
  /\ UNCHANGED <<minVal, range>>

\* retrieve: if (minVal > hostMins[i]) minVal = hostMins[i]
RetrieveMin(c) ==
  /\ Goto(c, "mins", "maxs")
  /\ minVal' = IF minVal > Lowest[c] THEN Lowest[c] ELSE minVal
  /\ UNCHANGED <<maxVal, range>>

RetrieveMax(c) ==
  /\ Goto(c, "maxs", "launch")
  /\ maxVal' = IF maxVal < Highest[c] THEN Highest[c] ELSE maxVal
  /\ UNCHANGED <<minVal, range>>

Launch(c) ==
  /\ Goto(c, "launch", "done")
  /\ range' = [range EXCEPT ![c] = <<minVal, maxVal>>]
  /\ UNCHANGED <<minVal, maxVal>>

Next == \E c \in Chunks :
  ResetMin(c) \/ ResetMax(c) \/ RetrieveMin(c) \/ RetrieveMax(c) \/ Launch(c)

Spec == Init /\ [][Next]_vars

\* Contradicted by the code: the kernel of a chunk bins over the chunk's own range,
\* whichever worker runs beside it ("the entropy within the neighborhood given by the
\* kernel", ScrCmdEntropyFilter.h).  A range that is another chunk's gives bin numbers
\* outside the histogram.
RangeIsItsOwn ==
  \A c \in Chunks : pc[c] = "done" => range[c] = <<Lowest[c], Highest[c]>>
=============================================================================
