--------------------------- MODULE MCProcessMutex ---------------------------
(* Small instances of ProcessMutex for TLC. *)
EXTENDS ProcessMutex, TLC

\* Threads and objects are interchangeable in every safety property.
Symmetry == Permutations(Proc) \cup Permutations(Obj)
=============================================================================
