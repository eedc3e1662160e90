---------------------------- MODULE MCEntropyRange ----------------------------
(* A dark chunk and a bright one, on two devices. *)
EXTENDS EntropyRange

MCChunks == {0, 1}
MCLowest == [c \in MCChunks |-> IF c = 0 THEN 1 ELSE 5]
MCHighest == [c \in MCChunks |-> IF c = 0 THEN 3 ELSE 9]
MCTypeMin == -10
=============================================================================
