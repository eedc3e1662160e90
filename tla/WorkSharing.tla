----------------------------- MODULE WorkSharing -----------------------------
(***************************************************************************)
(* What the parallel loop over the chunks promises: every chunk is worked  *)
(* on once, and the call returns only when all of them are done, or not at *)
(* all because the process ended.                                          *)
(***************************************************************************)
VARIABLES
  chunks,       \* the chunks calculateChunking made
  progress,     \* chunk -> "waiting", "taken" or "done"
  status        \* "running", "returned", "aborted"

vars == <<chunks, progress, status>>

Init ==
  /\ progress = [i \in chunks |-> "waiting"]
  /\ status = "running"

Take(i) ==
  /\ status = "running"
  /\ progress[i] = "waiting"
  /\ progress' = [progress EXCEPT ![i] = "taken"]
  /\ UNCHANGED <<chunks, status>>

Deliver(i) ==
  /\ status = "running"
  /\ progress[i] = "taken"
  /\ progress' = [progress EXCEPT ![i] = "done"]
  /\ UNCHANGED <<chunks, status>>

Return ==
  /\ status = "running"
  /\ \A i \in chunks : progress[i] = "done"
  /\ status' = "returned"
  /\ UNCHANGED <<chunks, progress>>

Abort ==
  /\ status = "running"
  /\ status' = "aborted"
  /\ UNCHANGED <<chunks, progress>>

Next == (\E i \in chunks : Take(i) \/ Deliver(i)) \/ Return \/ Abort

Spec == Init /\ [][Next]_vars
=============================================================================
