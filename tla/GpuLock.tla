------------------------------- MODULE GpuLock -------------------------------
(***************************************************************************)
(* What SCOPED_PROCESS_MUTEX promises a script command (the comment in     *)
(* ScriptCommandImpl.h: "run only a single GPU kernel at a time"): callers *)
(* ask for the GPU, at most one of them runs on it, a call may be refused  *)
(* (an exception) and a caller may die at any time, running or not.        *)
(***************************************************************************)
CONSTANT Proc      \* the threads of all the processes of one user

VARIABLE phase     \* what each thread is doing: "out", "waiting", "running"

Init == phase = [p \in Proc |-> "out"]

\* A command starts: ScopedProcessMutex is being constructed.
Ask(p) ==
    /\ phase[p] = "out"
    /\ phase' = [phase EXCEPT ![p] = "waiting"]

\* The constructor returns: the command may use the GPU.
Acquire(p) ==
    /\ phase[p] = "waiting"
    /\ \A q \in Proc : phase[q] # "running"
    /\ phase' = [phase EXCEPT ![p] = "running"]

\* The constructor throws, the destructor releases, or the thread dies.
Leave(p) ==
    /\ phase[p] # "out"
    /\ phase' = [phase EXCEPT ![p] = "out"]

Next == \E p \in Proc : Ask(p) \/ Acquire(p) \/ Leave(p)

Spec == Init /\ [][Next]_phase
=============================================================================
