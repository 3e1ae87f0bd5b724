------------------------------ MODULE PidSpec ------------------------------
(***************************************************************************)
(* What "allocate a new pid" (Process::StartFork) promises: in one step a  *)
(* new process gets a pid that no process in the table has, and never 1.   *)
(* This is the step that ProcLife takes.                                   *)
(***************************************************************************)
EXTENDS Naturals

CONSTANTS
    Slot,      \* Process objects for the new processes
    OldPids,   \* the pids of the processes that are there from the start
    MaxPid     \* 0xFFFF in the code

VARIABLE pidOf   \* the pid of each process in the table, 0 for none

TakenPids == OldPids \union {pidOf[s] : s \in Slot}

Init == pidOf = [s \in Slot |-> 0]

Allocate(s) ==
    /\ pidOf[s] = 0
    /\ \E k \in 2..MaxPid :
          /\ k \notin TakenPids
          /\ pidOf' = [pidOf EXCEPT ![s] = k]

\* The process has exited and wait4 has erased it.
Release(s) == pidOf[s] # 0 /\ pidOf' = [pidOf EXCEPT ![s] = 0]

Next == \E s \in Slot : Allocate(s) \/ Release(s)

Spec == Init /\ [][Next]_pidOf
=============================================================================
