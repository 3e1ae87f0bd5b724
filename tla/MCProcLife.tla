---------------------------- MODULE MCProcLife ----------------------------
(* Small instances of ProcLife for TLC.                                    *)
EXTENDS ProcLife, TLC

\* All Process objects but init's are alike.
OthersAlike == Permutations(Proc \ {InitProc})

\* Programs send no signals.
NoKills == {}

\* Programs send SIGTERM.
Kills == {"TERM"}
=============================================================================
