---------------------------- MODULE MCPidAlloc ----------------------------
(* Small instances of PidAlloc for TLC.                                    *)
EXTENDS PidAlloc

\* init and two processes it forked
ThreeOld == {1, 2, 3}
=============================================================================
