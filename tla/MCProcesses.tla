---------------------------- MODULE MCProcesses -----------------------------
(***************************************************************************)
(* Small instances, for TLC, of PidAlloc, Signals, Ptrace, Ids, StaticFs   *)
(* and Paths (Signals with the signals that stop and kill). They are       *)
(* checked side by side: "part" says which of them a behaviour is about,   *)
(* and the variables of the others keep their first values.                *)
(***************************************************************************)
EXTENDS PidAlloc, Ptrace, Ids, StaticFs, Paths

VARIABLES
    part,        \* which module this behaviour is one of
    \* Signals
    sigPending, mask, action, frames, thread, inExec, trapFlag, base, opened,
    leaked

\* init and a process it forked: two pids below MaxPid are free
TwoOld == {1, 3}

\* An interrupt, and the signals that kill and stop.
MCAct(h, sa_mask) ==
    [handler |-> h, oneshot |-> FALSE, nodefer |-> FALSE, sa_mask |-> sa_mask]
St == INSTANCE Signals WITH
          Sig <- {2, 9, 19}, Actions <- {MCAct("IGN", {}), MCAct("FN", {9})},
          Masks <- {{9}}, MaxDepth <- 1, pending <- sigPending

\* Some of the patterns that FilesystemProc adds.
MCFiles == {<<"stat">>, <<"*", "stat">>, <<"*", "maps">>, <<"*", "fd", "*">>}
MCListers == {<<>>, <<"*", "fd">>}

MCLnk(e) == CASE e = "a" -> "a.lnk" [] e = "b" -> "b.lnk"
MCPlace == {<<"a">>, <<"a", "b">>}
MCArgs == [abs : {TRUE}, to : {<<"a">>, <<"a", "b">>}]
          \union [abs : {FALSE}, to : {<<"b">>, <<"..", "a">>}]
MCLinkTo == {[abs |-> FALSE, to |-> <<"b">>], [abs |-> FALSE, to |-> <<"..">>],
             [abs |-> TRUE, to |-> <<"b">>]}

stopvars == <<sigPending, mask, action, frames, thread, inExec, trapFlag, base,
              opened, leaked>>

MCInit ==
    /\ part \in {"pids", "stops", "ptrace", "ids", "staticfs", "paths"}
    /\ Init
    /\ St!Init
    /\ PtraceInit
    /\ IdsInit
    /\ part # "ids" => umask = 0
    /\ StaticFsInit
    /\ PathsInit

\* A step of one module.
OnlyPidAlloc(step_) ==
    /\ part = "pids" /\ step_
    /\ UNCHANGED <<part, stopvars, ptvars, ivars, svars, pvars>>
OnlySignals(step_) ==
    /\ part = "stops" /\ step_
    /\ UNCHANGED <<part, vars, ptvars, ivars, svars, pvars>>
OnlyPtrace(step_) ==
    /\ part = "ptrace" /\ step_
    /\ UNCHANGED <<part, vars, stopvars, ivars, svars, pvars>>
OnlyIds(step_) ==
    /\ part = "ids" /\ step_
    /\ UNCHANGED <<part, vars, stopvars, ptvars, svars, pvars>>
OnlyStaticFs(step_) ==
    /\ part = "staticfs" /\ step_
    /\ UNCHANGED <<part, vars, stopvars, ptvars, ivars, pvars>>
OnlyPaths(step_) ==
    /\ part = "paths" /\ step_
    /\ UNCHANGED <<part, vars, stopvars, ptvars, ivars, svars>>

MCNext ==
    \/ OnlyPidAlloc(Next)
    \/ OnlySignals(St!Next)
    \/ OnlyPtrace(PtraceNext)
    \/ OnlyIds(IdsNext)
    \/ OnlyStaticFs(StaticFsNext)
    \/ OnlyPaths(PathsNext)

MCvars == <<part, vars, stopvars, ptvars, ivars, svars, pvars>>

\* The fairness of each module's own specification: a behaviour is one of a
\* single module, so that one condition covers an action of each of them.
Fair1 ==
    \/ OnlySignals(St!Dispatch)
    \/ OnlyPtrace(Handler)

Fair2 ==
    \/ OnlySignals(St!ExecReset)
    \/ OnlyPtrace(Wait4Ends)

MCSpec ==
    /\ MCInit /\ [][MCNext]_MCvars
    /\ WF_MCvars(Fair1) /\ WF_MCvars(Fair2)

\* A SIGKILL ends a process that runs, whatever it masks, ignores or catches
\* (HandleSignal, DebuggerLoop).
SigkillEnds == St!KillEnds

\* The variables of each module have their types.
MCTypeOK ==
    /\ TypeOK /\ PtraceTypeOK /\ IdsTypeOK
    /\ part = "staticfs" => StaticFsTypeOK
    /\ part = "paths" => PathsTypeOK

\* The tree of patterns of FilesystemGenericStatic answers alike whether it is
\* searched, listed or opened.
MCLookupsAgree == part = "staticfs" => LookupsAgree
=============================================================================
