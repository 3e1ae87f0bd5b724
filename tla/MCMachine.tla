----------------------------- MODULE MCMachine ------------------------------
(***************************************************************************)
(* Small instances, for TLC, of MemTransfer, Timing, Console, Inject and   *)
(* Startup. They are checked side by side: "part" says which of them a     *)
(* behaviour is about, and the variables of the others keep their first    *)
(* values.                                                                 *)
(***************************************************************************)
EXTENDS MemTransfer, Timing, Console, Inject, Startup

VARIABLES
    part         \* which module this behaviour is one of

\* Ctrl-C, Enter, and a key that sends two characters.
MCKeys == {<<3>>, <<10>>, <<27, 91>>}

\* All command lines of at most five characters, and two longer ones.
MCCmdLines ==
    UNION {[1..n -> {" ", "\"", "=", "r", "x"}] : n \in 0..5}
        \cup {<<"r", "=", "x", " ", "i", "=", "\"", "x", " ", "\"">>,
              <<"r", "=", "x", " ", "d", " ", "x", " ", "=", "x", " ", "x">>}
MCDirs == {<<"x">>}
MCDrives == <<"C">>

MCInit ==
    /\ part \in {"transfer", "timing", "console", "inject", "startup"}
    /\ Init
    /\ part # "transfer" => local0 = 0 /\ remote0 = 0 /\ len = 0
    /\ TimingInit
    /\ part # "timing" => now = 0
    /\ ConsoleInit
    /\ InjectInit
    /\ StartupInit
    /\ part # "startup" => line = <<>>

\* A step of one module.
OnlyMemTransfer(step_) ==
    /\ part = "transfer" /\ step_
    /\ UNCHANGED <<part, tvars, cvars, jvars, uvars>>
OnlyTiming(step_) ==
    /\ part = "timing" /\ step_
    /\ UNCHANGED <<part, vars, cvars, jvars, uvars>>
OnlyConsole(step_) ==
    /\ part = "console" /\ step_
    /\ UNCHANGED <<part, vars, tvars, jvars, uvars>>
OnlyInject(step_) ==
    /\ part = "inject" /\ step_
    /\ UNCHANGED <<part, vars, tvars, cvars, uvars>>
OnlyStartup(step_) ==
    /\ part = "startup" /\ step_
    /\ UNCHANGED <<part, vars, tvars, cvars, jvars>>

MCNext ==
    \/ OnlyMemTransfer(Next)
    \/ OnlyTiming(TimingNext)
    \/ OnlyConsole(ConsoleNext)
    \/ OnlyInject(InjectNext)
    \/ OnlyStartup(StartupNext)

MCvars == <<part, vars, tvars, cvars, jvars, uvars>>

\* The fairness of each module's own specification: a behaviour is one of a
\* single module, so that one condition covers an action of each of them.
Fair1 == OnlyConsole(Loop)

Fair2 == OnlyConsole(Handler)

Fair3 == OnlyConsole(WindowSizeEnd(1))

Fair4 == OnlyConsole(WindowSizeEnd(2))

MCSpec ==
    /\ MCInit /\ [][MCNext]_MCvars
    /\ WF_MCvars(Fair1) /\ WF_MCvars(Fair2) /\ WF_MCvars(Fair3) /\ WF_MCvars(Fair4)

\* The variables of each module have their types.
MCTypeOK ==
    TypeOK /\ TimingTypeOK /\ ConsoleTypeOK /\ InjectTypeOK /\ StartupTypeOK
=============================================================================
