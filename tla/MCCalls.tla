------------------------------ MODULE MCCalls -------------------------------
(***************************************************************************)
(* Small instances, for TLC, of Signals, Groups, Handlers and Ldt. They    *)
(* are checked side by side: "part" says which of them a behaviour is      *)
(* about, and the variables of the others keep their first values.         *)
(***************************************************************************)
EXTENDS MCSignals, Groups, Handlers, Ldt

VARIABLES
    part         \* which module this behaviour is one of

MCOffsets == {-1, 0, 1}

MCInit ==
    /\ part \in {"signals", "groups", "handlers", "ldt"}
    /\ Init
    /\ GroupsInit
    /\ HandlersInit
    /\ part # "handlers" => kind = "file" /\ src = 1 /\ obj.bytes = 0
    /\ LdtInit

\* A step of one module.
OnlyMCSignals(step_) ==
    /\ part = "signals" /\ step_
    /\ UNCHANGED <<part, gvars, hvars, lvars>>
OnlyGroups(step_) ==
    /\ part = "groups" /\ step_
    /\ UNCHANGED <<part, vars, hvars, lvars>>
OnlyHandlers(step_) ==
    /\ part = "handlers" /\ step_
    /\ UNCHANGED <<part, vars, gvars, lvars>>
OnlyLdt(step_) ==
    /\ part = "ldt" /\ step_
    /\ UNCHANGED <<part, vars, gvars, hvars>>

MCNext ==
    \/ OnlyMCSignals(Next)
    \/ OnlyGroups(GroupsNext)
    \/ OnlyHandlers(HandlersNext)
    \/ OnlyLdt(LdtNext)

MCvars == <<part, vars, gvars, hvars, lvars>>

MCSpec == MCInit /\ [][MCNext]_MCvars

\* The variables of each module have their types.
MCTypeOK == TypeOK /\ GroupsTypeOK /\ HandlersTypeOK /\ LdtTypeOK
=============================================================================
