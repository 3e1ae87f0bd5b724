------------------------------- MODULE Groups -------------------------------
(***************************************************************************)
(* Process groups: getpgid (which also sets the group), setpgid, kill to a *)
(* process, to a group and to all, and fork, which copies the group and    *)
(* the pending signals of the parent.  kill walks the process table while  *)
(* other handler threads fork.                                             *)
(*                                                                         *)
(* One signal, caught by the programs; one kill at a time.  Exits and      *)
(* wait4 are in ProcLife, what a signal does in Signals.                   *)
(***************************************************************************)
EXTENDS Integers, Sequences, FiniteSets

CONSTANTS
    Pid,       \* pids; 1 is init
    Group      \* bound: the groups that programs name

ASSUME GroupsConstants == Pid \subseteq Nat \ {0} /\ 1 \in Pid /\ Group \subseteq Pid

VARIABLES
    table,     \* m_Processes, in order
    phase,     \* of each pid: see TypeOK
    parent,    \* m_ParentPid
    group,     \* m_ProcessGroupPID
    signalled,   \* the processes whose m_PendingSignals has the signal
    kill,      \* the kill under way: the caller, its target, the iterator
    due,       \* history: processes this kill is to reach
    got        \* history: processes that received its signal

gvars == <<table, phase, parent, group, signalled, kill, due, got>>

NoKill == [by |-> 0, to |-> 0, pos |-> 0]

\* StartInit: the constructor leaves the group 0.
GroupsInit ==
    /\ table = <<1>>
    /\ phase = [p \in Pid |-> IF p = 1 THEN "run" ELSE "none"]
    /\ parent = [p \in Pid |-> 0]
    /\ group = [p \in Pid |-> 0]
    /\ signalled = {} /\ kill = NoKill /\ due = {} /\ got = {}

\* The handler thread serves a call of p's program.
Calls(p) == phase[p] = "run" /\ kill.by # p

-----------------------------------------------------------------------------
(* fork                                                                    *)

\* StartFork: the child is in the table before its state is copied, and the
\* parent's handler thread waits for m_hForkDoneEvent.
Fork(p, c) ==
    /\ Calls(p) /\ phase[c] = "none"
    /\ table' = Append(table, c)
    /\ phase' = [phase EXCEPT ![p] = "forking", ![c] = "setup"]
    /\ parent' = [parent EXCEPT ![c] = p]
    /\ UNCHANGED <<group, signalled, kill, due, got>>

\* DebuggerLoop dispatches a signal that reaches the child during its set-up.
\* The injected exit has no address yet: the child never comes to the copy.
SetupSignal(c) ==
    /\ phase[c] = "setup" /\ c \in signalled
    /\ signalled' = signalled \ {c}
    /\ phase' = [phase EXCEPT ![c] = "lost"]
    /\ UNCHANGED <<table, parent, group, kill, due, got>>

\* ForkCopyOtherProcess up to the group and the ids.
ForkCopyGroup(c) ==
    /\ phase[c] = "setup"
    /\ phase' = [phase EXCEPT ![c] = "copying"]
    /\ group' = [group EXCEPT ![c] = group[parent[c]]]
    /\ due' = CASE kill.to = -1 -> due
                [] parent[c] \in due \ (got \ signalled) -> due \cup {c}
                [] OTHER -> due \ {c}
    /\ UNCHANGED <<table, parent, signalled, kill, got>>

\* Mutant of Copied: the child starts with no signal pending.
CopiedNone(c) == signalled \ {c}

\* memcpy of m_PendingSignals
Copied(c) == IF parent[c] \in signalled THEN signalled \cup {c} ELSE signalled \ {c}

\* The rest of ForkCopyOtherProcess, and m_hForkDoneEvent.
ForkCopySignals(c) ==
    /\ phase[c] = "copying"
    /\ phase' = [phase EXCEPT ![c] = "run", ![parent[c]] = "run"]
    /\ signalled' = Copied(c)
    /\ got' = IF c \in Copied(c) THEN got \cup {c} ELSE got \ {c}
    /\ UNCHANGED <<table, parent, group, kill, due>>

-----------------------------------------------------------------------------
(* Groups                                                                  *)

\* A process that changes its group, and the child it is forking, are no
\* longer due.
Leaves(p, g) ==
    due' = IF g = group[p] THEN due
           ELSE due \ ({p} \cup {c \in Pid : parent[c] = p /\ phase[c] = "copying"})

\* sys_getpgid(pid, pgid): 0 keeps the group.
Getpgid(p, pid, pgid) ==
    /\ Calls(p)
    /\ \E i \in DOMAIN table : table[i] = pid
    /\ LET g == IF pgid = 0 THEN group[pid] ELSE pgid
       IN group' = [group EXCEPT ![pid] = g] /\ Leaves(pid, g)
    /\ UNCHANGED <<table, phase, parent, signalled, kill, got>>

\* sys_setpgid: whatever the arguments, a group of its own.
Setpgid(p) ==
    /\ Calls(p)
    /\ group' = [group EXCEPT ![p] = p]
    /\ Leaves(p, p)
    /\ UNCHANGED <<table, phase, parent, signalled, kill, got>>

-----------------------------------------------------------------------------
(* kill                                                                    *)

Members(k) ==
    {p \in Pid \ {1} : (\E i \in DOMAIN table : table[i] = p)
                       /\ (k.to = -1 \/ group[p] = -k.to)}

\* SendSignal: the killer handles its own at once.
Sent(k, p) == IF p = k.by THEN signalled ELSE signalled \cup {p}

\* pid > 0: one process.
KillOne(p, pid) ==
    /\ Calls(p)
    /\ \E i \in DOMAIN table : table[i] = pid
    /\ signalled' = IF p = pid THEN signalled ELSE signalled \cup {pid}
    /\ UNCHANGED <<table, phase, parent, group, kill, due, got>>

\* The other calls: all (-1), "our group" (0: the caller's pid) or a group.
KillMany(p, pid) ==
    /\ Calls(p) /\ kill = NoKill
    /\ kill' = [by |-> p, to |-> IF pid = 0 THEN -p ELSE pid, pos |-> 1]
    /\ due' = {q \in Members(kill') : phase[q] = "copying" =>
                  kill'.to = -1 \/ parent[q] \in Members(kill')}
    /\ got' = {}
    /\ UNCHANGED <<table, phase, parent, group, signalled>>

Wanted(k, p) == p # 1 /\ (k.to = -1 \/ group[p] = -k.to)

\* The iterator's next process.
KillStep ==
    /\ kill # NoKill /\ kill.pos <= Len(table)
    /\ LET p == table[kill.pos] IN
       IF Wanted(kill, p)
       THEN signalled' = Sent(kill, p) /\ got' = got \cup {p}
       ELSE UNCHANGED <<signalled, got>>
    /\ kill' = [kill EXCEPT !.pos = @ + 1]
    /\ UNCHANGED <<table, phase, parent, group, due>>

KillEnd ==
    /\ kill # NoKill /\ kill.pos > Len(table)
    /\ kill' = NoKill /\ due' = {} /\ got' = {}
    /\ UNCHANGED <<table, phase, parent, group, signalled>>

\* The next debug event of a running program.
Receive(p) ==
    /\ Calls(p) /\ p \in signalled
    /\ signalled' = signalled \ {p}
    /\ UNCHANGED <<table, phase, parent, group, kill, due, got>>

GroupsNext ==
    \/ \E p, c \in Pid : Fork(p, c)
    \/ \E c \in Pid : SetupSignal(c) \/ ForkCopyGroup(c) \/ ForkCopySignals(c)
    \/ \E p, pid \in Pid, g \in Group \cup {0} : Getpgid(p, pid, g)
    \/ \E p \in Pid : Setpgid(p) \/ Receive(p)
    \/ \E p, pid \in Pid : KillOne(p, pid)
    \/ \E p \in Pid, pid \in {-1, 0} \cup {-g : g \in Group} : KillMany(p, pid)
    \/ KillStep \/ KillEnd

GroupsSpec == GroupsInit /\ [][GroupsNext]_gvars

-----------------------------------------------------------------------------
\* The process table, the groups, and what the set-up of a forked process has
\* done so far (Process::StartInit, ForkCopyOtherProcess) fit together.
GroupsTypeOK ==
    /\ {table[i] : i \in DOMAIN table} = {p \in Pid : phase[p] # "none"}
    /\ Cardinality({table[i] : i \in DOMAIN table}) = Len(table)
    /\ phase \in [Pid -> {"none", "setup", "copying", "run", "forking", "lost"}]
    /\ \A p \in Pid : phase[p] = "forking" <=>
          \E c \in Pid : parent[c] = p /\ phase[c] \in {"setup", "copying", "lost"}
    /\ group \in [Pid -> Pid \cup {0}]
    /\ signalled \subseteq Pid

\* A kill of a group misses none of its processes, those forked while it walks
\* the table included: a child it passes before fork has copied the group gets
\* the signal with the parent's pending ones.  A child that is being copied from
\* a parent outside the group is not due, nor one of init: init is spared.
GroupKillReaches ==
    (kill # NoKill /\ kill.to # -1 /\ kill.pos > Len(table)) =>
        \A p \in due : phase[p] \in {"run", "forking"} => p \in got
=============================================================================
