------------------------------ MODULE ProcLife ------------------------------
(***************************************************************************)
(* The life of a keow process: fork, the hand-over between the forking     *)
(* process and the thread that debugs the new stub, exit, SIGCHLD, the     *)
(* inheritance of orphans by init, and wait4.                              *)
(*                                                                         *)
(* Every Process object has one kernel thread (its handler), which runs    *)
(* KernelProcessHandlerEntry and, inside it, every system call of that     *)
(* process.  handler[p] is the place that thread has reached.  The         *)
(* handlers share g_pKernelTable->m_Processes (table) without a lock.      *)
(*                                                                         *)
(* A Process object is a member of Proc and is used once.  Objects are     *)
(* kept apart from pids because the code looks processes up by pid after   *)
(* it has let go of the object, and pids come round again.                 *)
(*                                                                         *)
(* The search for a free pid is one step here; module PidAlloc takes it    *)
(* apart.  Stops and ptrace (the WUNTRACED half of wait4) are not here.    *)
(***************************************************************************)
EXTENDS Integers

CONSTANTS
    Proc,       \* Process objects
    InitProc,   \* the one StartInit creates
    NoProc,     \* the NULL Process pointer
    MaxPid,     \* 0xFFFF in the code
    MaxTries,   \* 10000 in the code
    KillSigs    \* the signals user programs send to each other

ASSUME ProcAssumption == InitProc \in Proc /\ NoProc \notin Proc
ASSUME PidAssumption == MaxPid \in Nat /\ MaxPid > 2 /\ MaxTries \in Nat \ {0}
ASSUME SigAssumption == KillSigs \subseteq {"TERM", "CHLD"}

VARIABLES
    table,         \* m_Processes, as a set of objects
    pid,           \* m_Pid, 0 while the object is unused
    parentPid,     \* m_ParentPid
    lastPid,       \* g_pKernelTable->m_LastPID
    wrapped,       \* history: has m_LastPID ever gone round?
    stillRunning,  \* the processes with m_bStillRunning
    win32,         \* the Win32 process behind m_hProcess, see Win32State
    startEvent,    \* those whose m_hProcessStartEvent is set
    forkDone,      \* those whose m_hForkDoneEvent is set
    handler,       \* where the handler thread is, see HandlerPC
    forkChild,     \* NewP, while the handler is inside StartFork
    waitSet,       \* the children whose handles wait4 collected
    waitResult,    \* result, once wait4 has found a child
    waitEvent,     \* those whose m_hWaitTerminatingEvent is set
    pending,       \* m_PendingSignals
    faults         \* history: where a NULL Process pointer was dereferenced

tableVars == <<table, pid, parentPid, lastPid, wrapped>>
forkVars == <<startEvent, forkDone, forkChild>>
waitVars == <<waitSet, waitResult>>
sigVars == <<waitEvent, pending>>
vars == <<tableVars, stillRunning, win32, forkVars, handler, waitVars,
          sigVars, faults>>

(***************************************************************************)
(* The Win32 process: "null" before CreateProcess (m_hProcess is NULL),    *)
(* "setup" while m_bInWin32Setup, "missed" when the stub's single-step     *)
(* event was dropped so that it runs on into ExitProcess(-11), "keow" once *)
(* it has been converted, "exiting" when its EXIT_PROCESS event has not    *)
(* been continued yet, "gone" when its handle is signalled.                *)
(***************************************************************************)
Win32State == {"null", "setup", "missed", "keow", "exiting", "gone"}

HandlerPC == {"none", "entry", "loop", "fork_thread", "fork_start",
              "fork_done", "wait4", "reap", "sigchld", "reparent", "ended"}

\* Where the code uses the result of FindProcess without a test for NULL.
FaultPlaces == {"ConvertProcessToKeow", "KernelProcessHandlerEntry", "sys_wait4"}

InFork(p) == handler[p] \in {"fork_thread", "fork_start", "fork_done"}

InWait(p) == handler[p] \in {"wait4", "reap"}

\* The Process with this pid, or NULL.
FindProcess(k) ==
    IF \E o \in table : pid[o] = k
    THEN CHOOSE o \in table : pid[o] = k
    ELSE NoProc

\* Mutant of NthPid: m_LastPID is not wrapped.
NthPidUnwrapped(i) == lastPid + i

\* m_LastPID after i rounds of ++m_LastPID and the wrap to 2.
NthPid(i) ==
    LET base == IF lastPid > MaxPid THEN MaxPid ELSE lastPid
    IN  IF base + i <= MaxPid
        THEN base + i
        ELSE 2 + ((base + i - MaxPid - 1) % (MaxPid - 1))

\* Mutant of IsFree: only init's pid is skipped.
IsFreeButInit(k) == k # 1

IsFree(k) == \A o \in table : pid[o] # k

\* The handler thread has received a system call of its process: with a
\* signal pending DebuggerLoop would dispatch that and drop the event.
Trapped(p) ==
    /\ handler[p] = "loop"
    /\ win32[p] = "keow"
    /\ pending[p] = {}

-----------------------------------------------------------------------------
(* StartInit and the conversion of its stub have completed.                *)

Init ==
    /\ table = {InitProc}
    /\ pid = [o \in Proc |-> IF o = InitProc THEN 1 ELSE 0]
    /\ parentPid = [o \in Proc |-> 0]
    /\ lastPid = 0
    /\ wrapped = FALSE
    /\ stillRunning = Proc
    /\ win32 = [o \in Proc |-> IF o = InitProc THEN "keow" ELSE "null"]
    /\ startEvent = {}
    /\ forkDone = {}
    /\ handler = [o \in Proc |-> IF o = InitProc THEN "loop" ELSE "none"]
    /\ forkChild = [o \in Proc |-> NoProc]
    /\ waitSet = [o \in Proc |-> {}]
    /\ waitResult = [o \in Proc |-> NoProc]
    /\ waitEvent = {}
    /\ pending = [o \in Proc |-> {}]
    /\ faults = {}

-----------------------------------------------------------------------------
(* StartFork                                                               *)

\* A pid is found, the new Process is numbered and joins the table.
StartFork(p, c) ==
    /\ Trapped(p)
    /\ pid[c] = 0
    /\ \E i \in 1..MaxTries :
          /\ IsFree(NthPid(i))
          /\ \A j \in 1..(i - 1) : ~IsFree(NthPid(j))
          /\ lastPid' = NthPid(i)
    /\ wrapped' = (wrapped \/ lastPid' <= lastPid)
    /\ pid' = [pid EXCEPT ![c] = lastPid']
    /\ parentPid' = [parentPid EXCEPT ![c] = pid[p]]
    /\ table' = table \union {c}
    /\ forkChild' = [forkChild EXCEPT ![p] = c]
    /\ handler' = [handler EXCEPT ![p] = "fork_thread"]
    /\ UNCHANGED <<stillRunning, win32, startEvent, forkDone, waitVars,
                   sigVars, faults>>

\* No pid within the attempts allowed: fork returns -EAGAIN.  The last
\* increment is not wrapped.
StartForkNoPid(p) ==
    /\ Trapped(p)
    /\ \A i \in 1..MaxTries : ~IsFree(NthPid(i))
    /\ lastPid' = NthPid(MaxTries) + 1
    /\ wrapped' = (wrapped \/ lastPid' <= lastPid)
    /\ UNCHANGED <<table, pid, parentPid, stillRunning, win32, forkVars,
                   handler, waitVars, sigVars, faults>>

\* delete NewP; return NULL
AbandonFork(p) ==
    /\ table' = table \ {forkChild[p]}
    /\ forkChild' = [forkChild EXCEPT ![p] = NoProc]
    /\ handler' = [handler EXCEPT ![p] = "loop"]

CreateHandlerThread(p) ==
    /\ handler[p] = "fork_thread"
    /\ \/ /\ handler' = [handler EXCEPT ![p] = "fork_start",
                                        ![forkChild[p]] = "entry"]
          /\ UNCHANGED <<table, forkChild>>
       \/ AbandonFork(p)
    /\ UNCHANGED <<pid, parentPid, lastPid, wrapped, stillRunning, win32,
                   startEvent, forkDone, waitVars, sigVars, faults>>

\* Mutant of ForkChildStarted: fork does not wait for m_hForkDoneEvent.
ForkChildStartedOnly(p) ==
    /\ handler[p] = "fork_start"
    /\ forkChild[p] \in startEvent
    /\ forkChild' = [forkChild EXCEPT ![p] = NoProc]
    /\ handler' = [handler EXCEPT ![p] = "loop"]
    /\ UNCHANGED <<tableVars, stillRunning, win32, startEvent, forkDone,
                   waitVars, sigVars, faults>>

\* The wait for m_hProcessStartEvent is over.
ForkChildStarted(p) ==
    /\ handler[p] = "fork_start"
    /\ forkChild[p] \in startEvent
    /\ \/ /\ win32[forkChild[p]] = "null"
          /\ AbandonFork(p)
       \/ /\ win32[forkChild[p]] # "null"
          /\ handler' = [handler EXCEPT ![p] = "fork_done"]
          /\ UNCHANGED <<table, forkChild>>
    /\ UNCHANGED <<pid, parentPid, lastPid, wrapped, stillRunning, win32,
                   startEvent, forkDone, waitVars, sigVars, faults>>

\* The wait for m_hForkDoneEvent is over; fork returns in the parent.
ForkReturn(p) ==
    /\ handler[p] = "fork_done"
    /\ forkChild[p] \in forkDone
    /\ forkChild' = [forkChild EXCEPT ![p] = NoProc]
    /\ handler' = [handler EXCEPT ![p] = "loop"]
    /\ UNCHANGED <<tableVars, stillRunning, win32, startEvent, forkDone,
                   waitVars, sigVars, faults>>

-----------------------------------------------------------------------------
(* KernelProcessHandlerEntry up to the debug loop                          *)

\* Mutant of KernelProcessHandlerEntry: a failed CreateProcess is not
\* announced.
KernelProcessHandlerEntryQuiet(c) ==
    /\ handler[c] = "entry"
    /\ \/ /\ startEvent' = startEvent \union {c}
          /\ win32' = [win32 EXCEPT ![c] = "setup"]
          /\ handler' = [handler EXCEPT ![c] = "loop"]
       \/ /\ handler' = [handler EXCEPT ![c] = "ended"]
          /\ UNCHANGED <<win32, startEvent>>
    /\ UNCHANGED <<tableVars, stillRunning, forkDone, forkChild, waitVars,
                   sigVars, faults>>

\* Mutant of KernelProcessHandlerEntry: it sets both events.
KernelProcessHandlerEntryEager(c) ==
    /\ handler[c] = "entry"
    /\ startEvent' = startEvent \union {c}
    /\ forkDone' = forkDone \union {c}
    /\ win32' = [win32 EXCEPT ![c] = "setup"]
    /\ handler' = [handler EXCEPT ![c] = "loop"]
    /\ UNCHANGED <<tableVars, stillRunning, forkChild, waitVars, sigVars, faults>>

KernelProcessHandlerEntry(c) ==
    /\ handler[c] = "entry"
    /\ startEvent' = startEvent \union {c}
    /\ \/ /\ win32' = [win32 EXCEPT ![c] = "setup"]
          /\ handler' = [handler EXCEPT ![c] = "loop"]
       \/ /\ handler' = [handler EXCEPT ![c] = "ended"]  \* CreateProcess failed
          /\ UNCHANGED win32
    /\ UNCHANGED <<tableVars, stillRunning, forkDone, forkChild, waitVars,
                   sigVars, faults>>

\* The stub's single-step arrives: ForkCopyOtherProcess clones the process
\* found under m_ParentPid, its pending signals included.
ConvertProcessToKeow(c) ==
    /\ handler[c] = "loop"
    /\ win32[c] = "setup"
    /\ pending[c] = {}
    /\ LET pParent == FindProcess(parentPid[c])
       IN  IF pParent = NoProc
           THEN /\ faults' = faults \union {"ConvertProcessToKeow"}
                /\ UNCHANGED <<pending, win32, forkDone>>
           ELSE /\ pending' = [pending EXCEPT ![c] = pending[pParent]]
                /\ win32' = [win32 EXCEPT ![c] = "keow"]
                /\ forkDone' = forkDone \union {c}
                /\ UNCHANGED faults
    /\ UNCHANGED <<tableVars, stillRunning, startEvent, handler, forkChild,
                   waitVars, waitEvent>>

-----------------------------------------------------------------------------
(* Signals, as far as the life of a process depends on them                *)

\* SendSignal to a process other than the sender's own.
SendSignal(q, sig) ==
    /\ pending' = [pending EXCEPT ![q] = @ \union {sig}]
    /\ waitEvent' = waitEvent \union {q}

\* SysCallDll::exit: ExitProcess runs in the stub and InjectFunctionCall
\* sees EXIT_PROCESS, records it and ends the handler thread on the spot.
ExitInInjectedCall(p) ==
    /\ stillRunning' = stillRunning \ {p}
    /\ win32' = [win32 EXCEPT ![p] = "exiting"]
    /\ handler' = [handler EXCEPT ![p] = "ended"]

\* exit(), and a fatal signal the process raises itself.
SysExit(p) ==
    /\ Trapped(p)
    /\ ExitInInjectedCall(p)
    /\ UNCHANGED <<tableVars, forkVars, waitVars, sigVars, faults>>

\* kill(pid, sig) with another process's pid
SysKill(p, q, sig) ==
    /\ Trapped(p)
    /\ q \in table \ {p}
    /\ q = FindProcess(pid[q])
    /\ SendSignal(q, sig)
    /\ UNCHANGED <<tableVars, stillRunning, win32, forkVars, handler,
                   waitVars, faults>>

\* The pending signal with the lowest number: SIGTERM is 15, SIGCHLD 17.
LowestPending(p) == IF "TERM" \in pending[p] THEN "TERM" ELSE "CHLD"

\* The debug event that DebuggerLoop drops when it has a signal to dispatch.
\* Losing any event but these two does no harm.
DroppedEvent(p) ==
    \/ /\ win32[p] = "setup"     \* the single-step that starts conversion
       /\ win32' = [win32 EXCEPT ![p] = "missed"]
    \/ /\ win32[p] = "exiting"   \* EXIT_PROCESS
       /\ win32' = [win32 EXCEPT ![p] = "gone"]
    \/ UNCHANGED win32           \* any other

\* The signal branch of DebuggerLoop.  SIGCHLD is ignored.  SIGTERM ends
\* the process in an injected call, except that before the conversion, and
\* after the exit, the injection has no context to run in: the call may
\* then come to nothing.
DispatchSignal(p) ==
    /\ handler[p] = "loop"
    /\ win32[p] \notin {"null", "gone"}
    /\ pending[p] # {}
    /\ pending' = [pending EXCEPT ![p] = @ \ {LowestPending(p)}]
    /\ \/ /\ LowestPending(p) = "CHLD" \/ win32[p] # "keow"
          /\ DroppedEvent(p)
          /\ UNCHANGED <<stillRunning, handler>>
       \/ /\ LowestPending(p) = "TERM"
          /\ ExitInInjectedCall(p)
    /\ UNCHANGED <<tableVars, forkVars, waitVars, waitEvent, faults>>

-----------------------------------------------------------------------------
(* The end of a process that was not asked to exit by its own handler      *)

\* The stub terminates by itself (StubMain and DllMain fall through to
\* ExitProcess) or is terminated from outside keow.
StubDies(p) ==
    /\ win32[p] \in {"setup", "missed", "keow"}
    /\ win32' = [win32 EXCEPT ![p] = "exiting"]
    /\ UNCHANGED <<tableVars, stillRunning, forkVars, handler, waitVars,
                   sigVars, faults>>

\* EXIT_PROCESS in DebuggerLoop
ExitEvent(p) ==
    /\ handler[p] = "loop"
    /\ win32[p] = "exiting"
    /\ pending[p] = {}
    /\ stillRunning' = stillRunning \ {p}
    /\ handler' = [handler EXCEPT ![p] = IF pid[p] = 1 THEN "reparent"
                                                       ELSE "sigchld"]
    /\ UNCHANGED <<tableVars, win32, forkVars, waitVars, sigVars, faults>>

\* "parent should get SIGCHLD when we exit"
SignalParent(p) ==
    /\ handler[p] = "sigchld"
    /\ handler' = [handler EXCEPT ![p] = "reparent"]
    /\ LET pParent == FindProcess(parentPid[p])
       IN  IF pParent = NoProc
           THEN /\ faults' = faults \union {"KernelProcessHandlerEntry"}
                /\ UNCHANGED sigVars
           ELSE SendSignal(pParent, "CHLD") /\ UNCHANGED faults
    /\ UNCHANGED <<tableVars, stillRunning, win32, forkVars, waitVars>>

\* Mutant of InheritChildren: m_ParentPid is not compared.
InheritEveryone(p) ==
    /\ handler[p] = "reparent"
    /\ parentPid' = [o \in Proc |-> IF o \in table THEN 1 ELSE parentPid[o]]
    /\ handler' = [handler EXCEPT ![p] = "ended"]
    /\ UNCHANGED <<table, pid, lastPid, wrapped, stillRunning, win32,
                   forkVars, waitVars, sigVars, faults>>

\* "any children get inherited by init"
InheritChildren(p) ==
    /\ handler[p] = "reparent"
    /\ parentPid' = [o \in Proc |->
                        IF o \in table /\ parentPid[o] = pid[p]
                        THEN 1 ELSE parentPid[o]]
    /\ handler' = [handler EXCEPT ![p] = "ended"]
    /\ UNCHANGED <<table, pid, lastPid, wrapped, stillRunning, win32,
                   forkVars, waitVars, sigVars, faults>>

\* Win32 signals the process handle once the exit has been debugged.
HandleSignalled(p) ==
    /\ win32[p] = "exiting"
    /\ p \notin stillRunning
    /\ win32' = [win32 EXCEPT ![p] = "gone"]
    /\ UNCHANGED <<tableVars, stillRunning, forkVars, handler, waitVars,
                   sigVars, faults>>

-----------------------------------------------------------------------------
(* wait4 for children that exit                                            *)

Children(p) == {c \in table : parentPid[c] = pid[p]}

\* wait_pid picks some of the children.  The loop stops at one that has
\* exited already.
Wait4(p, sel) ==
    /\ Trapped(p)
    /\ sel # {}
    /\ waitSet' = [waitSet EXCEPT ![p] = sel]
    /\ \/ \E c \in sel :
             /\ c \notin stillRunning
             /\ waitResult' = [waitResult EXCEPT ![p] = c]
             /\ handler' = [handler EXCEPT ![p] = "reap"]
       \/ /\ sel \subseteq stillRunning
          /\ handler' = [handler EXCEPT ![p] = "wait4"]
          /\ UNCHANGED waitResult
    /\ UNCHANGED <<tableVars, stillRunning, win32, forkVars, sigVars, faults>>

\* Every way out of wait4 resets the event.
LeaveWait4(p) ==
    /\ waitSet' = [waitSet EXCEPT ![p] = {}]
    /\ waitResult' = [waitResult EXCEPT ![p] = NoProc]
    /\ waitEvent' = waitEvent \ {p}
    /\ handler' = [handler EXCEPT ![p] = "loop"]

\* Nothing to wait for (-ECHILD), or WNOHANG and nothing to report.
Wait4Nothing(p) ==
    /\ Trapped(p)
    /\ LeaveWait4(p)
    /\ UNCHANGED <<tableVars, stillRunning, win32, forkVars, pending, faults>>

\* Mutant of Wait4Child: a signalled handle is enough.
Wait4ChildUnchecked(p, c) ==
    /\ handler[p] = "wait4"
    /\ c \in waitSet[p]
    /\ win32[c] = "gone"
    /\ waitResult' = [waitResult EXCEPT ![p] = c]
    /\ handler' = [handler EXCEPT ![p] = "reap"]
    /\ UNCHANGED <<tableVars, stillRunning, win32, forkVars, waitSet, sigVars,
                   faults>>

\* Mutant of Wait4Child: the test of m_bStillRunning is the wrong way round.
Wait4ChildInverted(p, c) ==
    /\ c \in stillRunning
    /\ Wait4ChildUnchecked(p, c)

\* A child's handle is signalled.  It has the lower index, so it is
\* reported before the event.  A child whose exit is not recorded is
\* waited for again.
Wait4Child(p, c) ==
    /\ handler[p] = "wait4"
    /\ c \in waitSet[p]
    /\ win32[c] = "gone"
    /\ LET q == FindProcess(pid[c])
       IN  \/ /\ q = NoProc
              /\ faults' = faults \union {"sys_wait4"}
              /\ UNCHANGED <<waitResult, handler>>
           \/ /\ q # NoProc
              /\ q \notin stillRunning
              /\ waitResult' = [waitResult EXCEPT ![p] = c]
              /\ handler' = [handler EXCEPT ![p] = "reap"]
              /\ UNCHANGED faults
    /\ UNCHANGED <<tableVars, stillRunning, win32, forkVars, waitSet, sigVars>>

\* m_hWaitTerminatingEvent is set and no child's handle is: -EINTR.
Wait4Interrupted(p) ==
    /\ handler[p] = "wait4"
    /\ \A c \in waitSet[p] : win32[c] # "gone"
    /\ p \in waitEvent
    /\ LeaveWait4(p)
    /\ UNCHANGED <<tableVars, stillRunning, win32, forkVars, pending, faults>>

\* The status is stored and the child is forgotten.
Wait4Reap(p) ==
    /\ handler[p] = "reap"
    /\ LET q == FindProcess(pid[waitResult[p]])
       IN  /\ table' = table \ {q}
           /\ faults' = IF q = NoProc THEN faults \union {"sys_wait4"}
                                     ELSE faults
    /\ LeaveWait4(p)
    /\ UNCHANGED <<pid, parentPid, lastPid, wrapped, stillRunning, win32,
                   forkVars, pending>>

-----------------------------------------------------------------------------
Step(p) ==
    \/ \E c \in Proc : StartFork(p, c) \/ Wait4Child(p, c)
    \/ StartForkNoPid(p)
    \/ CreateHandlerThread(p)
    \/ ForkChildStarted(p)
    \/ ForkReturn(p)
    \/ KernelProcessHandlerEntry(p)
    \/ ConvertProcessToKeow(p)
    \/ SysExit(p)
    \/ \E q \in Proc, sig \in KillSigs : SysKill(p, q, sig)
    \/ DispatchSignal(p)
    \/ StubDies(p)
    \/ ExitEvent(p)
    \/ SignalParent(p)
    \/ InheritChildren(p)
    \/ HandleSignalled(p)
    \/ \E sel \in SUBSET Children(p) : Wait4(p, sel)
    \/ Wait4Nothing(p)
    \/ Wait4Interrupted(p)
    \/ Wait4Reap(p)

Next == \E p \in Proc : Step(p)

Spec == Init /\ [][Next]_vars

\* Kernel threads are scheduled, stubs run, and Win32 delivers what it
\* owes; nothing obliges a program to make a system call or a stub to die.
\* A signal waits for the next debug event, which a stub that is starting
\* or exiting is sure to cause and a running program is not.  The last
\* conjunct: a stub whose single-step was dropped runs on into
\* ExitProcess(-11).
Fairness ==
    \A p \in Proc :
        /\ WF_vars(CreateHandlerThread(p))
        /\ WF_vars(ForkChildStarted(p))
        /\ WF_vars(ForkReturn(p))
        /\ WF_vars(KernelProcessHandlerEntry(p))
        /\ WF_vars(ConvertProcessToKeow(p))
        /\ WF_vars(win32[p] # "keow" /\ DispatchSignal(p))
        /\ WF_vars(ExitEvent(p))
        /\ WF_vars(SignalParent(p))
        /\ WF_vars(InheritChildren(p))
        /\ WF_vars(HandleSignalled(p))
        /\ WF_vars(\E c \in Proc : Wait4Child(p, c))
        /\ WF_vars(Wait4Interrupted(p))
        /\ WF_vars(Wait4Reap(p))
        /\ WF_vars(win32[p] = "missed" /\ StubDies(p))

FairSpec == Spec /\ Fairness

-----------------------------------------------------------------------------
(* Properties                                                              *)

TypeOK ==
    /\ table \subseteq Proc
    /\ pid \in [Proc -> 0..MaxPid]
    /\ parentPid \in [Proc -> 0..MaxPid]
    /\ lastPid \in 0..(MaxPid + 1)
    /\ wrapped \in BOOLEAN
    /\ stillRunning \subseteq Proc
    /\ win32 \in [Proc -> Win32State]
    /\ startEvent \subseteq Proc
    /\ forkDone \subseteq Proc
    /\ handler \in [Proc -> HandlerPC]
    /\ forkChild \in [Proc -> Proc \union {NoProc}]
    /\ waitSet \in [Proc -> SUBSET Proc]
    /\ waitResult \in [Proc -> Proc \union {NoProc}]
    /\ waitEvent \subseteq Proc
    /\ pending \in [Proc -> SUBSET {"TERM", "CHLD"}]
    /\ faults \subseteq FaultPlaces

\* No two processes in the table have the same pid, and none but init has
\* pid 1, however often the numbers come round: what StartFork's search for
\* a free pid is for, given that no other fork runs in the middle of it.
UniquePids ==
    /\ \A a, b \in table : pid[a] = pid[b] => a = b
    /\ \A a \in table : pid[a] = 1 <=> a = InitProc

\* Until pids come round: a process leaves the table only after its exit has
\* been recorded, or because its fork came to nothing before there was a
\* Win32 process.  Neither wait4, which erases what it finds under a pid it
\* noted earlier, nor a failing StartFork forgets a process that is alive.
ForgetOnlyDead ==
    [][~wrapped =>
          \A o \in table \ table' :
              o \notin stillRunning \/ win32[o] = "null"]_vars

\* Until pids come round: everything wait4 has collected stays the caller's
\* child, stays in the table and has a handle, although the handlers of the
\* children and of other processes edit m_ParentPid and the table meanwhile.
\* So the pid lookups of wait4 that are not tested for NULL find a process.
WaitsOnOwnChildren ==
    ~wrapped =>
        \A p \in Proc :
            InWait(p) =>
                /\ \A c \in waitSet[p] : /\ c \in table
                                         /\ parentPid[c] = pid[p]
                                         /\ win32[c] # "null"
                /\ handler[p] = "reap" => /\ waitResult[p] \in waitSet[p]
                                          /\ waitResult[p] \notin stillRunning

\* Until pids come round: of the places that use the result of FindProcess
\* without a test for NULL, the copy of the parent in ConvertProcessToKeow
\* and the three lookups of wait4 never meet NULL.  (The lookup of the parent
\* in KernelProcessHandlerEntry does: a parent that has called exit() and
\* been reaped is still named by its children.)
LookupsFind == ~wrapped => faults \subseteq {"KernelProcessHandlerEntry"}

\* Until pids come round: a stub that is still being set up has its parent
\* blocked inside StartFork waiting for it, and m_ParentPid leads to that
\* parent, so that ForkCopyOtherProcess clones the caller of fork, and
\* clones it while it stands still.
CopiesStoppedParent ==
    ~wrapped =>
        \A c \in table :
            win32[c] = "setup" =>
                \E p \in table : /\ forkChild[p] = c
                                 /\ handler[p] \in {"fork_start", "fork_done"}
                                 /\ FindProcess(parentPid[c]) = p

\* fork comes back to its caller, unless the stub died before it was
\* converted: then nobody sets m_hForkDoneEvent, and the wait is INFINITE.
ForkReturns ==
    \A p \in Proc :
        InFork(p) ~> \/ ~InFork(p)
                     \/ /\ win32[forkChild[p]] \in {"exiting", "gone"}
                        /\ forkChild[p] \notin forkDone

\* wait4 returns once the exit of a child it waits for has been recorded.
WaitReturns ==
    \A p \in Proc :
        (handler[p] = "wait4" /\ \E c \in waitSet[p] : c \notin stillRunning)
            ~> handler[p] # "wait4"

-----------------------------------------------------------------------------
(* What the comments of the code say, and the code does not do             *)

\* "any children get inherited by init": when the handler thread of a
\* process has ended, no process in the table names it as its parent.
OrphansInherited ==
    \A p \in Proc :
        (handler[p] = "ended" /\ ~wrapped /\ p # InitProc)
            => \A c \in table : parentPid[c] # pid[p]

\* "parent will clean up the process table entry": when the Win32 process
\* has gone, its exit gets recorded, so that the parent's wait4 can see it.
ExitGetsRecorded ==
    \A p \in Proc : win32[p] = "gone" ~> p \notin stillRunning
=============================================================================
