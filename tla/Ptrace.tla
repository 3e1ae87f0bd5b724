------------------------------- MODULE Ptrace -------------------------------
(***************************************************************************)
(* ptrace: a tracer and its child.  The child's handler thread stops       *)
(* itself with SuspendThread in HandleSignal, at the entry and the exit of *)
(* a system call, after execve and for every signal.  The tracer learns of *)
(* it by SIGCHLD and wait4, and resumes the thread with ptrace.            *)
(*                                                                         *)
(* The registers are abstracted to eax and the saved eax; a call is its    *)
(* kind.  A signal the child catches or ignores leaves it running: the     *)
(* handler's frame is in Signals.  FindProcess of a pid that names no      *)
(* process gives NULL, which sys_ptrace dereferences: the kernel crashes.  *)
(* A tracer that exits stays in the process table, as in ProcLife.         *)
(***************************************************************************)
EXTENDS Integers, FiniteSetsExt

CONSTANTS
    Others     \* signals other processes send to the child

\* Signals count from 1; 0 is none.
ASSUME PtraceConstants == Others \subseteq Nat \ {0}

SIGTRAP == 5
SIGKILL == 9

Calls == {"plain", "execve", "raise", "traceme"}

VARIABLES
    step,      \* the child's handler thread, see TypeOK
    at,        \* where the signal being handled was raised
    call,      \* the call being served
    current,   \* m_CurrentSignal
    pending,   \* m_PendingSignals
    owned,     \* m_ptrace.OwnerPid is the tracer
    request,   \* m_ptrace.Request
    newSignal, \* m_ptrace.new_signal
    regs,      \* m_ptrace: ctx_valid, ctx.Eax and Saved_Eax
    user,      \* eax in the context of the child's own thread
    tracer,    \* the tracer: "run", "wait" (in wait4) or "exited"
    event,     \* the tracer's m_hWaitTerminatingEvent
    inTable,     \* the child is in the process table
    crashed,   \* the kernel took an access violation
    reported,  \* history: wait4 reported a stop, no ptrace resumed it since
    chosen,    \* history: the signal this stop is to deliver
    careful    \* history: every resume so far followed a reported stop

ptvars == <<step, at, call, current, pending, owned, request, newSignal, regs,
            user, tracer, event, inTable, crashed, reported, chosen,
            careful>>

childvars == <<step, at, call, current, owned, request, newSignal, regs, user>>
tracervars == <<tracer, inTable, crashed, reported, careful>>

PtraceInit ==
    /\ step = "user" /\ at = "none" /\ call = "none"
    /\ current = 0 /\ pending = {}
    /\ owned = FALSE /\ request = "none" /\ newSignal = 0
    /\ regs = [valid |-> FALSE, eax |-> "user", saved |-> "none"]
    /\ user = "user"
    /\ tracer = "run" /\ event = FALSE /\ inTable = TRUE /\ crashed = FALSE
    /\ reported = FALSE /\ chosen = 0 /\ careful = TRUE

-----------------------------------------------------------------------------
(* The child                                                               *)

\* SendSignal on the process's own handler thread: HandleSignal is next.
Raise(sig, place) ==
    /\ step' = "signal" /\ at' = place /\ current' = sig

StopsOnCalls == owned /\ request = "SYSCALL"

\* HandleInt80SysCall up to the handler.  A number beyond the table is
\* answered by Unhandled and never stops.
Int80(c) ==
    /\ step = "user" /\ pending = {} /\ ~crashed
    /\ IF c = "bad"
       THEN /\ regs' = [regs EXCEPT !.eax = "nr", !.valid = FALSE]
            /\ user' = "ENOSYS"
            /\ UNCHANGED <<step, at, call, current>>
       ELSE /\ call' = c /\ user' = "nr"
            /\ IF StopsOnCalls
               THEN /\ regs' = [valid |-> TRUE, eax |-> "ENOSYS", saved |-> c]
                    /\ Raise(SIGTRAP, "entry")
               ELSE /\ regs' = [regs EXCEPT !.valid = TRUE, !.eax = "nr"]
                    /\ step' = "call" /\ UNCHANGED <<at, current>>
    /\ UNCHANGED <<pending, owned, request, newSignal, event, chosen, tracervars>>

\* The handler: execve stops a traced child with registers that fake its
\* return, "raise" sends a signal to the process itself (SIGPIPE, kill).
Call ==
    /\ step = "call" /\ ~crashed
    /\ CASE call = "execve" /\ owned ->
              /\ regs' = [valid |-> TRUE, eax |-> "0", saved |-> "execve"]
              /\ user' = "new"
              /\ Raise(SIGTRAP, "exec")
              /\ UNCHANGED <<owned, request>>
         [] call = "raise" ->
              /\ \E sig \in Others : Raise(sig, "call")
              /\ UNCHANGED <<regs, user, owned, request>>
         [] call = "traceme" ->
              /\ owned' = TRUE /\ request' = "TRACEME"
              /\ step' = "return"
              /\ UNCHANGED <<at, current, regs, user>>
         [] OTHER ->
              /\ step' = "return"
              /\ user' = IF call = "execve" THEN "new" ELSE user
              /\ UNCHANGED <<at, current, regs, owned, request>>
    /\ UNCHANGED <<call, pending, newSignal, event, chosen, tracervars>>

\* What the call leaves in eax.
Result == IF call = "execve" THEN "new" ELSE "ret"

ExitRegs == [regs EXCEPT !.eax = Result, !.saved = call]

\* HandleInt80SysCall after the handler: a stop on exit, or back to user code.
Return ==
    /\ step = "return" /\ ~crashed
    /\ user' = Result
    /\ IF StopsOnCalls
       THEN regs' = ExitRegs /\ Raise(SIGTRAP, "exit")
       ELSE /\ regs' = [regs EXCEPT !.valid = FALSE]
            /\ step' = "user" /\ UNCHANGED <<at, current>>
    /\ UNCHANGED <<call, pending, owned, request, newSignal, event, chosen,
                   tracervars>>

\* DebuggerLoop: the lowest pending signal goes before the event's reason.
DebugEvent ==
    /\ step = "user" /\ pending # {} /\ ~crashed
    /\ pending' = pending \ {Min(pending)}
    /\ Raise(Min(pending), "debug")
    /\ UNCHANGED <<call, owned, request, newSignal, regs, user, event, chosen,
                   tracervars>>

\* Where the handler thread goes on after HandleSignal.
GoesOn(place) ==
    CASE place = "entry" -> "call"
      [] place \in {"call", "exec"} -> "return"
      [] OTHER -> "user"

\* HandleSignal's action on sig: SIGKILL and the default actions end the
\* process, a traced one ignores SIGTRAP, a handler or a mask lets it go on.
\* The exit ends the handler thread inside InjectFunctionCall.
Act(sig) ==
    /\ \/ /\ sig # SIGKILL
          /\ step' = GoesOn(at)
       \/ /\ ~(sig = SIGTRAP /\ owned)
          /\ step' = "exited"
    /\ regs' = IF at = "exit" THEN [regs EXCEPT !.valid = FALSE] ELSE regs
    /\ current' = 0 /\ at' = "none" /\ chosen' = 0

\* HandleSignal of a traced process: SIGCHLD to the owner, which sets its event.
Stop ==
    /\ newSignal' = current
    /\ event' = TRUE
    /\ step' = "told"
    /\ chosen' = current
    /\ UNCHANGED <<at, current, regs>>

HandleSignal ==
    /\ step = "signal" /\ ~crashed
    /\ IF owned THEN Stop ELSE Act(current) /\ UNCHANGED <<newSignal, event>>
    /\ UNCHANGED <<call, pending, owned, request, user, tracervars>>

\* SuspendThread(GetCurrentThread())
Suspend ==
    /\ step = "told" /\ ~crashed
    /\ step' = "asleep"
    /\ UNCHANGED <<at, call, current, pending, owned, request, newSignal, regs,
                   user, event, chosen, tracervars>>

\* Resumed: the signal the tracer left in new_signal is acted on.
Woken ==
    /\ step = "woken" /\ ~crashed
    /\ Act(newSignal)
    /\ UNCHANGED <<call, pending, owned, request, newSignal, user, event,
                   tracervars>>

\* SendSignal by another process's handler thread.
Kill(sig) ==
    /\ inTable /\ step # "exited" /\ ~crashed
    /\ pending' = pending \cup {sig}
    /\ UNCHANGED <<childvars, event, chosen, tracervars>>

-----------------------------------------------------------------------------
(* The tracer                                                              *)

\* Mutant of IsSuspended: SIGCHLD is taken for the stop.
IsSuspendedTold == step \in {"told", "asleep"}

IsSuspended == step = "asleep"

Wait4 ==
    /\ tracer = "run" /\ inTable /\ ~crashed
    /\ tracer' = "wait"
    /\ UNCHANGED <<childvars, pending, event, inTable, crashed, reported, chosen,
                   careful>>

\* Mutant of WantsStopped: only WUNTRACED asks for stopped children.
WantsStopped0 == FALSE

\* A wait without WUNTRACED still reports the stops of a traced child.
WantsStopped == owned

\* A turn of wait4's loop that ends it: the child exited and is forgotten,
\* the event was set, or the child is stopped.
Wait4Ends ==
    /\ tracer = "wait" /\ ~crashed
    /\ \/ /\ step = "exited"
          /\ inTable' = FALSE
          /\ reported' = FALSE
       \/ /\ event
          /\ UNCHANGED <<inTable, reported>>
       \/ /\ ~event /\ step # "exited"
          /\ WantsStopped /\ IsSuspended
          /\ reported' = TRUE
          /\ UNCHANGED inTable
    /\ tracer' = "run" /\ event' = FALSE
    /\ UNCHANGED <<childvars, pending, crashed, chosen, careful>>

\* ResumeThread of the child's handler thread: nothing if it does not sleep.
Resumed == IF step = "asleep" THEN "woken" ELSE step

\* PTRACE_SYSCALL and PTRACE_CONT; data is the signal to deliver.
Resume(req, data) ==
    /\ tracer = "run" /\ inTable /\ ~crashed
    /\ request' = req
    /\ newSignal' = IF data # 0 THEN data ELSE newSignal
    /\ chosen' = IF data # 0 /\ reported THEN data ELSE chosen
    /\ step' = Resumed
    /\ careful' = (careful /\ reported)
    /\ reported' = FALSE
    /\ UNCHANGED <<at, call, current, pending, owned, regs, user, tracer, event,
                   inTable, crashed>>

\* PTRACE_KILL
PtraceKill ==
    /\ tracer = "run" /\ inTable /\ ~crashed
    /\ pending' = IF step = "exited" THEN pending ELSE pending \cup {SIGKILL}
    /\ step' = Resumed
    /\ careful' = (careful /\ reported)
    /\ reported' = FALSE
    /\ UNCHANGED <<at, call, current, owned, request, newSignal, regs, user,
                   tracer, event, inTable, crashed, chosen>>

\* PTRACE_PEEKUSR of eax and orig_eax.
PeekUsr == <<IF regs.valid THEN regs.eax ELSE user, regs.saved>>

\* sys_ptrace with the pid of no process: the tracer asks for a child that is
\* gone, or a PTRACE_TRACEME, which has no use for the pid, passes none.
NoProcess ==
    /\ \/ tracer = "run" /\ ~inTable
       \/ step = "call" /\ call = "traceme"
    /\ ~crashed /\ crashed' = TRUE
    /\ UNCHANGED <<childvars, pending, tracer, event, inTable, reported, chosen,
                   careful>>

\* The tracer calls exit: its handler thread ends inside the injected call, so
\* the loop that clears OwnerPid is not reached.
TracerExit ==
    /\ tracer = "run" /\ ~crashed
    /\ tracer' = "exited"
    /\ reported' = FALSE
    /\ UNCHANGED <<childvars, pending, event, inTable, crashed, chosen, careful>>

Handler ==
    \/ Call \/ Return \/ DebugEvent \/ HandleSignal \/ Suspend \/ Woken

PtraceNext ==
    \/ \E c \in Calls \cup {"bad"} : Int80(c)
    \/ Handler
    \/ \E sig \in Others : Kill(sig)
    \/ Wait4 \/ Wait4Ends
    \/ \E req \in {"SYSCALL", "none"}, data \in {0} \cup Others : Resume(req, data)
    \/ PtraceKill \/ NoProcess \/ TracerExit

PtraceSpec == PtraceInit /\ [][PtraceNext]_ptvars

\* The child's handler thread runs, a program with a pending signal comes to
\* its next debug event, and wait4 polls every 50 ms.
PtraceFair == PtraceSpec /\ WF_ptvars(Handler) /\ WF_ptvars(Wait4Ends)

-----------------------------------------------------------------------------
\* The stops, requests and registers of a traced child, and what its tracer
\* does (HandleSignal, sys_ptrace), have their types.
PtraceTypeOK ==
    /\ step \in {"user", "call", "return", "signal", "told", "asleep", "woken",
                 "exited"}
    /\ at \in {"none", "entry", "call", "exec", "exit", "debug"}
    /\ call \in Calls \cup {"none"}
    /\ step \in {"signal", "told", "asleep", "woken"} <=> current # 0
    /\ step \in {"signal", "told", "asleep", "woken"} <=> at # "none"
    /\ owned \in BOOLEAN /\ request \in {"none", "TRACEME", "SYSCALL"}
    /\ pending \subseteq Others \cup {SIGKILL}
    /\ newSignal \in Others \cup {0, SIGTRAP, SIGKILL}
    /\ tracer \in {"run", "wait", "exited"}
    /\ {event, inTable, crashed, reported, careful} \subseteq BOOLEAN

\* From wait4's report of a stop until the tracer resumes the child, the
\* child's handler thread sleeps: the ResumeThread of sys_ptrace wakes it.
StopHolds == reported => step = "asleep"

\* The registers a tracer peeks at a reported stop are those of the stop:
\* -ENOSYS and the number on entry, the result on exit, 0 after execve, and
\* the program's own when a signal arrived.
PeekSeesStop ==
    reported =>
        /\ at = "entry" => PeekUsr = <<"ENOSYS", call>>
        /\ at = "exit" => PeekUsr = <<Result, call>>
        /\ at = "exec" => PeekUsr = <<"0", "execve">>
        /\ at = "debug" => PeekUsr[1] = user

\* When a stop ends, HandleSignal acts on the signal the tracer chose at the
\* reported stop or, if it chose none, on the one that stopped the child: no
\* signal of an earlier stop is delivered.  A tracer that resumes before wait4
\* reported the stop loses this.
DeliversChosen == careful /\ reported => newSignal = chosen

\* What a tracer finds at a stop that wait4 reported, and what it chose there,
\* holds until it resumes the child.
ReportedStops == StopHolds /\ PeekSeesStop /\ DeliversChosen

\* wait4 of the tracer returns once the child has stopped.
WaitSeesStop == tracer = "wait" /\ step = "told" ~> tracer # "wait" \/ crashed
=============================================================================
