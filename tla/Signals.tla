------------------------------ MODULE Signals ------------------------------
(***************************************************************************)
(* Signals of one process: SendSignal from other handler threads, the      *)
(* dispatch at the next debug event, HandleSignal, the frames it leaves on *)
(* the user stack, sigreturn, sigaction, sigprocmask, signals a process    *)
(* raises itself, and exec.                                                *)
(*                                                                         *)
(* The program's context is abstracted to the stack of handler frames it   *)
(* runs on; a program leaves a handler by returning from it.  ptrace is    *)
(* not here, nor the event SendSignal sets for wait4 (see ProcLife).  An   *)
(* execve that fails changes nothing and is no step.  Signals are those of *)
(* the first word of a sigset_t, the one that sigaction stores.            *)
(***************************************************************************)
EXTENDS Integers, Sequences

CONSTANTS
    Sig,       \* signal numbers
    Actions,   \* what programs install with sigaction
    Masks,     \* what programs pass to sigprocmask
    MaxDepth   \* bound: nested handler frames

SIGKILL == 9
SIGCHLD == 17
SIGCONT == 18
SIGSTOP == 19
SIGTSTP == 20

\* struct sigaction: sa_handler, and of sa_flags SA_RESETHAND and SA_NODEFER.
SigActions == [handler : {"DFL", "IGN", "FN"}, oneshot : BOOLEAN,
               nodefer : BOOLEAN, sa_mask : SUBSET Sig]

ASSUME SigAssumption ==
    /\ Sig \subseteq 1..32
    /\ Actions \subseteq SigActions
    /\ Masks \subseteq SUBSET Sig
    /\ MaxDepth \in Nat

VARIABLES
    pending,    \* m_PendingSignals
    mask,       \* m_SignalMask
    action,     \* m_SignalAction
    frames,     \* the frames of running handlers on the user stack
    thread,     \* the stub's thread: "run", "suspended" or "exited"
    inExec,     \* the handler thread is between execve's start and its reset
    trapFlag,   \* the trap flag in the context of the stub's thread
    base,       \* history: the mask the program chose outside its handlers
    opened,     \* history: signals the program let in while they were blocked
    leaked      \* history: a context prepared for a handler was overwritten

vars == <<pending, mask, action, frames, thread, inExec, trapFlag,
          base, opened, leaked>>

Default == [handler |-> "DFL", oneshot |-> FALSE, nodefer |-> FALSE,
            sa_mask |-> {}]

\* InitSignalHandling
NoActions == [s \in Sig |-> Default]

Init ==
    /\ pending = {} /\ mask = {} /\ action = NoActions
    /\ frames = <<>>
    /\ thread = "run"
    /\ inExec = FALSE
    /\ trapFlag = FALSE
    /\ base = {} /\ opened = {} /\ leaked = FALSE

-----------------------------------------------------------------------------
(* HandleSignal                                                            *)

\* The default action of a signal.
DefaultAction(sig) ==
    CASE sig \in {SIGCHLD, 23} -> "nothing"
      [] sig = SIGCONT -> "resume"
      [] sig \in {SIGTSTP, 21, 22} -> "suspend"
      [] OTHER -> "exit"

\* Mutant of Decision: the mask is tested first.
DecisionMaskFirst(sig) ==
    CASE sig \in mask -> "nothing"
      [] sig \notin mask /\ sig = SIGKILL -> "exit"
      [] sig \notin mask /\ sig = SIGSTOP -> "suspend"
      [] OTHER -> IF action[sig].handler = "DFL" THEN DefaultAction(sig)
                  ELSE IF action[sig].handler = "IGN" THEN "nothing" ELSE "call"

\* What HandleSignal decides: SIGKILL and SIGSTOP come before the mask, the
\* mask before the action.
Decision(sig) ==
    CASE sig = SIGKILL -> "exit"
      [] sig = SIGSTOP -> "suspend"
      [] OTHER -> IF sig \in mask THEN "nothing"
                  ELSE IF action[sig].handler = "DFL" THEN DefaultAction(sig)
                  ELSE IF action[sig].handler = "IGN" THEN "nothing" ELSE "call"

\* Mutants of HandlerMask: the running signal is not added; its bit is off by
\* one.
HandlerMaskBare(sig) == action[sig].sa_mask

HandlerMaskShifted(sig) ==
    action[sig].sa_mask \union (IF action[sig].nodefer THEN {} ELSE {sig - 1})

\* The mask while the handler runs: it replaces the old one.
HandlerMask(sig) ==
    action[sig].sa_mask \union (IF action[sig].nodefer THEN {} ELSE {sig})

\* HandleSignal.  onEvent is false when it runs inside HandleException: that
\* ends by setting the thread's context to the one it read at its start, so
\* a context prepared for a handler is lost.
HandleSignal(sig, onEvent) ==
    LET d == Decision(sig)
    IN  /\ thread' = CASE d = "exit" -> "exited"
                       [] d = "suspend" -> "suspended"
                       [] OTHER -> "run"
        /\ \/ /\ d # "call"
              /\ UNCHANGED <<mask, action, frames, opened, leaked>>
           \/ /\ d = "call"
              /\ Len(frames) < MaxDepth
              /\ action' = [action EXCEPT ![sig].handler =
                                IF action[sig].oneshot THEN "DFL" ELSE @]
              /\ mask' = HandlerMask(sig)
              /\ frames' = IF onEvent
                           THEN Append(frames, [sig |-> sig, mask |-> mask])
                           ELSE frames
              /\ opened' = IF action[sig].nodefer THEN opened \union {sig}
                                                  ELSE opened
              /\ leaked' = (leaked \/ ~onEvent)
        /\ UNCHANGED base

-----------------------------------------------------------------------------
(* Another process's handler thread: kill, SIGCHLD.                        *)

\* SetSingleStep(set, NULL) edits a copy of the context (of the sender's
\* thread T) and, bDoSet being false, does not store it.
SetSingleStep(set) == UNCHANGED trapFlag

SendSignal(sig) ==
    /\ thread # "exited"
    /\ pending' = pending \union {sig}
    /\ SetSingleStep(TRUE)
    /\ UNCHANGED <<mask, action, frames, thread, inExec, base, opened, leaked>>

-----------------------------------------------------------------------------
(* This process's handler thread                                           *)

\* A debug event arrives while a signal is pending.  The scan of
\* m_PendingSignals starts at the lowest number.  The event's own reason is
\* dropped; a system call or fault comes again, EIP being still at it.
Dispatch ==
    /\ thread = "run" /\ ~inExec
    /\ \E sig \in pending :
          /\ \A other \in pending : sig <= other
          /\ pending' = pending \ {sig}
          /\ HandleSignal(sig, TRUE)
    /\ UNCHANGED <<inExec, trapFlag>>

\* A system call, or a fault, with nothing pending reaches HandleException.
Trapped == thread = "run" /\ ~inExec /\ pending = {}

\* kill(getpid(), sig), a fault (SIGSEGV, SIGFPE, SIGILL): SendSignal finds
\* that it runs on the thread that handles this process.
RaiseSignal(sig) ==
    /\ Trapped
    /\ HandleSignal(sig, FALSE)
    /\ UNCHANGED <<pending, inExec, trapFlag>>

Sigaction(sig, act) ==
    /\ Trapped
    /\ action' = [action EXCEPT ![sig] = act]
    /\ UNCHANGED <<pending, mask, frames, thread, inExec, trapFlag, base,
                   opened, leaked>>

\* A call without oldset; with it, sigprocmask returns before it looks at set.
Sigprocmask(how, set) ==
    /\ Trapped
    /\ mask' = CASE how = "BLOCK" -> mask \union set
                 [] how = "UNBLOCK" -> mask \ set
                 [] how = "SETMASK" -> set
    /\ opened' = opened \union (mask \ mask')
    /\ base' = IF frames = <<>> THEN mask' ELSE base
    /\ UNCHANGED <<pending, action, frames, thread, inExec, trapFlag, leaked>>

\* Mutant of Sigreturn: the context is restored, the mask is not.
SigreturnContextOnly ==
    /\ Trapped
    /\ frames # <<>>
    /\ frames' = SubSeq(frames, 1, Len(frames) - 1)
    /\ UNCHANGED <<pending, mask, action, thread, inExec, trapFlag, base, opened,
                   leaked>>

\* A handler returns into the restorer, which calls sigreturn.
Sigreturn ==
    /\ Trapped
    /\ frames # <<>>
    /\ mask' = frames[Len(frames)].mask
    /\ frames' = SubSeq(frames, 1, Len(frames) - 1)
    /\ UNCHANGED <<pending, action, thread, inExec, trapFlag, base, opened,
                   leaked>>

\* execve, up to FreeResourcesBeforeExec ...
ExecStart ==
    /\ Trapped
    /\ inExec' = TRUE
    /\ UNCHANGED <<pending, mask, action, frames, thread, trapFlag, base,
                   opened, leaked>>

\* ... and from "signals are reset on exec" to the new image.  Signals sent
\* in between are cleared with the rest.
ExecReset ==
    /\ inExec
    /\ inExec' = FALSE
    /\ pending' = {} /\ mask' = {} /\ action' = NoActions
    /\ frames' = <<>>
    /\ base' = {} /\ opened' = {} /\ leaked' = FALSE
    /\ UNCHANGED <<thread, trapFlag>>

Next ==
    \/ \E sig \in Sig : SendSignal(sig) \/ RaiseSignal(sig)
    \/ Dispatch
    \/ \E sig \in Sig, act \in Actions : Sigaction(sig, act)
    \/ \E how \in {"BLOCK", "UNBLOCK", "SETMASK"}, set \in Masks :
          Sigprocmask(how, set)
    \/ Sigreturn
    \/ ExecStart
    \/ ExecReset

Spec == Init /\ [][Next]_vars

\* The kernel's threads run.  A thread with the trap flag set causes a debug
\* event; without it, a program that only computes causes none.
KernelFair == Spec /\ WF_vars(ExecReset) /\ WF_vars(trapFlag /\ Dispatch)

\* The program goes on causing debug events.
ProgramTraps == KernelFair /\ WF_vars(Dispatch)

-----------------------------------------------------------------------------
(* Properties                                                              *)

\* Types: a mask, an action per signal, and frames with the mask they saved.
TypeOK ==
    /\ pending \subseteq Sig /\ mask \subseteq Sig
    /\ base \subseteq Sig /\ opened \subseteq Sig
    /\ action \in [Sig -> SigActions]
    /\ frames \in Seq([sig : Sig, mask : SUBSET Sig])
    /\ Len(frames) <= MaxDepth
    /\ thread \in {"run", "suspended", "exited"}
    /\ inExec \in BOOLEAN /\ trapFlag \in BOOLEAN /\ leaked \in BOOLEAN

\* Handlers nest, each replacing the mask, and a program may change the mask
\* inside them; when the last has returned, the mask is the one the program
\* chose outside of them (HandleSignal's SavedState, rt_sigreturn).  The
\* exception is a process that raised a signal it catches.
BaseMaskRestored == frames = <<>> /\ ~leaked => mask = base

\* HandleSignal replaces the mask and does not add to it, so a handler can be
\* entered again while it runs, but only from another signal's handler: two
\* adjacent frames are of different signals, unless the program let the
\* signal in (SA_NODEFER, sigprocmask).
NoDirectReentry ==
    ~leaked => \A i \in 1..(Len(frames) - 1) :
        frames[i].sig = frames[i + 1].sig => frames[i].sig \in opened

\* SIGKILL sent to a process that runs ends it, whatever it masks, ignores or
\* catches (HandleSignal, "some signals cannot be caught"), unless the process
\* stops first, is in an exec (which clears pending signals), or a signal with
\* a lower number is there (the scan of DebuggerLoop takes it first).
KillEnds ==
    (SIGKILL \in pending)
        ~> \/ thread # "run"
           \/ inExec
           \/ \E sig \in pending : sig < SIGKILL

\* A signal sent to a process is seen by its debugger, also when the program
\* makes no system call (SendSignal, "this forces the debugger to intervene
\* and then it can see the pending signals"), with the exceptions of KillEnds.
DebuggerIntervenes ==
    \A sig \in Sig :
        (sig \in pending)
            ~> \/ sig \notin pending
               \/ thread # "run"
               \/ inExec
               \/ \E other \in pending : other < sig
=============================================================================
