------------------------------- MODULE Inject -------------------------------
(***************************************************************************)
(* Calls into the stub: InjectFunctionCall makes the stub's thread run a   *)
(* function of the SysCallDll on the Win32 context and waits for its       *)
(* breakpoint; the program's own context comes back when the system call   *)
(* returns.  ResumeKeowProcess then has the program pop GS from a frame on *)
(* its stack, because Windows clears GS.                                   *)
(*                                                                         *)
(* Registers are abstracted to the place eip is in, eax, GS and the bytes  *)
(* pushed on the program's stack.  A pending signal is dispatched before   *)
(* the event that brought it, which is dropped: the program runs the same  *)
(* instruction again.  The signal is one that leaves no frame (Signals has *)
(* the frames of handlers).                                                *)
(***************************************************************************)
EXTENDS Integers

CONSTANTS
    Gs         \* selectors a program loads into GS

\* A thread starts with the null selector.
ASSUME InjectConstants == 0 \in Gs

\* AddrInfo: what the dll offers, by what they do with the last error.
Clearing == {"ReadFile", "WriteFile", "SetFilePointer", "GetFilePointer"}
Tracing == {"VirtualAlloc", "VirtualFree", "CreateFileMapping",
            "MapViewOfFileEx", "UnmapViewOfFile"}
Plain == {"CloseHandle", "SetEndOfFile", "PeekAvailablePipe", "ZeroMem"}

\* The kernel's wrappers: each puts its arguments in order and injects a call.
Funcs == Clearing \cup Tracing \cup Plain \cup {"GetLastError", "exit"}

\* The frame of ResumeKeowProcess: segGs, retAddress and six bytes of code.
FrameSize == 14

VARIABLES
    k,         \* the handler thread: "loop", "serve", "inject" or "ended"
    setup,     \* m_bInWin32Setup
    regs,      \* the context of the stub's thread
    saved,     \* ctx of HandleException, OldCtx while in set-up
    segGs,     \* T->SegGs
    frame,     \* the GS the frame holds
    ev,        \* the debug event that stopped the stub, or "none"
    again,     \* the event that the program's next instruction causes
    func,      \* the function called last
    win,       \* the last error of the stub's thread
    gLastError,
    dwRet,     \* what InjectFunctionCall returned
    pending,   \* a signal is pending
    wanted,    \* history: the GS the program set
    lossy,     \* history: a signal came while GS differed from T->SegGs
    value,     \* history: what the function called last returned
    error      \* history: and the error of the last call but GetLastError

jvars == <<k, setup, regs, saved, segGs, frame, ev, again, func, win,
           gLastError, dwRet, pending, wanted, lossy, value, error>>

kernelvars == <<k, setup, saved, segGs, frame, dwRet>>
callvars == <<func, win, gLastError, value, error>>

AtStub == [eip |-> "stub", eax |-> 0, gs |-> 0, esp |-> 0]

\* DllMain has raised the single-step that starts ConvertProcessToKeow.
InjectInit ==
    /\ k = "serve" /\ setup = TRUE
    /\ regs = AtStub /\ saved = AtStub
    /\ segGs = 0 /\ frame = 0
    /\ ev = "none" /\ again = "none"
    /\ func = "none" /\ win = 0 /\ gLastError = 0 /\ dwRet = 0
    /\ pending = FALSE /\ wanted = 0 /\ lossy = FALSE /\ value = 0 /\ error = 0

-----------------------------------------------------------------------------
(* The program                                                             *)

InProgram == k = "loop" /\ ev = "none" /\ regs.eip = "prog" /\ again = "none"

\* A load of GS that the processor takes, and one that faults: the selector
\* is not in the GDT.
LoadGs(v) ==
    /\ InProgram
    /\ regs' = [regs EXCEPT !.gs = v]
    /\ wanted' = v /\ lossy' = FALSE
    /\ UNCHANGED <<ev, again, pending, kernelvars, callvars>>

Raises(e) ==
    /\ InProgram
    /\ ev' = e
    /\ UNCHANGED <<regs, again, pending, wanted, lossy, kernelvars, callvars>>

Again ==
    /\ k = "loop" /\ ev = "none" /\ regs.eip = "prog" /\ again # "none"
    /\ ev' = again /\ again' = "none"
    /\ UNCHANGED <<regs, pending, wanted, lossy, kernelvars, callvars>>

\* Mutant of RunFrame: "ret 4".
RunFrameShort ==
    /\ k = "loop" /\ ev = "none" /\ regs.eip = "frame"
    /\ regs' = [regs EXCEPT !.eip = "prog", !.gs = frame, !.esp = @ - 12]
    /\ UNCHANGED <<ev, again, pending, wanted, lossy, kernelvars, callvars>>

\* pop gs; ret 6
RunFrame ==
    /\ k = "loop" /\ ev = "none" /\ regs.eip = "frame"
    /\ regs' = [regs EXCEPT !.eip = "prog", !.gs = frame, !.esp = @ - 4 - 4 - 6]
    /\ UNCHANGED <<ev, again, pending, wanted, lossy, kernelvars, callvars>>

SendSignal ==
    /\ k # "ended" /\ ~setup /\ ~pending /\ pending' = TRUE
    /\ UNCHANGED <<regs, ev, again, wanted, lossy, kernelvars, callvars>>

-----------------------------------------------------------------------------
(* The handler thread                                                      *)

\* ResumeKeowProcess of context r with GS g.
ResumeKeowProcess(r, g) ==
    /\ frame' = g
    /\ regs' = [r EXCEPT !.eip = "frame", !.gs = 0, !.esp = @ + FrameSize]
    /\ k' = "loop" /\ ev' = "none"

\* DebuggerLoop: a pending signal goes first.
Dispatch ==
    /\ k = "loop" /\ ev \in {"int80", "trap"} /\ pending
    /\ pending' = FALSE
    /\ again' = ev
    /\ lossy' = (lossy \/ regs.gs # segGs)
    /\ ResumeKeowProcess(regs, segGs)
    /\ UNCHANGED <<setup, saved, segGs, dwRet, wanted, callvars>>

\* HandleException of "mov gs,eax" (HandlePossibleLDTException).
OnTrap(v) ==
    /\ k = "loop" /\ ev = "trap" /\ ~pending
    /\ segGs' = v
    /\ wanted' = v /\ lossy' = FALSE
    /\ ResumeKeowProcess([regs EXCEPT !.gs = v], v)
    /\ UNCHANGED <<setup, saved, again, dwRet, pending, callvars>>

\* HandleException of int 80h, up to the handler.
OnInt80 ==
    /\ k = "loop" /\ ev = "int80" /\ ~pending
    /\ saved' = regs /\ segGs' = regs.gs
    /\ k' = "serve" /\ ev' = "none"
    /\ UNCHANGED <<setup, regs, frame, dwRet, again, pending, wanted, lossy,
                   callvars>>

\* InjectFunctionCall up to ContinueDebugEvent: the Win32 context, at func.
Inject(f) ==
    /\ k = "serve" /\ f \in Funcs
    /\ func' = f
    /\ saved' = IF setup THEN regs ELSE saved
    /\ regs' = [AtStub EXCEPT !.eip = "func"]
    /\ k' = "inject"
    /\ UNCHANGED <<setup, segGs, frame, dwRet, ev, again, win, gLastError,
                   pending, wanted, lossy, value, error>>

\* A function that traces stops with a debug string first.
FuncTraces ==
    /\ k = "inject" /\ ev = "none" /\ regs.eip = "func" /\ func \in Tracing
    /\ ev' = "string" /\ regs' = [regs EXCEPT !.eip = "traced"]
    /\ UNCHANGED <<again, pending, wanted, lossy, kernelvars, callvars>>

\* The last error after the Win32 call.
LastError(f, ok) ==
    CASE ~ok -> 1
      [] ok /\ f \in Clearing -> 0
      [] OTHER -> win

\* RET: the error is saved for a later GetLastError.
RET(f, ok) ==
    /\ win' = LastError(f, ok)
    /\ gLastError' = win'

\* The function does its work and stops at int 3.
FuncRuns(ok) ==
    /\ k = "inject" /\ ev = "none" /\ func # "exit"
    /\ regs.eip = IF func \in Tracing THEN "traced" ELSE "func"
    /\ LET val == IF func = "GetLastError" THEN gLastError ELSE IF ok THEN 7 ELSE 0
       IN /\ regs' = [regs EXCEPT !.eip = "break", !.eax = val]
          /\ value' = val
    /\ IF func = "GetLastError" THEN ok /\ UNCHANGED win /\ gLastError' = win
       ELSE RET(func, ok)
    /\ error' = IF func = "GetLastError" THEN error ELSE LastError(func, ok)
    /\ ev' = "break"
    /\ UNCHANGED <<again, func, pending, wanted, lossy, kernelvars>>

FuncExits ==
    /\ k = "inject" /\ ev = "none" /\ func = "exit"
    /\ ev' = "exit"
    /\ UNCHANGED <<regs, again, pending, wanted, lossy, kernelvars, callvars>>

\* Mutant of EndsInjection: any event ends the wait.
EndsInjectionAny(e) == e \in {"break", "string"}

EndsInjection(e) == e = "break"

\* InjectFunctionCall's own event loop.
InjectEvent ==
    /\ k = "inject" /\ ev # "none"
    /\ ev' = "none"
    /\ CASE EndsInjection(ev) ->
              /\ dwRet' = regs.eax
              /\ regs' = IF setup THEN saved ELSE regs
              /\ k' = "serve"
         [] ~EndsInjection(ev) /\ ev = "exit" -> k' = "ended" /\ UNCHANGED <<dwRet, regs>>
         [] OTHER -> UNCHANGED <<k, dwRet, regs>>
    /\ UNCHANGED <<setup, saved, segGs, frame, again, pending, wanted, lossy,
                   callvars>>

\* ConvertProcessToKeow ends: the context of the program, of the parent's GS
\* after a fork; no GS frame.
Converted(v) ==
    /\ k = "serve" /\ setup
    /\ setup' = FALSE /\ k' = "loop"
    /\ regs' = [regs EXCEPT !.eip = "prog", !.gs = v]
    /\ wanted' = v
    /\ UNCHANGED <<saved, segGs, frame, dwRet, ev, again, pending, lossy, callvars>>

\* The call returns: HandleException stores ctx.
SysReturn ==
    /\ k = "serve" /\ ~setup
    /\ ResumeKeowProcess(saved, segGs)
    /\ UNCHANGED <<setup, saved, segGs, dwRet, again, pending, wanted, lossy,
                   callvars>>

InjectNext ==
    \/ \E v \in Gs : LoadGs(v) \/ OnTrap(v) \/ Converted(v)
    \/ \E e \in {"int80", "trap"} : Raises(e)
    \/ Again \/ RunFrame \/ SendSignal \/ Dispatch \/ OnInt80
    \/ \E f \in Funcs : Inject(f)
    \/ \E ok \in BOOLEAN : FuncRuns(ok)
    \/ FuncTraces \/ FuncExits \/ InjectEvent \/ SysReturn

InjectSpec == InjectInit /\ [][InjectNext]_jvars

-----------------------------------------------------------------------------
\* The handler thread, and the context of the stub's thread that it reads and
\* sets, have their types.
InjectTypeOK ==
    /\ k \in {"loop", "serve", "inject", "ended"}
    /\ regs.eip \in {"stub", "prog", "frame", "func", "traced", "break"}
    /\ k = "loop" => regs.eip \in {"prog", "frame"}
    /\ ev \in {"none", "int80", "trap", "string", "break", "exit"}
    /\ {segGs, frame, wanted, regs.gs} \subseteq Gs

\* Whatever functions the kernel ran in the stub, the stub's own context is
\* back while it is set up, and the program runs on with nothing left on its
\* stack.
StackKept ==
    /\ setup /\ k = "serve" => regs = AtStub
    /\ regs.eip = "prog" => regs.esp = 0

\* The program finds GS as it set it, through system calls, traps and signals,
\* unless a signal was dispatched after a load of GS that no exception showed
\* to the kernel.
GsKept == regs.eip = "prog" /\ again = "none" => regs.gs = wanted \/ lossy

\* InjectFunctionCall returns what the function returned, although debug
\* strings stop the stub too.
ReturnsOfCall == k = "serve" /\ func # "none" => dwRet = value

\* GetLastError of the stub gives the error of the call before it.
ErrorOfCall ==
    k = "serve" /\ func = "GetLastError" => dwRet = error

\* A program goes on with its own context, whatever the kernel ran in its stub.
ContextKept == StackKept /\ GsKept

\* An injected call gives the kernel its own result and its own error.
CallResults == ReturnsOfCall /\ ErrorOfCall
=============================================================================
