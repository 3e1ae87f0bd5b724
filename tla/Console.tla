------------------------------ MODULE Console ------------------------------
(***************************************************************************)
(* The console: keys go from the console program through a pipe to the     *)
(* kernel's handler thread (DevConsole::ConsoleHandlerMain), which cooks   *)
(* them, echoes them, sends SIGINT and passes them on to the processes;    *)
(* output goes the other way; ioctl requests have pipes of their own.      *)
(*                                                                         *)
(* Characters are codes.  All pipes hold a few characters, and writers     *)
(* wait while they are full.  Text that is shown is only counted.  Key     *)
(* releases send nothing and are no steps; the terminal's own escape       *)
(* sequences are in Cons25.                                                *)
(***************************************************************************)
EXTENDS Integers, Sequences, SequencesExt

CONSTANTS
    Client,      \* processes on this terminal; a process group each
    Keys,        \* keys, as the characters that InputChar sends for them
    Flags,       \* settings that programs choose with TCSETS
    Cap,         \* bound: characters in a pipe
    ReqCap,      \* bound: requests in the ioctl pipe
    MaxKeys      \* bound: keys typed

CTRLC == 3
NL == 10
CR == 13
Stale == 0       \* whatever an earlier read left in the buffer

\* A key sends one character or "ESC [ X": only its last one can be a CR or an
\* NL, stripped to six bits or not.  No program sets IGNCR and ICRNL together:
\* the loop would insert after a CR that it has just discarded, and where that
\* was all there is, the index of its shift, a DWORD, would wrap around.
ASSUME ConsoleConstants ==
    /\ Cap \in Nat /\ ReqCap \in Nat /\ MaxKeys \in Nat
    /\ \A k \in Keys : /\ k \in Seq(Nat) /\ Len(k) \in 1..3
                       /\ \A i \in 1..(Len(k) - 1) : k[i] % 64 \notin {NL, CR}
    /\ \A flags \in Flags : ~({"IGNCR", "ICRNL"} \subseteq flags)

VARIABLES
    typed,       \* keys typed so far
    keys,        \* input records of the console window
    cons,        \* the console program: where its loop is
    fromCons,    \* the pipe to m_hRealConsoleRead
    thread,      \* the handler thread: where it is, its buffer and its echo
    input,       \* the pipe that processes read
    output,      \* characters in the pipe to the console program
    termios,     \* m_TermIOs
    group,       \* m_ProcessGroup
    lock,        \* who holds m_csIoctl
    client,      \* what each process does
    req,         \* the pipe m_hIoctlWrite
    reply,       \* answers in the pipe m_hIoctlRead
    failed,      \* history: the console program could not answer
    intr,        \* history: a Ctrl-C was "typed" and, with ISIG, "seen"
    due,         \* history: what processes are to read, key by key
    passed       \* history: what was passed on to them

cvars == <<typed, keys, cons, fromCons, thread, input, output, termios, group,
           lock, client, req, reply, failed, intr, due, passed>>

kernelVars == <<lock, client, req, reply, failed, termios, group>>
keyVars == <<typed, keys, fromCons, intr>>
threadVars == <<thread, input, due, passed>>

ConsoleInit ==
    /\ typed = 0 /\ keys = <<>> /\ cons = "input" /\ fromCons = <<>>
    /\ thread = [pc |-> "read", buf |-> <<>>, echo |-> 0]
    /\ input = <<>> /\ output = 0
    /\ termios = {"ECHO"} /\ group = 0
    /\ lock = {} /\ client = [c \in Client |-> "run"]
    /\ req = <<>> /\ reply = 0
    /\ failed = FALSE /\ intr = "no" /\ due = <<>> /\ passed = <<>>

-----------------------------------------------------------------------------
(* The console program                                                     *)

Type(k) ==
    /\ typed < MaxKeys
    /\ typed' = typed + 1
    /\ keys' = Append(keys, k)
    /\ intr' = IF k = <<CTRLC>> /\ "ISIG" \in termios THEN "typed" ELSE intr
    /\ UNCHANGED <<cons, fromCons, output, kernelVars, threadVars>>

\* InputChar: one input record is translated and written, "kernel needs it
\* NOW".
InputChar ==
    /\ cons = "input"
    /\ IF keys = <<>> THEN cons' = "text" /\ UNCHANGED <<keys, fromCons>>
       ELSE /\ fromCons' = fromCons \o keys[1]
            /\ keys' = Tail(keys)
            /\ cons' = "flush"
    /\ UNCHANGED <<typed, intr, output, kernelVars, threadVars>>

\* FlushFileBuffers returns when the other side has read everything.
InputFlushed ==
    /\ cons = "flush" /\ fromCons = <<>>
    /\ cons' = "text"
    /\ UNCHANGED <<keyVars, output, kernelVars, threadVars>>

\* Mutant of ShowText: text that was shown ends the round.
ShowTextOnly ==
    /\ cons = "text"
    /\ output' = 0
    /\ cons' = IF output = 0 THEN "ioctl" ELSE "input"
    /\ UNCHANGED <<keyVars, kernelVars, threadVars>>

\* "see if the kernel has sent any data": all of it is shown.
ShowText ==
    /\ cons = "text"
    /\ output' = 0
    /\ cons' = "ioctl"
    /\ UNCHANGED <<keyVars, kernelVars, threadVars>>

\* ProcessIoctlRequest, at most one in a round of the loop.
ProcessIoctlRequest ==
    /\ cons = "ioctl"
    /\ IF req = <<>>
       THEN cons' = "input" /\ UNCHANGED <<req, keys, reply, failed, intr>>
       ELSE /\ req' = Tail(req)
            /\ cons' = IF req[1] = "TIOCSWINSZ" THEN "rec" ELSE "input"
            /\ keys' = IF req[1] \in {"TCSETSW", "TCSETSF"} THEN <<>> ELSE keys
            /\ intr' = IF intr = "typed" /\ keys' # keys THEN "no" ELSE intr
            /\ IF req[1] # "TIOCGWINSZ" THEN UNCHANGED <<reply, failed>>
               ELSE \/ reply' = reply + 1 /\ UNCHANGED failed
                    \/ failed' = TRUE /\ UNCHANGED reply
    /\ UNCHANGED <<typed, fromCons, output, termios, group, lock, client,
                   threadVars>>

\* The rest of TIOCSWINSZ: the size comes in a write of its own.
ReadWindowSize ==
    /\ cons = "rec" /\ req # <<>>
    /\ req' = Tail(req)
    /\ cons' = "input"
    /\ UNCHANGED <<keyVars, output, termios, group, lock, client, reply, failed,
                   threadVars>>

-----------------------------------------------------------------------------
(* The kernel's handler thread                                             *)

\* "insert char": the buffer is shifted up before it is made longer, so its
\* last character is lost, and an old one is seen after it.
Insert(buf, i, c) ==
    IF i = Len(buf) THEN Append(buf, c)
    ELSE SubSeq(buf, 1, i) \o <<c>> \o SubSeq(buf, i + 1, Len(buf) - 1) \o <<Stale>>

\* What ISTRIP and IUCLC make of a character.
Strip(c) == IF "ISTRIP" \in termios THEN c % 64 ELSE c
Lower(c) == IF "IUCLC" \in termios /\ c \in 65..90 THEN c + 32 ELSE c

\* "discard from buffer"
Discard(buf, i) ==
    IF "IGNCR" \in termios /\ buf[i] = CR THEN RemoveAt(buf, i) ELSE buf

\* What is inserted after a character.
Doubled(p) ==
    CASE "INLCR" \in termios /\ p = NL -> <<CR>>
      [] "ICRNL" \in termios /\ p = CR -> <<NL>>
      [] OTHER -> <<>>

\* The buffer after an insertion.  A CR that was discarded at its end is
\* counted again.
Inserted(buf, i, p) ==
    CASE Doubled(p) = <<>> -> buf
      [] Doubled(p) # <<>> /\ i > Len(buf) -> Append(buf, p)
      [] OTHER -> Insert(buf, i, Doubled(p)[1])

Interrupts(p) == "ISIG" \in termios /\ p = CTRLC

\* One turn of the loop, for the character at i + 1: the buffer and the index
\* it leaves.  After a discard, p points to the next character.
CookOne(t) ==
    LET at == t.i + 1
        strip == [t.buf EXCEPT ![at] = Strip(@)]
        buf == Discard(strip, at)
        p == IF at <= Len(buf) THEN buf[at] ELSE strip[at]
        new == Inserted(buf, at, p)
        sig == Interrupts(p) /\ \E c \in Client : c = group
    IN  [buf |-> IF at <= Len(buf) THEN [new EXCEPT ![at] = Lower(@)] ELSE new,
         i |-> at + Len(Doubled(p)),
         echo |-> t.echo + (IF "ECHO" \in termios /\ ~sig THEN 1 ELSE 0),
         intr |-> t.intr \/ Interrupts(p)]

Cook(chars) ==
    LET upto[n \in 0..Len(chars)] ==
            IF n = 0 THEN [buf |-> chars, i |-> 0, echo |-> 0, intr |-> FALSE]
            ELSE LET t == upto[n - 1]
                 IN  IF t.i >= Len(t.buf) THEN t ELSE CookOne(t)
    IN  upto[Len(chars)]

\* What a character stands for under the settings: "allow for chars to be
\* doubled up (eg CR -> CR+NL)".
MeaningOf(c) ==
    CASE "IGNCR" \in termios /\ Strip(c) = CR -> <<>>
      [] "INLCR" \in termios /\ Strip(c) = NL -> <<NL, CR>>
      [] "ICRNL" \in termios /\ Strip(c) = CR /\ "IGNCR" \notin termios -> <<CR, NL>>
      [] OTHER -> <<Lower(Strip(c))>>

Meaning(chars) == FlattenSeq([i \in DOMAIN chars |-> MeaningOf(chars[i])])

\* ReadFile, and the loop over what it returned.  The settings are read once.
ThreadRead ==
    /\ thread.pc = "read" /\ fromCons # <<>>
    /\ fromCons' = <<>>
    /\ LET t == Cook(fromCons)
       IN  /\ thread' = [pc |-> "echo", buf |-> t.buf, echo |-> t.echo]
           /\ intr' = IF t.intr THEN "seen" ELSE intr
    /\ due' = due \o Meaning(fromCons)
    /\ UNCHANGED <<typed, keys, cons, output, input, passed, kernelVars>>

\* Characters are echoed one by one.
ThreadEcho ==
    /\ thread.pc = "echo"
    /\ IF thread.echo = 0
       THEN thread' = [thread EXCEPT !.pc = "store"] /\ UNCHANGED output
       ELSE /\ output < Cap
            /\ output' = output + 1
            /\ thread' = [thread EXCEPT !.echo = @ - 1]
    /\ UNCHANGED <<keyVars, cons, input, due, passed, kernelVars>>

\* "make data available to processes"
ThreadStore ==
    /\ thread.pc = "store"
    /\ Len(input) < Cap
    /\ input' = input \o thread.buf
    /\ passed' = passed \o thread.buf
    /\ thread' = [pc |-> "read", buf |-> <<>>, echo |-> 0]
    /\ UNCHANGED <<keyVars, cons, output, due, kernelVars>>

-----------------------------------------------------------------------------
(* Processes                                                               *)

ProcessRead ==
    /\ input # <<>>
    /\ input' = <<>>
    /\ UNCHANGED <<keyVars, cons, thread, output, due, passed, kernelVars>>

ProcessWrite ==
    /\ output < Cap
    /\ output' = output + 1
    /\ UNCHANGED <<keyVars, cons, threadVars, kernelVars>>

\* Mutant of Enter: the critical section is not entered.
EnterAnyway(c) == client[c] = "run"

\* EnterCriticalSection(&m_csIoctl), "only one ioctl at a time".
Enter(c) == client[c] = "run" /\ lock = {}

\* TIOCSPGRP (TCGETS, TIOCGPGRP and TCXONC change nothing).
SetGroup(c) ==
    /\ Enter(c)
    /\ group' = c
    /\ UNCHANGED <<lock, client, req, reply, failed, termios>>
    /\ UNCHANGED <<keyVars, cons, threadVars, output>>

\* TCSETS, TCSETSW and TCSETSF: the kernel takes the settings, the console
\* program is told.
SetTermios(c, request, flags) ==
    /\ Enter(c) /\ Len(req) < ReqCap
    /\ termios' = flags
    /\ intr' = IF intr = "typed" THEN "no" ELSE intr
    /\ req' = Append(req, request)
    /\ UNCHANGED <<lock, client, reply, failed, group>>
    /\ UNCHANGED <<typed, keys, fromCons, cons, threadVars, output>>

\* TIOCGWINSZ and TIOCSWINSZ: the request, and then ...
WindowSize(c, request) ==
    /\ Enter(c) /\ Len(req) < ReqCap
    /\ lock' = {c}
    /\ req' = Append(req, request)
    /\ client' = [client EXCEPT ![c] = request]
    /\ UNCHANGED <<reply, failed, termios, group>>
    /\ UNCHANGED <<keyVars, cons, threadVars, output>>

\* ... the answer is read, or the new size is sent.
WindowSizeEnd(c) ==
    /\ \/ /\ client[c] = "TIOCGWINSZ" /\ reply > 0
          /\ reply' = reply - 1 /\ UNCHANGED req
       \/ /\ client[c] = "TIOCSWINSZ" /\ Len(req) < ReqCap
          /\ req' = Append(req, "rec") /\ UNCHANGED reply
    /\ client' = [client EXCEPT ![c] = "run"]
    /\ lock' = {}
    /\ UNCHANGED <<failed, termios, group>>
    /\ UNCHANGED <<keyVars, cons, threadVars, output>>

Loop == InputChar \/ InputFlushed \/ ShowText \/ ProcessIoctlRequest
            \/ ReadWindowSize
Handler == ThreadRead \/ ThreadEcho \/ ThreadStore

ConsoleNext ==
    \/ \E k \in Keys : Type(k)
    \/ Loop \/ Handler
    \/ ProcessRead \/ ProcessWrite
    \/ \E c \in Client :
          \/ SetGroup(c)
          \/ \E request \in {"TCSETS", "TCSETSF"}, flags \in Flags :
                SetTermios(c, request, flags)
          \/ \E request \in {"TIOCGWINSZ", "TIOCSWINSZ"} : WindowSize(c, request)
          \/ WindowSizeEnd(c)

\* The console program, the handler thread and the kernel's threads run.
\* Nothing makes a program read its input.
ConsoleSpec ==
    /\ ConsoleInit /\ [][ConsoleNext]_cvars
    /\ WF_cvars(Loop) /\ WF_cvars(Handler)
    /\ \A c \in Client : WF_cvars(WindowSizeEnd(c))

-----------------------------------------------------------------------------
(* Properties                                                              *)

\* Where the threads are, and what is in the pipes.
ConsoleTypeOK ==
    /\ cons \in {"input", "flush", "text", "ioctl", "rec"}
    /\ thread.pc \in {"read", "echo", "store"} /\ thread.echo \in 0..3
    /\ output \in 0..Cap /\ reply \in 0..1
    /\ \A c \in Client : client[c] \in {"run", "TIOCGWINSZ", "TIOCSWINSZ"}

\* The console program reads a request where a request was written, and a
\* window size where a window size was: m_csIoctl, "because we need
\* read/write to match".
RequestsMatch ==
    /\ cons = "rec" /\ req # <<>> => req[1] = "rec"
    /\ cons = "ioctl" /\ req # <<>> => req[1] # "rec"

\* What processes read is what was typed, key by key, under the settings at
\* that time.  The handler thread's insertion spoils a buffer with more than
\* one key in it; InputChar's FlushFileBuffers sees to it that there is none.
InputKept ==
    due = passed \o thread.buf

\* What is written into a pipe between kernel and console program is read as
\* what it was.
PipesMatch == RequestsMatch /\ InputKept

\* The two ways in which the console stops: the thread waits for a program to
\* read its input, or waits to echo while the console program waits for it.
Stopped ==
    \/ thread.pc = "store" /\ Len(input) >= Cap
    \/ thread.pc = "echo" /\ output = Cap /\ cons = "flush"

\* An ioctl for the window's size returns and leaves the critical section
\* (DevConsole::ioctl), unless the console program cannot answer or the console
\* has stopped.
WindowSizeReturns == (lock # {}) ~> (lock = {} \/ failed \/ Stopped)

\* A Ctrl-C is seen by the kernel: "this is so the kernel can see and handle
\* Ctrl-C before a process is ready to read" (DevConsole::ConsoleHandlerEntry), unless
\* the console has stopped.
CtrlCSeen == (intr = "typed") ~> (intr # "typed" \/ Stopped)

\* The console goes on serving ioctls and keys.
ConsoleGoesOn == WindowSizeReturns /\ CtrlCSeen
=============================================================================
