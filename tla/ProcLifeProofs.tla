--------------------------- MODULE ProcLifeProofs ---------------------------
(***************************************************************************)
(* Proofs about the process life cycle, for any number of processes, any   *)
(* MaxPid and any number of attempts at finding a free pid.                *)
(*                                                                         *)
(* Always is the part of the inductive invariant that holds for ever;      *)
(* BeforeWrap the part that holds until m_LastPID has gone round once.     *)
(* The first half shows what a step does to the table, to the forks in     *)
(* progress and to the waits, and that Always is inductive; the second     *)
(* that BeforeWrap is, and the theorems the two give.                      *)
(***************************************************************************)
EXTENDS ProcLife, TLAPS

\* init keeps pid 1 and its place in the table; pids in the table differ.
Numbered ==
    /\ InitProc \in table
    /\ pid[InitProc] = 1
    /\ parentPid[InitProc] = 0
    /\ \A o \in Proc : pid[o] = 1 => o = InitProc
    /\ \A o \in table : pid[o] # 0
    /\ \A a, b \in table : pid[a] = pid[b] => a = b

\* An object nobody has forked into yet is as its constructor left it.
UnusedBlank ==
    \A o \in Proc :
        pid[o] = 0 => /\ handler[o] = "none"
                      /\ win32[o] = "null"
                      /\ o \notin startEvent
                      /\ o \notin forkDone
                      /\ o \in stillRunning

\* Nobody waits for init, and nobody forks it.
InitApart ==
    \A p \in Proc :
        /\ InitProc \notin waitSet[p]
        /\ handler[p] = "reap" => waitResult[p] \in Proc \ {InitProc}
        /\ InFork(p) => /\ forkChild[p] \in Proc \ {InitProc}
                        /\ pid[forkChild[p]] # 0

Always == TypeOK /\ Numbered /\ UnusedBlank /\ InitApart

\* No pid has been given out twice.
FreshPids ==
    /\ \A a, b \in Proc : pid[a] = pid[b] /\ pid[a] # 0 => a = b
    /\ \A a \in Proc : a = InitProc \/ pid[a] <= lastPid

\* A handler that has not ended belongs to a process in the table.
LiveHandlers ==
    \A o \in Proc :
        /\ handler[o] \notin {"none", "entry", "sigchld", "reparent", "ended"}
              => o \in table /\ win32[o] # "null"
        /\ handler[o] \notin {"sigchld", "reparent", "ended"}
              => o \in stillRunning

\* What the child of a fork in progress has reached.
ForkProgress ==
    \A p \in Proc :
        InFork(p) =>
            /\ forkChild[p] \in table
            /\ forkChild[p] # p
            /\ parentPid[forkChild[p]] = pid[p]
            /\ handler[p] = "fork_thread" =>
                  /\ handler[forkChild[p]] = "none"
                  /\ win32[forkChild[p]] = "null"
                  /\ forkChild[p] \notin startEvent
            /\ handler[p] = "fork_start" =>
                  IF forkChild[p] \in startEvent
                  THEN /\ handler[forkChild[p]] \notin {"none", "entry"}
                       /\ win32[forkChild[p]] = "null"
                             => handler[forkChild[p]] = "ended"
                  ELSE /\ handler[forkChild[p]] = "entry"
                       /\ win32[forkChild[p]] = "null"
            /\ handler[p] = "fork_done" =>
                  /\ handler[forkChild[p]] \notin {"none", "entry"}
                  /\ win32[forkChild[p]] # "null"

\* A process without a converted stub has its parent waiting inside fork.
ForkerWaits ==
    /\ \A c \in Proc :
          handler[c] = "entry" =>
              /\ c \in table
              /\ \E p \in Proc : handler[p] = "fork_start" /\ forkChild[p] = c
    /\ \A c \in table :
          /\ win32[c] = "null" =>
                \E p \in Proc : /\ handler[p] \in {"fork_thread", "fork_start"}
                                /\ forkChild[p] = c
          /\ win32[c] \in {"setup", "missed"} =>
                \E p \in Proc : /\ handler[p] \in {"fork_start", "fork_done"}
                                /\ forkChild[p] = c
    /\ \A c \in forkDone : win32[c] \notin {"null", "setup", "missed"}

BeforeWrap ==
    ~wrapped => /\ FreshPids
                /\ LiveHandlers
                /\ ForkProgress
                /\ ForkerWaits
                /\ WaitsOnOwnChildren
                /\ LookupsFind

IndInv == Always /\ BeforeWrap

-----------------------------------------------------------------------------
\* FindProcess returns NULL only when no process in the table has the pid,
\* and otherwise a process in the table that has it.
LEMMA FindProcessSpec ==
    ASSUME NEW k
    PROVE  \/ FindProcess(k) = NoProc /\ \A o \in table : pid[o] # k
           \/ FindProcess(k) \in table /\ pid[FindProcess(k)] = k
BY DEF FindProcess

\* The search for a pid stays within 1..MaxPid.
LEMMA NthPidRange ==
    ASSUME TypeOK, NEW i \in 1..MaxTries
    PROVE  NthPid(i) \in 1..MaxPid
<1> DEFINE base == IF lastPid > MaxPid THEN MaxPid ELSE lastPid
           n == base + i - MaxPid - 1
<1>1. base \in 0..MaxPid /\ i \in Nat /\ i > 0
  BY PidAssumption DEF TypeOK
<1>2. NthPid(i) = IF base + i <= MaxPid THEN base + i
                                        ELSE 2 + (n % (MaxPid - 1))
  BY DEF NthPid
<1> HIDE DEF base
<1>3. CASE base + i <= MaxPid
  BY <1>1, <1>2, <1>3, PidAssumption
<1>4. CASE ~(base + i <= MaxPid)
  <2>1. n \in Nat
    BY <1>1, <1>4, PidAssumption
  <2>2. MaxPid - 1 \in Nat /\ MaxPid - 1 > 0
    BY PidAssumption
  <2> HIDE DEF n
  <2>3. \A d \in Nat : d > 0 => n % d \in 0..(d - 1)
    BY <2>1
  <2>4. n % (MaxPid - 1) \in 0..(MaxPid - 1 - 1)
    BY <2>2, <2>3
  <2> QED BY <1>2, <1>4, <2>4, PidAssumption
<1> QED BY <1>3, <1>4

\* The initial state, with init running alone, is an Always state.
LEMMA InitAlways == Init => Always
<1> SUFFICES ASSUME Init PROVE Always
  OBVIOUS
<1>1. TypeOK
  <2>1. wrapped \in BOOLEAN
    BY Zenon DEF Init
  <2> QED BY <2>1, ProcAssumption, PidAssumption
             DEF Init, TypeOK, Win32State, HandlerPC, FaultPlaces
<1>2. Numbered
  BY ProcAssumption DEF Init, Numbered
<1>3. UnusedBlank
  BY ProcAssumption DEF Init, UnusedBlank
<1>4. InitApart
  BY ProcAssumption DEF Init, InitApart, InFork
<1> QED BY <1>1, <1>2, <1>3, <1>4 DEF Always

\* What ConvertProcessToKeow does with the parent it looks up.
LEMMA ConvertCases ==
    ASSUME NEW p \in Proc, TypeOK, ConvertProcessToKeow(p)
    PROVE  \/ /\ \A o \in table : pid[o] # parentPid[p]
              /\ faults' = faults \union {"ConvertProcessToKeow"}
              /\ UNCHANGED <<pending, win32, forkDone>>
           \/ \E q \in table :
                 /\ pid[q] = parentPid[p]
                 /\ pending' = [pending EXCEPT ![p] = pending[q]]
                 /\ win32' = [win32 EXCEPT ![p] = "keow"]
                 /\ forkDone' = forkDone \union {p}
                 /\ UNCHANGED faults
<1> DEFINE q == FindProcess(parentPid[p])
<1>1. CASE q = NoProc
  <2>1. \A o \in table : pid[o] # parentPid[p]
    BY <1>1, FindProcessSpec, ProcAssumption DEF TypeOK
  <2> QED BY <1>1, <2>1 DEF ConvertProcessToKeow
<1>2. CASE q # NoProc
  <2>1. q \in table /\ pid[q] = parentPid[p]
    BY <1>2, FindProcessSpec
  <2>2. /\ pending' = [pending EXCEPT ![p] = pending[q]]
        /\ win32' = [win32 EXCEPT ![p] = "keow"]
        /\ forkDone' = forkDone \union {p}
        /\ UNCHANGED faults
    BY <1>2 DEF ConvertProcessToKeow
  <2> HIDE DEF q
  <2> QED BY <2>1, <2>2
<1> QED BY <1>1, <1>2

\* What the end of KernelProcessHandlerEntry does with the parent it looks up.
LEMMA SignalParentCases ==
    ASSUME NEW p \in Proc, SignalParent(p)
    PROVE  \/ /\ faults' = faults \union {"KernelProcessHandlerEntry"}
              /\ UNCHANGED sigVars
           \/ \E q \in table : SendSignal(q, "CHLD") /\ UNCHANGED faults
<1> DEFINE q == FindProcess(parentPid[p])
<1>1. CASE q = NoProc
  BY <1>1 DEF SignalParent
<1>2. CASE q # NoProc
  <2>1. q \in table
    BY <1>2, FindProcessSpec
  <2>2. SendSignal(q, "CHLD") /\ UNCHANGED faults
    BY <1>2 DEF SignalParent
  <2> HIDE DEF q
  <2> QED BY <2>1, <2>2
<1> QED BY <1>1, <1>2

\* What wait4 does with the child whose handle is signalled.
LEMMA Wait4ChildCases ==
    ASSUME NEW p \in Proc, NEW c \in Proc, TypeOK, Wait4Child(p, c)
    PROVE  \/ /\ \A o \in table : pid[o] # pid[c]
              /\ faults' = faults \union {"sys_wait4"}
              /\ UNCHANGED <<waitResult, handler>>
           \/ /\ \E q \in table : pid[q] = pid[c] /\ q \notin stillRunning
              /\ waitResult' = [waitResult EXCEPT ![p] = c]
              /\ handler' = [handler EXCEPT ![p] = "reap"]
              /\ UNCHANGED faults
<1> DEFINE q == FindProcess(pid[c])
<1>1. CASE q = NoProc
  <2>1. \A o \in table : pid[o] # pid[c]
    BY <1>1, FindProcessSpec, ProcAssumption DEF TypeOK
  <2> QED BY <1>1, <2>1 DEF Wait4Child
<1>2. CASE q # NoProc
  <2>1. q \in table /\ pid[q] = pid[c]
    BY <1>2, FindProcessSpec
  <2>2. /\ q \notin stillRunning
        /\ waitResult' = [waitResult EXCEPT ![p] = c]
        /\ handler' = [handler EXCEPT ![p] = "reap"]
        /\ UNCHANGED faults
    BY <1>2 DEF Wait4Child
  <2> HIDE DEF q
  <2> QED BY <2>1, <2>2
<1> QED BY <1>1, <1>2

\* What wait4 erases.
LEMMA Wait4ReapCases ==
    ASSUME NEW p \in Proc, TypeOK, Wait4Reap(p)
    PROVE  \/ /\ \A o \in table : pid[o] # pid[waitResult[p]]
              /\ table' = table
              /\ faults' = faults \union {"sys_wait4"}
           \/ \E q \in table : /\ pid[q] = pid[waitResult[p]]
                               /\ table' = table \ {q}
                               /\ UNCHANGED faults
<1> DEFINE q == FindProcess(pid[waitResult[p]])
<1>0. /\ table' = table \ {q}
      /\ faults' = IF q = NoProc THEN faults \union {"sys_wait4"} ELSE faults
  BY DEF Wait4Reap
<1>1. CASE q = NoProc
  <2>1. \A o \in table : pid[o] # pid[waitResult[p]]
    BY <1>1, FindProcessSpec, ProcAssumption DEF TypeOK
  <2>2. table' = table
    BY <1>0, <1>1, ProcAssumption DEF TypeOK
  <2> QED BY <1>0, <1>1, <2>1, <2>2
<1>2. CASE q # NoProc
  <2>1. q \in table /\ pid[q] = pid[waitResult[p]]
    BY <1>2, FindProcessSpec
  <2> HIDE DEF q
  <2> QED BY <1>0, <1>2, <2>1
<1> QED BY <1>1, <1>2

\* Pids of the table being distinct, the entry taken out is the child's.
LEMMA Wait4ReapsChild ==
    ASSUME NEW p \in Proc, TypeOK, Numbered, Wait4Reap(p), waitResult[p] \in table
    PROVE  table' = table \ {waitResult[p]} /\ UNCHANGED faults
<1>1. PICK q \in table : /\ pid[q] = pid[waitResult[p]]
                         /\ table' = table \ {q}
                         /\ UNCHANGED faults
  BY Wait4ReapCases
<1>2. q = waitResult[p]
  BY <1>1 DEF Numbered
<1> QED BY <1>1, <1>2

\* The typing of every variable is kept by every step.
LEMMA TypeStep == TypeOK /\ [Next]_vars => TypeOK'
<1> SUFFICES ASSUME TypeOK, [Next]_vars PROVE TypeOK'
  OBVIOUS
<1> USE ProcAssumption, PidAssumption, SigAssumption
<1>0. CASE UNCHANGED vars
  BY <1>0 DEF vars, tableVars, forkVars, waitVars, sigVars, TypeOK
<1>1. ASSUME NEW p \in Proc, Step(p) PROVE TypeOK'
  <2> USE
     DEF TypeOK, Win32State, HandlerPC, FaultPlaces, tableVars, forkVars, waitVars,
              sigVars
  <2>1. ASSUME NEW c \in Proc, StartFork(p, c) PROVE TypeOK'
    <3>1. lastPid' \in 1..MaxPid
      BY <2>1, NthPidRange DEF StartFork
    <3>2. pid' \in [Proc -> 0..MaxPid] /\ lastPid' \in 0..(MaxPid + 1)
      BY <2>1, <3>1 DEF StartFork
    <3> QED BY <2>1, <3>2 DEF StartFork
  <2>2. CASE StartForkNoPid(p)
    <3>1. NthPid(MaxTries) \in 1..MaxPid
      BY NthPidRange
    <3>2. lastPid' \in 0..(MaxPid + 1)
      BY <2>2, <3>1 DEF StartForkNoPid
    <3> QED BY <2>2, <3>2 DEF StartForkNoPid
  <2>3. CASE CreateHandlerThread(p)
    BY <2>3 DEF CreateHandlerThread, AbandonFork
  <2>4. CASE ForkChildStarted(p)
    BY <2>4 DEF ForkChildStarted, AbandonFork
  <2>5. CASE ForkReturn(p)
    BY <2>5 DEF ForkReturn
  <2>6. CASE KernelProcessHandlerEntry(p)
    BY <2>6 DEF KernelProcessHandlerEntry
  <2>7. CASE ConvertProcessToKeow(p)
    <3>1. faults' \subseteq FaultPlaces
      BY <2>7, ConvertCases, Zenon
    <3>2. /\ pending' \in [Proc -> SUBSET {"TERM", "CHLD"}]
          /\ win32' \in [Proc -> Win32State]
          /\ forkDone' \subseteq Proc
      BY <2>7, ConvertCases
    <3> QED BY <2>7, <3>1, <3>2 DEF ConvertProcessToKeow
  <2>8. CASE SysExit(p)
    BY <2>8 DEF SysExit, ExitInInjectedCall
  <2>9. ASSUME NEW q \in Proc, NEW sig \in KillSigs, SysKill(p, q, sig)
        PROVE  TypeOK'
    BY <2>9 DEF SysKill, SendSignal
  <2>10. CASE DispatchSignal(p)
    BY <2>10 DEF DispatchSignal, DroppedEvent, ExitInInjectedCall, LowestPending
  <2>11. CASE StubDies(p)
    BY <2>11 DEF StubDies
  <2>12. CASE ExitEvent(p)
    BY <2>12 DEF ExitEvent
  <2>13. CASE SignalParent(p)
    <3>1. faults' \subseteq FaultPlaces
      BY <2>13, SignalParentCases, Zenon
    <3>2. /\ pending' \in [Proc -> SUBSET {"TERM", "CHLD"}]
          /\ waitEvent' \subseteq Proc
      BY <2>13, SignalParentCases DEF SendSignal
    <3> QED BY <2>13, <3>1, <3>2 DEF SignalParent
  <2>14. CASE InheritChildren(p)
    BY <2>14 DEF InheritChildren
  <2>15. CASE HandleSignalled(p)
    BY <2>15 DEF HandleSignalled
  <2>16. ASSUME NEW sel \in SUBSET Children(p), Wait4(p, sel) PROVE TypeOK'
    BY <2>16 DEF Wait4, Children
  <2>17. CASE Wait4Nothing(p)
    BY <2>17 DEF Wait4Nothing, LeaveWait4
  <2>18. ASSUME NEW c \in Proc, Wait4Child(p, c) PROVE TypeOK'
    <3>1. faults' \subseteq FaultPlaces
      BY <2>18, Wait4ChildCases, Zenon
    <3>2. /\ waitResult' \in [Proc -> Proc \union {NoProc}]
          /\ handler' \in [Proc -> HandlerPC]
      BY <2>18, Wait4ChildCases
    <3> QED BY <2>18, <3>1, <3>2 DEF Wait4Child
  <2>19. CASE Wait4Interrupted(p)
    BY <2>19 DEF Wait4Interrupted, LeaveWait4
  <2>20. CASE Wait4Reap(p)
    <3>1. faults' \subseteq FaultPlaces /\ table' \subseteq Proc
      <4>1. \/ table' = table /\ faults' = faults \union {"sys_wait4"}
            \/ table' \subseteq table /\ faults' = faults
        BY <2>20, Wait4ReapCases
      <4> QED BY <4>1
    <3> QED BY <2>20, <3>1 DEF Wait4Reap, LeaveWait4
  <2> QED
    BY <1>1, <2>1, <2>2, <2>3, <2>4, <2>5, <2>6, <2>7, <2>8, <2>9, <2>10,
       <2>11, <2>12, <2>13, <2>14, <2>15, <2>16, <2>17, <2>18, <2>19, <2>20
       DEF Step
<1> QED BY <1>0, <1>1 DEF Next

\* Always is inductive.
LEMMA AlwaysStep == Always /\ [Next]_vars => Always'
<1> SUFFICES ASSUME Always, [Next]_vars
             PROVE  Numbered' /\ UnusedBlank' /\ InitApart'
  BY TypeStep DEF Always
<1>t. TypeOK /\ TypeOK'
  BY TypeStep DEF Always
<1> USE ProcAssumption, PidAssumption DEF InFork
<1>0. CASE UNCHANGED vars
  BY <1>0 DEF vars, tableVars, forkVars, waitVars, sigVars, Always, Numbered,
              UnusedBlank, InitApart
<1>1. ASSUME NEW p \in Proc, Step(p)
      PROVE  Numbered' /\ UnusedBlank' /\ InitApart'
  <2>n. Numbered /\ UnusedBlank /\ InitApart
    BY DEF Always
  <2> USE <1>t, <2>n
          DEF TypeOK, Numbered, UnusedBlank, InitApart, tableVars, forkVars,
              waitVars, sigVars
  <2>1. ASSUME NEW c \in Proc, StartFork(p, c)
        PROVE  Numbered' /\ UnusedBlank' /\ InitApart'
    <3>1. PICK i \in 1..MaxTries : IsFree(NthPid(i)) /\ lastPid' = NthPid(i)
      BY <2>1 DEF StartFork
    <3>2. lastPid' \in 1..MaxPid /\ \A o \in table : pid[o] # lastPid'
      BY <3>1, NthPidRange DEF IsFree
    <3>3. lastPid' # 0 /\ lastPid' # 1
      BY <3>2
    <3>p. /\ pid'[c] = lastPid' /\ \A o \in Proc : o # c => pid'[o] = pid[o]
          /\ parentPid'[InitProc] = parentPid[InitProc]
          /\ table' = table \union {c} /\ c # InitProc
      BY <2>1 DEF StartFork
    <3>4. Numbered'
      <4> HIDE <1>t, <2>n DEF TypeOK
      <4>1. table \subseteq Proc /\ InitProc \in table
        BY <1>t, <2>n DEF TypeOK
      <4>2. \A a, b \in table' : pid'[a] = pid'[b] => a = b
        BY <2>n, <3>2, <3>p, <4>1
      <4> QED BY <2>n, <3>3, <3>p, <4>1, <4>2
    <3>5. UnusedBlank'
      BY <2>1, <3>3 DEF StartFork, Trapped
    <3>6. InitApart'
      BY <2>1, <3>3 DEF StartFork
    <3> QED BY <3>4, <3>5, <3>6
  <2>2. CASE StartForkNoPid(p)
    BY <2>2 DEF StartForkNoPid
  <2>3. CASE CreateHandlerThread(p)
    BY <2>3 DEF CreateHandlerThread, AbandonFork
  <2>4. CASE ForkChildStarted(p)
    BY <2>4 DEF ForkChildStarted, AbandonFork
  <2>5. CASE ForkReturn(p)
    BY <2>5 DEF ForkReturn
  <2>6. CASE KernelProcessHandlerEntry(p)
    BY <2>6 DEF KernelProcessHandlerEntry
  <2>7. CASE ConvertProcessToKeow(p)
    BY <2>7, ConvertCases DEF ConvertProcessToKeow
  <2>8. CASE SysExit(p)
    BY <2>8 DEF SysExit, ExitInInjectedCall, Trapped
  <2>9. ASSUME NEW q \in Proc, NEW sig \in KillSigs, SysKill(p, q, sig)
        PROVE  Numbered' /\ UnusedBlank' /\ InitApart'
    BY <2>9 DEF SysKill, SendSignal
  <2>10. CASE DispatchSignal(p)
    BY <2>10 DEF DispatchSignal, DroppedEvent, ExitInInjectedCall
  <2>11. CASE StubDies(p)
    BY <2>11 DEF StubDies
  <2>12. CASE ExitEvent(p)
    BY <2>12 DEF ExitEvent
  <2>13. CASE SignalParent(p)
    BY <2>13 DEF SignalParent
  <2>14. CASE InheritChildren(p)
    BY <2>14 DEF InheritChildren
  <2>15. CASE HandleSignalled(p)
    BY <2>15 DEF HandleSignalled
  <2>16. ASSUME NEW sel \in SUBSET Children(p), Wait4(p, sel)
         PROVE  Numbered' /\ UnusedBlank' /\ InitApart'
    BY <2>16 DEF Wait4, Children, Trapped
  <2>17. CASE Wait4Nothing(p)
    BY <2>17 DEF Wait4Nothing, LeaveWait4, Trapped
  <2>18. ASSUME NEW c \in Proc, Wait4Child(p, c)
         PROVE  Numbered' /\ UnusedBlank' /\ InitApart'
    <3>1. /\ UNCHANGED <<table, pid, parentPid, lastPid, wrapped, stillRunning,
                         win32, startEvent, forkDone, forkChild>>
          /\ handler[p] = "wait4"
      BY <2>18 DEF Wait4Child
    <3>2. handler' = handler \/ handler' = [handler EXCEPT ![p] = "reap"]
      BY <2>18, Wait4ChildCases
    <3>3. \A o \in Proc : handler'[o] = "none" <=> handler[o] = "none"
      BY <3>1, <3>2
    <3>4. Numbered'
      BY <3>1
    <3>5. UnusedBlank'
      BY <3>1, <3>3
    <3>6. InitApart'
      <4>1. waitSet' = waitSet /\ c \in Proc \ {InitProc}
        BY <2>18 DEF Wait4Child
      <4>2. ASSUME NEW q \in Proc
            PROVE  /\ handler'[q] = "reap" => waitResult'[q] \in Proc \ {InitProc}
                   /\ InFork(q)' => InFork(q)
        <5>1. CASE handler' = handler /\ waitResult' = waitResult
          BY <5>1
        <5>2. CASE /\ handler' = [handler EXCEPT ![p] = "reap"]
                   /\ waitResult' = [waitResult EXCEPT ![p] = c]
          BY <4>1, <5>2
        <5> QED BY <2>18, <5>1, <5>2, Wait4ChildCases
      <4> QED BY <3>1, <4>1, <4>2
    <3> QED BY <3>4, <3>5, <3>6
  <2>19. CASE Wait4Interrupted(p)
    BY <2>19 DEF Wait4Interrupted, LeaveWait4
  <2>20. CASE Wait4Reap(p)
    <3>1. waitResult[p] \in Proc \ {InitProc} /\ handler[p] = "reap"
      BY <2>20 DEF Wait4Reap
    <3>2. InitProc \in table' /\ table' \subseteq table
      BY <2>20, <3>1, Wait4ReapCases
    <3>3. Numbered' /\ UnusedBlank'
      BY <2>20, <3>1, <3>2 DEF Wait4Reap, LeaveWait4
    <3>4. InitApart'
      BY <2>20, <3>1 DEF Wait4Reap, LeaveWait4
    <3> QED BY <3>3, <3>4
  <2> QED
    BY <1>1, <2>1, <2>2, <2>3, <2>4, <2>5, <2>6, <2>7, <2>8, <2>9, <2>10,
       <2>11, <2>12, <2>13, <2>14, <2>15, <2>16, <2>17, <2>18, <2>19, <2>20
       DEF Step
<1> QED BY <1>0, <1>1 DEF Next

\* The wrap of m_LastPID is never forgotten.
LEMMA WrappedStays == TypeOK /\ [Next]_vars /\ ~wrapped' => ~wrapped
<1> SUFFICES ASSUME [Next]_vars PROVE wrapped => wrapped'
  OBVIOUS
<1> USE DEF tableVars, vars
<1>1. ASSUME NEW p \in Proc, Step(p) PROVE wrapped => wrapped'
  BY <1>1, Zenon DEF Step, StartFork, StartForkNoPid, CreateHandlerThread,
     ForkChildStarted, ForkReturn, KernelProcessHandlerEntry,
     ConvertProcessToKeow, SysExit, SysKill, DispatchSignal, StubDies,
     ExitEvent, SignalParent, InheritChildren, HandleSignalled, Wait4,
     Wait4Nothing, Wait4Child, Wait4Interrupted, Wait4Reap
<1> QED BY <1>1 DEF Next

Active == {"loop", "wait4", "reap"}

Over == {"sigchld", "reparent", "ended"}

InSetup == {"setup", "missed"}

\* A step that starts, advances and ends no fork: handlers move among the
\* places outside fork and never back from their end, stubs are neither
\* created nor put back into setup, and the table loses only processes whose
\* handler is over.
Calm ==
    /\ UNCHANGED <<pid, lastPid, startEvent, forkChild>>
    /\ table' \subseteq table
    /\ stillRunning' \subseteq stillRunning
    /\ forkDone' \subseteq Proc
    /\ \A q \in Proc :
          /\ \/ handler'[q] = handler[q]
             \/ handler[q] \in Active /\ handler'[q] \in Active \union Over
             \/ handler[q] \in Over \ {"ended"} /\ handler'[q] \in Over
          /\ win32'[q] = "null" <=> win32[q] = "null"
          /\ win32'[q] \in InSetup => win32[q] \in InSetup
          /\ q \in forkDone' \ forkDone => win32'[q] \notin InSetup \union {"null"}
          /\ q \in stillRunning \ stillRunning' => handler'[q] \in Over
          /\ q \in table \ table' => handler[q] \in Over
          /\ InFork(q) => /\ forkChild[q] \in table'
                          /\ parentPid'[forkChild[q]] = parentPid[forkChild[q]]

\* The children some wait4 has collected stay as they are, and no wait4
\* starts or advances.
CalmWaits ==
    /\ UNCHANGED <<pid, wrapped>>
    /\ stillRunning' \subseteq stillRunning
    /\ \A q \in Proc :
          handler'[q] \in {"wait4", "reap"} =>
              /\ handler'[q] = handler[q]
              /\ waitSet'[q] = waitSet[q]
              /\ waitResult'[q] = waitResult[q]
              /\ \A c \in waitSet[q] : /\ c \in table'
                                       /\ parentPid'[c] = parentPid[c]
                                       /\ win32'[c] # "null"

\* What a forker has reached with its child.
ForkAt(p) ==
    /\ forkChild[p] \in table
    /\ forkChild[p] # p
    /\ parentPid[forkChild[p]] = pid[p]
    /\ handler[p] = "fork_thread" =>
          /\ handler[forkChild[p]] = "none"
          /\ win32[forkChild[p]] = "null"
          /\ forkChild[p] \notin startEvent
    /\ handler[p] = "fork_start" =>
          IF forkChild[p] \in startEvent
          THEN /\ handler[forkChild[p]] \notin {"none", "entry"}
               /\ win32[forkChild[p]] = "null"
                     => handler[forkChild[p]] = "ended"
          ELSE /\ handler[forkChild[p]] = "entry"
               /\ win32[forkChild[p]] = "null"
    /\ handler[p] = "fork_done" =>
          /\ handler[forkChild[p]] \notin {"none", "entry"}
          /\ win32[forkChild[p]] # "null"

LEMMA ForkProgressAt == ForkProgress <=> \A p \in Proc : InFork(p) => ForkAt(p)
BY DEF ForkProgress, ForkAt

LEMMA ForkProgressNext ==
    ASSUME \A p \in Proc : InFork(p)' => ForkAt(p)'
    PROVE  ForkProgress'
BY DEF ForkProgress, ForkAt, InFork

\* Calm steps keep the parts of BeforeWrap that are about pids and forks.
LEMMA CalmKeeps ==
    ASSUME TypeOK, InitApart, Calm, FreshPids, LiveHandlers, ForkProgress,
           ForkerWaits
    PROVE  FreshPids' /\ LiveHandlers' /\ ForkProgress' /\ ForkerWaits'
<1>f. \A q \in Proc : InFork(q)' <=> InFork(q)
  BY DEF Calm, InFork, Active, Over
<1>g. \A q \in Proc : InFork(q) => handler'[q] = handler[q]
  BY DEF Calm, InFork, Active, Over
<1>1. FreshPids'
  BY DEF Calm, FreshPids
<1>2. LiveHandlers'
  BY DEF Calm, LiveHandlers, Active, Over
<1>3. ForkProgress'
  <2>1. ASSUME NEW p \in Proc, InFork(p)' PROVE ForkAt(p)'
    <3>1. InFork(p) /\ handler'[p] = handler[p] /\ ForkAt(p)
      BY <1>f, <1>g, <2>1, ForkProgressAt
    <3>2. PICK c \in Proc : c = forkChild[p]
      BY <3>1 DEF InitApart
    <3>3. c \in table' /\ parentPid'[c] = parentPid[c]
      BY <3>1, <3>2 DEF Calm
    <3>4. pid' = pid /\ startEvent' = startEvent /\ forkChild'[p] = c
      BY <3>2 DEF Calm
    <3>5. /\ handler[c] \in {"none", "entry"} => handler'[c] = handler[c]
          /\ handler[c] \notin {"none", "entry"} => handler'[c] \notin {"none", "entry"}
          /\ handler[c] = "ended" => handler'[c] = "ended"
          /\ win32'[c] = "null" <=> win32[c] = "null"
      BY DEF Calm, Active, Over
    <3> QED BY <3>1, <3>2, <3>3, <3>4, <3>5 DEF ForkAt
  <2> QED BY <2>1, ForkProgressNext
<1>4. ForkerWaits'
  <2>1. \A c \in Proc : handler'[c] = "entry" => handler[c] = "entry" /\ c \in table'
    BY DEF Calm, ForkerWaits, Active, Over
  <2>2. ASSUME NEW c \in Proc, handler'[c] = "entry"
        PROVE  \E p \in Proc : handler'[p] = "fork_start" /\ forkChild'[p] = c
    BY <1>g, <2>1, <2>2 DEF ForkerWaits, Calm, InFork
  <2>3. ASSUME NEW c \in table', win32'[c] = "null"
        PROVE  \E p \in Proc : /\ handler'[p] \in {"fork_thread", "fork_start"}
                               /\ forkChild'[p] = c
    <3>1. c \in table /\ win32[c] = "null"
      BY <2>3 DEF Calm, TypeOK
    <3> QED BY <1>g, <3>1 DEF ForkerWaits, Calm, InFork
  <2>4. ASSUME NEW c \in table', win32'[c] \in InSetup
        PROVE  \E p \in Proc : /\ handler'[p] \in {"fork_start", "fork_done"}
                               /\ forkChild'[p] = c
    <3>1. c \in table /\ win32[c] \in InSetup
      BY <2>4 DEF Calm, TypeOK
    <3>2. PICK p \in Proc : handler[p] \in {"fork_start", "fork_done"} /\ forkChild[p] = c
      BY <3>1 DEF ForkerWaits, InSetup
    <3>3. handler'[p] = handler[p] /\ forkChild'[p] = forkChild[p]
      BY <1>g, <3>2 DEF Calm, InFork
    <3> QED BY <3>2, <3>3
  <2>5. ASSUME NEW c \in forkDone', c \in Proc
        PROVE  win32'[c] \notin {"null", "setup", "missed"}
    BY <2>5 DEF Calm, ForkerWaits, InSetup
  <2>6. forkDone' \subseteq Proc => ForkerWaits'
    BY <2>1, <2>2, <2>3, <2>4, <2>5 DEF ForkerWaits, InSetup
  <2> QED BY <2>6 DEF Calm
<1> QED BY <1>1, <1>2, <1>3, <1>4

\* They keep what a wait4 in progress relies on.
LEMMA CalmKeepsWaits ==
    ASSUME CalmWaits, WaitsOnOwnChildren
    PROVE  WaitsOnOwnChildren'
BY DEF CalmWaits, WaitsOnOwnChildren, InWait

\* A step of the forker p, inside StartFork, with its child c.
Moves(p, c) ==
    /\ UNCHANGED <<pid, parentPid, win32, startEvent, forkDone>>
    /\ \A q \in Proc \ {p, c} : handler'[q] = handler[q]
    /\ \A q \in Proc \ {p} : forkChild'[q] = forkChild[q]
    /\ handler'[p] \notin {"none", "entry"}
    /\ table' \subseteq table /\ table \ {c} \subseteq table'

\* The other forkers are where they were, also one whose child p is.
LEMMA OthersFork ==
    ASSUME NEW p \in Proc, NEW c \in Proc, Moves(p, c), table \subseteq Proc,
           handler[p] \notin {"none", "entry", "ended"}, win32[p] # "null",
           NEW q \in Proc \ {p}, ForkAt(q), forkChild[q] # c,
           handler'[q] = handler[q]
    PROVE  ForkAt(q)'
<1> DEFINE d == forkChild[q]
<1>1. d \in table /\ d # c /\ d \in Proc
  BY DEF ForkAt
<1>2. forkChild'[q] = d /\ d \in table' /\ d # q
  BY <1>1 DEF Moves, ForkAt
<1>3. /\ parentPid'[d] = parentPid[d] /\ pid'[q] = pid[q] /\ win32'[d] = win32[d]
      /\ startEvent' = startEvent
  BY DEF Moves
<1>4. \/ handler'[d] = handler[d]
      \/ /\ handler[d] \notin {"none", "entry", "ended"} /\ win32[d] # "null"
         /\ handler'[d] \notin {"none", "entry"}
  <2>1. CASE d = p
    BY <2>1, Zenon DEF Moves
  <2>2. CASE d # p
    BY <1>1, <2>2 DEF Moves
  <2> QED BY <2>1, <2>2
<1> HIDE DEF d
<1>5. d = forkChild[q]
  BY DEF d
<1> QED BY <1>2, <1>3, <1>4, <1>5 DEF ForkAt

\* Processes other than c that need their parent have it after the step.
StillWaited(c) ==
    /\ \A d \in Proc \ {c} : handler'[d] = "entry" =>
          /\ d \in table'
          /\ \E q \in Proc : handler'[q] = "fork_start" /\ forkChild'[q] = d
    /\ \A d \in table' \ {c} : win32'[d] = "null" =>
          \E q \in Proc : /\ handler'[q] \in {"fork_thread", "fork_start"}
                          /\ forkChild'[q] = d
    /\ \A d \in table' \ {c} : win32'[d] \in {"setup", "missed"} =>
          \E q \in Proc : /\ handler'[q] \in {"fork_start", "fork_done"}
                          /\ forkChild'[q] = d
    /\ \A d \in forkDone' : win32'[d] \notin {"null", "setup", "missed"}

\* They keep it when p moves.
LEMMA OthersWaited ==
    ASSUME NEW p \in Proc, NEW c \in Proc, Moves(p, c), table \subseteq Proc,
           forkChild[p] = c, InFork(c) => handler'[c] = handler[c], ForkerWaits
    PROVE  StillWaited(c)
<1>1. \A d \in Proc \ {c}, q \in Proc :
         InFork(q) /\ forkChild[q] = d
            => handler'[q] = handler[q] /\ forkChild'[q] = d
  BY DEF Moves
<1>2. /\ table' \subseteq table /\ table \ {c} \subseteq table'
      /\ win32' = win32 /\ forkDone' = forkDone
  BY DEF Moves
<1>3. ASSUME NEW d \in Proc \ {c}, handler'[d] = "entry"
      PROVE  /\ d \in table'
             /\ \E q \in Proc : handler'[q] = "fork_start" /\ forkChild'[q] = d
  <2>1. handler[d] = "entry"
    BY <1>3 DEF Moves
  <2>2. d \in table
    BY <2>1 DEF ForkerWaits
  <2>3. PICK q \in Proc : handler[q] = "fork_start" /\ forkChild[q] = d
    BY <2>1 DEF ForkerWaits
  <2>4. handler'[q] = "fork_start" /\ forkChild'[q] = d
    BY <1>1, <2>3 DEF InFork
  <2> QED BY <1>2, <2>2, <2>4
<1>4. ASSUME NEW d \in table' \ {c}, win32'[d] = "null"
      PROVE  \E q \in Proc : /\ handler'[q] \in {"fork_thread", "fork_start"}
                             /\ forkChild'[q] = d
  <2>1. d \in table /\ d \in Proc \ {c} /\ win32[d] = "null"
    BY <1>2, <1>4
  <2>2. PICK q \in Proc : handler[q] \in {"fork_thread", "fork_start"} /\ forkChild[q] = d
    BY <2>1 DEF ForkerWaits
  <2>3. handler'[q] = handler[q] /\ forkChild'[q] = d
    BY <1>1, <2>1, <2>2 DEF InFork
  <2> QED BY <2>2, <2>3
<1>5. ASSUME NEW d \in table' \ {c}, win32'[d] \in {"setup", "missed"}
      PROVE  \E q \in Proc : /\ handler'[q] \in {"fork_start", "fork_done"}
                             /\ forkChild'[q] = d
  <2>1. d \in table /\ d \in Proc \ {c} /\ win32[d] \in {"setup", "missed"}
    BY <1>2, <1>5
  <2>2. PICK q \in Proc : handler[q] \in {"fork_start", "fork_done"} /\ forkChild[q] = d
    BY <2>1 DEF ForkerWaits
  <2>3. handler'[q] = handler[q] /\ forkChild'[q] = d
    BY <1>1, <2>1, <2>2 DEF InFork
  <2> QED BY <2>2, <2>3
<1>6. \A d \in forkDone' : win32'[d] \notin {"null", "setup", "missed"}
  BY <1>2 DEF ForkerWaits
<1> QED BY <1>3, <1>4, <1>5, <1>6 DEF StillWaited

-----------------------------------------------------------------------------

\* Until pids come round, BeforeWrap is inductive.
LEMMA BeforeWrapStep == IndInv /\ [Next]_vars => BeforeWrap'
<1> DEFINE Parts == /\ FreshPids /\ LiveHandlers /\ ForkProgress
                    /\ ForkerWaits /\ WaitsOnOwnChildren /\ LookupsFind
<1>s. SUFFICES ASSUME IndInv, [Next]_vars, ~wrapped' PROVE Parts'
  BY DEF BeforeWrap
<1>t. TypeOK
  BY <1>s DEF IndInv, Always
<1>n. Numbered /\ UnusedBlank /\ InitApart
  BY <1>s DEF IndInv, Always
<1>w. ~wrapped
  BY <1>s, <1>t, WrappedStays
<1>p. Parts
  BY <1>s, <1>w DEF IndInv, BeforeWrap
<1>p1. FreshPids BY <1>p
<1>p2. LiveHandlers BY <1>p
<1>p3. ForkProgress BY <1>p
<1>p4. ForkerWaits BY <1>p
<1>p5. WaitsOnOwnChildren BY <1>p
<1>p6. LookupsFind BY <1>p
<1>f. \A a, b \in Proc : handler[a] # "none" /\ pid[a] = pid[b] => a = b
  BY <1>t, <1>n, <1>p1 DEF TypeOK, FreshPids, UnusedBlank
<1>g. \A a, b \in Proc :
         InFork(a) /\ InFork(b) /\ forkChild[a] = forkChild[b] => a = b
  BY <1>t, <1>f, <1>p3 DEF TypeOK, ForkProgress, InFork
<1> HIDE DEF Parts
<1>0. CASE UNCHANGED vars
  <2> USE <1>0 DEF vars, tableVars, forkVars, waitVars, sigVars
  <2>1. FreshPids' /\ LookupsFind'
    BY <1>p1, <1>p6 DEF FreshPids, LookupsFind
  <2>2. LiveHandlers'
    BY <1>p2 DEF LiveHandlers
  <2>3. ForkProgress'
    BY <1>p3 DEF ForkProgress, InFork
  <2>4. ForkerWaits'
    BY <1>p4 DEF ForkerWaits
  <2>5. WaitsOnOwnChildren'
    BY <1>p5, Zenon DEF WaitsOnOwnChildren, InWait
  <2> QED BY <2>1, <2>2, <2>3, <2>4, <2>5 DEF Parts
<1>1. ASSUME NEW p \in Proc, Step(p) PROVE Parts'
  <2> USE DEF tableVars, forkVars, waitVars, sigVars
  <2>k. /\ handler \in [Proc -> HandlerPC] /\ win32 \in [Proc -> Win32State]
        /\ parentPid \in [Proc -> 0..MaxPid]
        /\ table \subseteq Proc /\ stillRunning \subseteq Proc
        /\ forkDone \subseteq Proc
        /\ waitSet \in [Proc -> SUBSET Proc]
        /\ waitResult \in [Proc -> Proc \union {NoProc}]
        /\ \A q \in Proc : InFork(q) => forkChild[q] \in table
        /\ \A q \in Proc : InWait(q) => \A c \in waitSet[q] :
                                           c \in table /\ win32[c] # "null"
    BY <1>t, <1>w, <1>p3, <1>p5 DEF TypeOK, ForkProgress, WaitsOnOwnChildren
  <2>d. Calm /\ WaitsOnOwnChildren' /\ LookupsFind' => Parts'
    BY <1>t, <1>n, <1>p1, <1>p2, <1>p3, <1>p4, CalmKeeps DEF Parts
  <2>c. Calm /\ CalmWaits /\ LookupsFind' => Parts'
    BY <1>p5, <2>d, CalmKeepsWaits
  <2>1. ASSUME NEW c \in Proc, StartFork(p, c) PROVE Parts'
    <3>a. PICK i \in 1..MaxTries : IsFree(NthPid(i)) /\ lastPid' = NthPid(i)
      BY <2>1 DEF StartFork
    <3>b. lastPid' \in 1..MaxPid /\ \A o \in table : pid[o] # lastPid'
      BY <1>t, <3>a, NthPidRange DEF IsFree
    <3>c. lastPid' > lastPid
      <4>1. ~(lastPid' <= lastPid)
        BY <1>s, <2>1, Zenon DEF StartFork
      <4> QED BY <1>t, <3>b, <4>1, PidAssumption DEF TypeOK
    <3>d. lastPid' > 1 /\ \A o \in Proc : pid[o] < lastPid'
      <4>1. lastPid' > 1
        BY <1>t, <1>n, <3>b, <3>c, ProcAssumption, PidAssumption
           DEF TypeOK, Numbered
      <4> QED BY <1>t, <1>n, <1>p1, <3>b, <3>c, <4>1, ProcAssumption,
                 PidAssumption DEF TypeOK, FreshPids, Numbered
    <3>e. /\ handler[c] = "none" /\ win32[c] = "null" /\ c \in stillRunning
          /\ c \notin table /\ c \notin startEvent /\ c \notin forkDone
          /\ c # p
          /\ \A q \in Proc : InFork(q) => forkChild[q] # c
      <4>1. pid[c] = 0 /\ handler[p] = "loop"
        BY <2>1 DEF StartFork, Trapped
      <4>2. c \notin table /\ \A q \in Proc : InFork(q) => forkChild[q] # c
        BY <1>n, <4>1 DEF Numbered, InitApart
      <4> QED BY <1>n, <4>1, <4>2 DEF UnusedBlank
    <3>1. FreshPids'
      <4>1. pid' = [pid EXCEPT ![c] = lastPid']
        BY <2>1 DEF StartFork
      <4>2. PICK n \in Nat : lastPid' = n
        BY <3>b
      <4>3. pid'[c] = n /\ \A o \in Proc \ {c} : pid'[o] = pid[o]
        BY <1>t, <4>1, <4>2 DEF TypeOK
      <4>4. \A o \in Proc : pid[o] \in Nat /\ pid[o] < n
        BY <1>t, <3>d, <4>2, PidAssumption DEF TypeOK
      <4> QED BY <1>p1, <4>2, <4>3, <4>4 DEF FreshPids
    <3>2. LiveHandlers'
      BY <2>1, <1>t, <1>p2, <3>e DEF StartFork, Trapped, TypeOK, LiveHandlers
    <3>f. /\ \A q \in Proc : q # p => handler'[q] = handler[q]
                                         /\ forkChild'[q] = forkChild[q]
          /\ handler'[p] = "fork_thread" /\ forkChild'[p] = c
      BY <1>t, <2>1 DEF StartFork, TypeOK
    <3>g. /\ table' = table \union {c} /\ UNCHANGED <<win32, forkDone>>
          /\ UNCHANGED <<waitSet, waitResult, stillRunning>>
          /\ handler[p] = "loop" /\ table \subseteq Proc
      BY <1>t, <2>1 DEF StartFork, Trapped, TypeOK
    <3>h. /\ pid'[p] = pid[p] /\ parentPid'[c] = pid[p] /\ c # p
          /\ \A d \in Proc : d # c => pid'[d] = pid[d] /\ parentPid'[d] = parentPid[d]
          /\ handler'[c] = "none" /\ win32[c] = "null" /\ c \notin startEvent
          /\ startEvent' = startEvent
      BY <1>t, <2>1, <3>e, <3>f, <3>g DEF StartFork, TypeOK
    <3>3. ForkProgress'
      <4>1. ASSUME NEW q \in Proc, InFork(q)' PROVE ForkAt(q)'
        <5>1. CASE q = p
          <6>1. c \in table'
            BY <3>g
          <6> QED BY <3>f, <3>g, <3>h, <5>1, <6>1 DEF ForkAt
        <5>2. CASE q # p
          <6>1. /\ handler'[q] = handler[q] /\ forkChild'[q] = forkChild[q]
                /\ InFork(q) /\ ForkAt(q) /\ q # c
            BY <1>p3, <3>e, <3>f, <4>1, <5>2, ForkProgressAt DEF InFork
          <6>2. PICK d \in Proc : d = forkChild[q] /\ forkChild'[q] = d
            BY <3>g, <6>1 DEF ForkAt
          <6>3. d \in table /\ d # c /\ d \in table'
            BY <3>e, <3>g, <6>1, <6>2 DEF ForkAt
          <6>4. /\ parentPid'[d] = parentPid[d] /\ pid'[q] = pid[q]
                /\ win32'[d] = win32[d] /\ startEvent' = startEvent
            BY <3>g, <3>h, <6>1, <6>3
          <6>5. \/ handler'[d] = handler[d]
                \/ /\ handler[d] \notin {"none", "entry", "ended"}
                   /\ handler'[d] \notin {"none", "entry"}
                   /\ win32[d] # "null"
            BY <1>p2, <3>f, <3>g DEF LiveHandlers
          <6> QED BY <6>1, <6>2, <6>3, <6>4, <6>5 DEF ForkAt
        <5> QED BY <5>1, <5>2
      <4> QED BY <4>1, ForkProgressNext
    <3>4. ForkerWaits'
      <4>1. \A q \in Proc : InFork(q) => /\ handler'[q] = handler[q]
                                         /\ forkChild'[q] = forkChild[q]
        BY <3>f, <3>g DEF InFork
      <4>2. ASSUME NEW d \in Proc, handler'[d] = "entry"
            PROVE  /\ d \in table'
                   /\ \E q \in Proc : handler'[q] = "fork_start" /\ forkChild'[q] = d
        <5>1. handler[d] = "entry"
          BY <3>f, <4>2
        <5>2. d \in table
          BY <1>p4, <5>1 DEF ForkerWaits
        <5>3. PICK q \in Proc : handler[q] = "fork_start" /\ forkChild[q] = d
          BY <1>p4, <5>1 DEF ForkerWaits
        <5>4. handler'[q] = "fork_start" /\ forkChild'[q] = d
          BY <4>1, <5>3 DEF InFork
        <5> QED BY <3>g, <5>2, <5>4
      <4>3. ASSUME NEW d \in table', win32'[d] = "null"
            PROVE  \E q \in Proc : /\ handler'[q] \in {"fork_thread", "fork_start"}
                                   /\ forkChild'[q] = d
        <5>1. CASE d = c
          BY <3>f, <5>1
        <5>2. CASE d # c
          <6>1. d \in table /\ win32[d] = "null"
            BY <3>g, <4>3, <5>2
          <6>2. PICK q \in Proc : /\ handler[q] \in {"fork_thread", "fork_start"}
                                  /\ forkChild[q] = d
            BY <1>p4, <6>1 DEF ForkerWaits
          <6>3. handler'[q] = handler[q] /\ forkChild'[q] = d
            BY <4>1, <6>2 DEF InFork
          <6> QED BY <6>2, <6>3
        <5> QED BY <5>1, <5>2
      <4>4. ASSUME NEW d \in table', win32'[d] \in {"setup", "missed"}
            PROVE  \E q \in Proc : /\ handler'[q] \in {"fork_start", "fork_done"}
                                   /\ forkChild'[q] = d
        <5>1. d \in table /\ win32[d] \in {"setup", "missed"}
          BY <3>e, <3>g, <4>4
        <5>2. PICK q \in Proc : /\ handler[q] \in {"fork_start", "fork_done"}
                                /\ forkChild[q] = d
          BY <1>p4, <5>1 DEF ForkerWaits
        <5>3. handler'[q] = handler[q] /\ forkChild'[q] = d
          BY <4>1, <5>2 DEF InFork
        <5> QED BY <5>2, <5>3
      <4>5. \A d \in forkDone' : win32'[d] \notin {"null", "setup", "missed"}
        BY <1>p4, <3>g DEF ForkerWaits
      <4> QED BY <4>2, <4>3, <4>4, <4>5 DEF ForkerWaits
    <3>5. WaitsOnOwnChildren'
      <4>1. \A q \in Proc : InWait(q)' => InWait(q) /\ handler'[q] = handler[q] /\ q # p
        BY <3>f DEF InWait
      <4>2. \A q \in Proc : InWait(q) => q # c /\ c \notin waitSet[q]
        BY <1>w, <1>p5, <3>e DEF WaitsOnOwnChildren, InWait
      <4>3. \A d \in Proc : d # c => pid'[d] = pid[d] /\ parentPid'[d] = parentPid[d]
        BY <1>t, <2>1 DEF StartFork, TypeOK
      <4>4. \A q \in Proc : waitSet[q] \subseteq Proc
        BY <1>t DEF TypeOK
      <4>5. ASSUME NEW q \in Proc, InWait(q)', NEW d \in waitSet'[q]
            PROVE  d \in table' /\ parentPid'[d] = pid'[q] /\ win32'[d] # "null"
        <5>1. InWait(q) /\ d \in waitSet[q] /\ d \in Proc /\ d # c /\ q # c
          BY <3>g, <4>1, <4>2, <4>4, <4>5
        <5>2. d \in table /\ parentPid[d] = pid[q] /\ win32[d] # "null"
          BY <1>w, <1>p5, <5>1 DEF WaitsOnOwnChildren
        <5> QED BY <3>g, <4>3, <5>1, <5>2
      <4>6. ASSUME NEW q \in Proc, handler'[q] = "reap"
            PROVE  /\ waitResult'[q] \in waitSet'[q]
                   /\ waitResult'[q] \notin stillRunning'
        <5>1. InWait(q) /\ handler[q] = "reap"
          BY <4>1, <4>6 DEF InWait
        <5> QED BY <1>w, <1>p5, <3>g, <5>1 DEF WaitsOnOwnChildren
      <4> QED BY <4>5, <4>6 DEF WaitsOnOwnChildren
    <3>6. LookupsFind'
      BY <2>1, <1>w, <1>p6 DEF StartFork, Trapped, LookupsFind
    <3> QED BY <3>1, <3>2, <3>3, <3>4, <3>5, <3>6 DEF Parts
  <2>2. CASE StartForkNoPid(p)
    <3>1. FreshPids'
      <4>1. ~(lastPid' <= lastPid)
        BY <1>s, <2>2, Zenon DEF StartForkNoPid
      <4>2. NthPid(MaxTries) \in 1..MaxPid
        BY <1>t, NthPidRange, PidAssumption
      <4>3. PICK n \in Nat : lastPid' = n
        BY <2>2, <4>2 DEF StartForkNoPid
      <4>4. lastPid \in Nat /\ n > lastPid
        BY <1>t, <4>1, <4>3, PidAssumption DEF TypeOK
      <4>5. pid' = pid /\ \A a \in Proc : pid[a] \in Nat
        BY <1>t, <2>2 DEF StartForkNoPid, TypeOK
      <4> QED BY <1>p1, <4>3, <4>4, <4>5 DEF FreshPids
    <3>2. LiveHandlers'
      BY <2>2, <1>t, <1>p2 DEF StartForkNoPid, Trapped, TypeOK, LiveHandlers
    <3>3. ForkProgress'
      BY <2>2, <1>t, <1>p3
         DEF StartForkNoPid, Trapped, TypeOK, ForkProgress, InFork
    <3>4. ForkerWaits'
      BY <2>2, <1>t, <1>p4 DEF StartForkNoPid, Trapped, TypeOK, ForkerWaits
    <3>5. WaitsOnOwnChildren'
      BY <2>2, <1>t, <1>w, <1>p5
         DEF StartForkNoPid, Trapped, TypeOK, WaitsOnOwnChildren, InWait
    <3>6. LookupsFind'
      BY <2>2, <1>w, <1>p6, Zenon DEF StartForkNoPid, Trapped, LookupsFind
    <3> QED BY <3>1, <3>2, <3>3, <3>4, <3>5, <3>6 DEF Parts
  <2>3. CASE CreateHandlerThread(p)
    <3> DEFINE c == forkChild[p]
    <3>a. handler[p] = "fork_thread" /\ InFork(p) /\ ForkAt(p)
      BY <2>3, <1>p3, ForkProgressAt DEF CreateHandlerThread, InFork
    <3>b. /\ c \in Proc /\ c # p /\ c \in table /\ parentPid[c] = pid[p]
          /\ handler[c] = "none" /\ win32[c] = "null" /\ c \notin startEvent
      BY <1>t, <3>a DEF ForkAt, TypeOK
    <3>c. /\ table \subseteq Proc /\ p \in table /\ win32[p] # "null"
          /\ handler \in [Proc -> HandlerPC]
          /\ forkChild \in [Proc -> Proc \union {NoProc}]
      BY <1>t, <1>p2, <3>a DEF TypeOK, LiveHandlers
    <3>d. \A q \in Proc \ {p} : InFork(q) => forkChild[q] # c
      BY <1>g, <3>a, Zenon
    <3> HIDE DEF c
    <3>e. /\ UNCHANGED <<pid, parentPid, win32, startEvent, forkDone>>
          /\ \/ /\ handler' = [handler EXCEPT ![p] = "fork_start", ![c] = "entry"]
                /\ UNCHANGED <<table, forkChild>>
             \/ /\ table' = table \ {c}
                /\ forkChild' = [forkChild EXCEPT ![p] = NoProc]
                /\ handler' = [handler EXCEPT ![p] = "loop"]
      BY <2>3, Zenon DEF CreateHandlerThread, AbandonFork, c
    <3>f. \/ /\ handler'[p] = "fork_start" /\ handler'[c] = "entry"
             /\ table' = table /\ forkChild'[p] = c
          \/ handler'[p] = "loop" /\ handler'[c] = "none" /\ table' = table \ {c}
      BY <3>b, <3>c, <3>e DEF c
    <3>g. Moves(p, c)
      BY <3>b, <3>c, <3>e, <3>f DEF Moves
    <3>h. forkChild[p] = c
      BY DEF c
    <3>1. FreshPids'
      BY <2>3, <1>t, <1>p1
         DEF CreateHandlerThread, AbandonFork, TypeOK, FreshPids
    <3>2. LiveHandlers'
      <4>1. stillRunning' = stillRunning /\ win32' = win32
        BY <2>3, Zenon DEF CreateHandlerThread
      <4>2. p \in stillRunning /\ c \in stillRunning
        BY <1>p2, <3>a, <3>b, Zenon DEF LiveHandlers
      <4>3. ASSUME NEW o \in Proc
            PROVE  /\ \/ handler'[o] = handler[o]
                      \/ handler'[o] = "entry" /\ o \in stillRunning
                      \/ o = p /\ p \in table' /\ p \in stillRunning
                   /\ o # c /\ o \in table => o \in table'
        BY <3>b, <3>c, <3>f, <3>g, <4>2 DEF Moves
      <4> QED BY <1>p2, <3>b, <3>c, <3>f, <4>1, <4>3 DEF LiveHandlers
    <3>3. ForkProgress'
      <4>1. ASSUME NEW q \in Proc, InFork(q)' PROVE ForkAt(q)'
        <5>1. CASE q = p
          <6>1. /\ handler'[p] = "fork_start" /\ handler'[c] = "entry"
                /\ table' = table /\ forkChild'[p] = c
            BY <3>f, <4>1, <5>1 DEF InFork
          <6>2. /\ parentPid'[c] = pid'[p] /\ win32'[c] = "null"
                /\ c \notin startEvent'
            BY <3>b, <3>e
          <6> QED BY <3>b, <5>1, <6>1, <6>2 DEF ForkAt
        <5>2. CASE q # p
          <6>1. InFork(q) /\ handler'[q] = handler[q]
            BY <3>b, <3>f, <3>g, <4>1, <5>2 DEF Moves, InFork
          <6>2. ForkAt(q) /\ forkChild[q] # c
            BY <1>p3, <3>d, <5>2, <6>1, ForkProgressAt
          <6> QED BY <3>a, <3>b, <3>c, <3>g, <5>2, <6>1, <6>2, OthersFork
        <5> QED BY <5>1, <5>2
      <4> QED BY <4>1, ForkProgressNext
    <3>4. ForkerWaits'
      <4>1. StillWaited(c)
        <5>1. InFork(c) => handler'[c] = handler[c]
          BY <3>b, <3>f DEF InFork
        <5> QED BY <1>p4, <3>b, <3>c, <3>g, <3>h, <5>1, OthersWaited
      <4>2. handler'[c] = "entry" =>
               c \in table' /\ handler'[p] = "fork_start" /\ forkChild'[p] = c
        BY <3>b, <3>f
      <4>3. c \in table' => handler'[p] = "fork_start" /\ forkChild'[p] = c
        BY <3>f
      <4>4. win32'[c] = "null"
        BY <3>b, <3>e
      <4> QED BY <4>1, <4>2, <4>3, <4>4 DEF ForkerWaits, StillWaited
    <3>5. WaitsOnOwnChildren'
      <4>1. \A q \in Proc : InWait(q)' => InWait(q) /\ handler'[q] = handler[q]
        <5>1. \A q \in Proc \ {p, c} : handler'[q] = handler[q]
          BY <3>g DEF Moves
        <5>2. /\ handler'[p] \notin {"wait4", "reap"}
              /\ handler'[c] \notin {"wait4", "reap"}
          BY <3>b, <3>f
        <5> QED BY <5>1, <5>2 DEF InWait
      <4>2. \A q \in Proc : InWait(q) => c \notin waitSet[q]
        BY <1>w, <1>p5, <3>b DEF WaitsOnOwnChildren
      <4>3. table \ {c} \subseteq table'
        BY <3>g, Zenon DEF Moves
      <4>4. UNCHANGED <<waitSet, waitResult, stillRunning, pid, parentPid, win32>>
        BY <2>3, Zenon DEF CreateHandlerThread
      <4> QED BY <1>w, <1>p5, <4>1, <4>2, <4>3, <4>4 DEF WaitsOnOwnChildren, InWait
    <3>6. LookupsFind'
      BY <2>3, <1>w, <1>p6 DEF CreateHandlerThread, AbandonFork, LookupsFind
    <3> QED BY <3>1, <3>2, <3>3, <3>4, <3>5, <3>6 DEF Parts
  <2>4. CASE ForkChildStarted(p)
    <3> DEFINE c == forkChild[p]
    <3>a. handler[p] = "fork_start" /\ c \in startEvent /\ InFork(p) /\ ForkAt(p)
      BY <2>4, <1>p3, ForkProgressAt DEF ForkChildStarted, InFork
    <3>b. /\ c \in Proc /\ c # p /\ c \in table /\ parentPid[c] = pid[p]
          /\ handler[c] \notin {"none", "entry"}
          /\ win32[c] = "null" => handler[c] = "ended"
      BY <1>t, <3>a DEF ForkAt, TypeOK
    <3>c. /\ table \subseteq Proc /\ p \in table /\ win32[p] # "null"
          /\ handler \in [Proc -> HandlerPC]
          /\ forkChild \in [Proc -> Proc \union {NoProc}]
      BY <1>t, <1>p2, <3>a DEF TypeOK, LiveHandlers
    <3>d. \A q \in Proc \ {p} : InFork(q) => forkChild[q] # c
      BY <1>g, <3>a, Zenon
    <3> HIDE DEF c
    <3>e. /\ UNCHANGED <<pid, parentPid, win32, startEvent, forkDone, waitSet,
                         waitResult, stillRunning>>
          /\ \/ /\ win32[c] = "null"
                /\ table' = table \ {c}
                /\ forkChild' = [forkChild EXCEPT ![p] = NoProc]
                /\ handler' = [handler EXCEPT ![p] = "loop"]
             \/ /\ win32[c] # "null"
                /\ handler' = [handler EXCEPT ![p] = "fork_done"]
                /\ UNCHANGED <<table, forkChild>>
      BY <2>4 DEF ForkChildStarted, AbandonFork, c
    <3>f. /\ handler'[c] = handler[c]
          /\ \/ win32[c] = "null" /\ handler'[p] = "loop" /\ table' = table \ {c}
             \/ /\ win32[c] # "null" /\ handler'[p] = "fork_done"
                /\ table' = table /\ forkChild'[p] = c
      BY <3>b, <3>c, <3>e DEF c
    <3>g. Moves(p, c)
      BY <3>b, <3>c, <3>e, <3>f DEF Moves
    <3>h. forkChild[p] = c
      BY DEF c
    <3>1. FreshPids'
      BY <2>4, <1>t, <1>p1 DEF ForkChildStarted, AbandonFork, TypeOK, FreshPids
    <3>2. LiveHandlers'
      <4>1. p \in stillRunning
        BY <1>p2, <3>a, Zenon DEF LiveHandlers
      <4>2. ASSUME NEW o \in Proc
            PROVE  /\ o # p => handler'[o] = handler[o]
                   /\ o # c \/ win32[c] # "null" => (o \in table => o \in table')
        BY <3>b, <3>c, <3>f, <3>g, Zenon DEF Moves
      <4>3. /\ c \in table' \/ handler[c] = "ended"
            /\ p \in table' /\ stillRunning' = stillRunning /\ win32' = win32
        BY <3>b, <3>c, <3>e, <3>f
      <4> QED BY <1>p2, <3>c, <4>1, <4>2, <4>3 DEF LiveHandlers
    <3>3. ForkProgress'
      <4>1. ASSUME NEW q \in Proc, InFork(q)' PROVE ForkAt(q)'
        <5>1. CASE q = p
          <6>1. /\ handler'[p] = "fork_done" /\ handler'[c] \notin {"none", "entry"}
                /\ table' = table /\ forkChild'[p] = c /\ win32[c] # "null"
            BY <3>b, <3>f, <4>1, <5>1 DEF InFork
          <6>2. parentPid'[c] = pid'[p] /\ win32'[c] # "null"
            BY <3>b, <3>e, <6>1
          <6> QED BY <3>b, <5>1, <6>1, <6>2 DEF ForkAt
        <5>2. CASE q # p
          <6>1. InFork(q) /\ handler'[q] = handler[q]
            BY <3>b, <3>f, <3>g, <4>1, <5>2 DEF Moves, InFork
          <6>2. ForkAt(q) /\ forkChild[q] # c
            BY <1>p3, <3>d, <5>2, <6>1, ForkProgressAt
          <6> QED BY <3>a, <3>b, <3>c, <3>g, <5>2, <6>1, <6>2, OthersFork
        <5> QED BY <5>1, <5>2
      <4> QED BY <4>1, ForkProgressNext
    <3>4. ForkerWaits'
      <4>1. StillWaited(c)
        <5>1. InFork(c) => handler'[c] = handler[c]
          BY <3>b, <3>f DEF InFork
        <5> QED BY <1>p4, <3>b, <3>c, <3>g, <3>h, <5>1, OthersWaited
      <4>2. handler'[c] # "entry"
        BY <3>b, <3>f
      <4>3. c \in table' => handler'[p] = "fork_done" /\ forkChild'[p] = c
        BY <3>f
      <4>4. c \in table' => win32'[c] # "null"
        BY <3>e, <3>f
      <4> QED BY <4>1, <4>2, <4>3, <4>4 DEF ForkerWaits, StillWaited
    <3>5. WaitsOnOwnChildren'
      <4>1. \A q \in Proc : InWait(q)' => InWait(q) /\ handler'[q] = handler[q]
        <5>1. \A q \in Proc \ {p} : handler'[q] = handler[q]
          BY <3>f, <3>g DEF Moves
        <5>2. ~InWait(p)'
          BY <3>f DEF InWait
        <5> QED BY <5>1, <5>2 DEF InWait
      <4>2. \A q \in Proc : InWait(q) => c \notin waitSet[q] \/ c \in table'
        BY <1>w, <1>p5, <3>e, <3>f DEF WaitsOnOwnChildren
      <4>3. table \ {c} \subseteq table'
        BY <3>f
      <4>4. UNCHANGED <<waitSet, waitResult, stillRunning, pid, parentPid, win32>>
        BY <2>4 DEF ForkChildStarted
      <4> QED BY <1>w, <1>p5, <4>1, <4>2, <4>3, <4>4 DEF WaitsOnOwnChildren, InWait
    <3>6. LookupsFind'
      BY <2>4, <1>w, <1>p6 DEF ForkChildStarted, AbandonFork, LookupsFind
    <3> QED BY <3>1, <3>2, <3>3, <3>4, <3>5, <3>6 DEF Parts
  <2>5. CASE ForkReturn(p)
    <3>1. FreshPids'
      BY <2>5, <1>t, <1>p1 DEF ForkReturn, TypeOK, FreshPids
    <3>2. LiveHandlers'
      BY <2>5, <1>t, <1>p2 DEF ForkReturn, TypeOK, LiveHandlers
    <3> DEFINE c == forkChild[p]
    <3>a. handler[p] = "fork_done" /\ c \in forkDone /\ InFork(p) /\ ForkAt(p)
      BY <2>5, <1>p3, ForkProgressAt DEF ForkReturn, InFork
    <3>b. /\ c \in Proc /\ c # p /\ c \in table /\ handler[c] \notin {"none", "entry"}
          /\ win32[c] \notin {"null", "setup", "missed"}
      BY <1>t, <1>p4, <3>a, Zenon DEF ForkAt, TypeOK, ForkerWaits
    <3>c. /\ table \subseteq Proc /\ win32[p] # "null"
          /\ handler \in [Proc -> HandlerPC]
          /\ forkChild \in [Proc -> Proc \union {NoProc}]
      BY <1>t, <1>p2, <3>a DEF TypeOK, LiveHandlers
    <3>d. \A q \in Proc \ {p} : InFork(q) => forkChild[q] # c
      BY <1>g, <3>a, Zenon
    <3> HIDE DEF c
    <3>e. /\ UNCHANGED <<table, pid, parentPid, win32, startEvent, forkDone>>
          /\ forkChild' = [forkChild EXCEPT ![p] = NoProc]
          /\ handler' = [handler EXCEPT ![p] = "loop"]
      BY <2>5 DEF ForkReturn
    <3>f. handler'[p] = "loop" /\ handler'[c] = handler[c]
      BY <3>b, <3>c, <3>e
    <3>g. Moves(p, c)
      BY <3>b, <3>c, <3>e, <3>f DEF Moves
    <3>h. forkChild[p] = c
      BY DEF c
    <3>3. ForkProgress'
      <4>1. ASSUME NEW q \in Proc, InFork(q)' PROVE ForkAt(q)'
        <5>1. CASE q = p
          BY <3>f, <4>1, <5>1 DEF InFork
        <5>2. CASE q # p
          <6>1. InFork(q) /\ handler'[q] = handler[q]
            BY <3>b, <3>f, <3>g, <4>1, <5>2 DEF Moves, InFork
          <6>2. ForkAt(q) /\ forkChild[q] # c
            BY <1>p3, <3>d, <5>2, <6>1, ForkProgressAt
          <6> QED BY <3>a, <3>b, <3>c, <3>g, <5>2, <6>1, <6>2, OthersFork
        <5> QED BY <5>1, <5>2
      <4> QED BY <4>1, ForkProgressNext
    <3>4. ForkerWaits'
      <4>1. StillWaited(c)
        <5>1. InFork(c) => handler'[c] = handler[c]
          BY <3>b, <3>f DEF InFork
        <5> QED BY <1>p4, <3>b, <3>c, <3>g, <3>h, <5>1, OthersWaited
      <4>2. handler'[c] # "entry"
        BY <3>b, <3>f
      <4>3. win32'[c] \notin {"null", "setup", "missed"}
        BY <3>b, <3>e
      <4> QED BY <4>1, <4>2, <4>3 DEF ForkerWaits, StillWaited
    <3>5. WaitsOnOwnChildren'
      BY <2>5, <1>t, <1>w, <1>p5
         DEF ForkReturn, TypeOK, WaitsOnOwnChildren, InWait
    <3>6. LookupsFind'
      BY <2>5, <1>w, <1>p6 DEF ForkReturn, LookupsFind
    <3> QED BY <3>1, <3>2, <3>3, <3>4, <3>5, <3>6 DEF Parts
  <2>6. CASE KernelProcessHandlerEntry(p)
    <3>1. FreshPids'
      BY <2>6, <1>t, <1>p1 DEF KernelProcessHandlerEntry, TypeOK, FreshPids
    <3>a. handler[p] = "entry" /\ p \in table /\ table \subseteq Proc
      BY <2>6, <1>t, <1>p4 DEF KernelProcessHandlerEntry, TypeOK, ForkerWaits
    <3>b. PICK f \in Proc : handler[f] = "fork_start" /\ forkChild[f] = p
      BY <1>p4, <3>a DEF ForkerWaits
    <3>c. win32[p] = "null" /\ p \notin forkDone
      BY <1>p3, <1>p4, <3>a, <3>b DEF ForkProgress, InFork, ForkerWaits
    <3>d. /\ UNCHANGED <<table, pid, parentPid, forkDone, forkChild>>
          /\ startEvent' = startEvent \union {p}
          /\ \A q \in Proc : q # p => handler'[q] = handler[q] /\ win32'[q] = win32[q]
          /\ \/ handler'[p] = "loop" /\ win32'[p] = "setup"
             \/ handler'[p] = "ended" /\ win32'[p] = "null"
      BY <2>6, <1>t, <3>c DEF KernelProcessHandlerEntry, TypeOK
    <3>e. \A q \in Proc : InFork(q)' <=> InFork(q)
      BY <3>a, <3>d DEF InFork
    <3>f. \A q \in Proc : InFork(q) => handler'[q] = handler[q] /\ q # p
      BY <3>a, <3>d DEF InFork
    <3>g. stillRunning' = stillRunning
      BY <2>6 DEF KernelProcessHandlerEntry
    <3>2. LiveHandlers'
      BY <1>p2, <3>a, <3>d, <3>g DEF LiveHandlers
    <3>3. ForkProgress'
      <4>1. ASSUME NEW q \in Proc, InFork(q)' PROVE ForkAt(q)'
        <5>1. InFork(q) /\ handler'[q] = handler[q] /\ ForkAt(q)
          BY <1>p3, <3>e, <3>f, <4>1, ForkProgressAt
        <5>2. PICK d \in Proc : d = forkChild[q] /\ forkChild'[q] = d
          BY <3>a, <3>d, <5>1, Zenon DEF ForkAt
        <5>3. /\ d \in table' /\ d # q /\ parentPid'[d] = pid'[q]
          BY <3>d, <5>1, <5>2 DEF ForkAt
        <5>4. CASE d = p
          <6>1. handler[q] = "fork_start"
            BY <3>a, <5>1, <5>2, <5>4, Zenon DEF ForkAt, InFork
          <6>2. d \in startEvent' /\ handler'[d] \notin {"none", "entry"}
                /\ (win32'[d] = "null" => handler'[d] = "ended")
            BY <3>d, <5>4
          <6> QED BY <5>1, <5>2, <5>3, <6>1, <6>2 DEF ForkAt
        <5>5. CASE d # p
          <6>1. handler'[d] = handler[d] /\ win32'[d] = win32[d]
            BY <3>d, <5>5
          <6>2. d \in startEvent' <=> d \in startEvent
            BY <3>d, <5>5
          <6> QED BY <5>1, <5>2, <5>3, <6>1, <6>2 DEF ForkAt
        <5> QED BY <5>4, <5>5
      <4> QED BY <4>1, ForkProgressNext
    <3>4. ForkerWaits'
      <4>1. \A q \in Proc : InFork(q) => /\ handler'[q] = handler[q]
                                         /\ forkChild'[q] = forkChild[q]
        BY <3>d, <3>f
      <4>2. handler'[f] = "fork_start" /\ forkChild'[f] = p
        BY <3>b, <4>1, Zenon DEF InFork
      <4>3. ASSUME NEW d \in Proc, handler'[d] = "entry"
            PROVE  /\ d \in table'
                   /\ \E q \in Proc : handler'[q] = "fork_start" /\ forkChild'[q] = d
        <5>1. handler[d] = "entry"
          BY <3>d, <4>3
        <5>2. d \in table
          BY <1>p4, <5>1 DEF ForkerWaits
        <5>3. PICK q \in Proc : handler[q] = "fork_start" /\ forkChild[q] = d
          BY <1>p4, <5>1 DEF ForkerWaits
        <5>4. handler'[q] = "fork_start" /\ forkChild'[q] = d
          BY <4>1, <5>3 DEF InFork
        <5> QED BY <3>d, <5>2, <5>4
      <4>4. ASSUME NEW d \in table', d # p, win32'[d] = "null"
            PROVE  \E q \in Proc : /\ handler'[q] \in {"fork_thread", "fork_start"}
                                   /\ forkChild'[q] = d
        <5>1. d \in table /\ win32[d] = "null"
          BY <3>a, <3>d, <4>4
        <5>2. PICK q \in Proc : /\ handler[q] \in {"fork_thread", "fork_start"}
                                /\ forkChild[q] = d
          BY <1>p4, <5>1 DEF ForkerWaits
        <5>3. handler'[q] = handler[q] /\ forkChild'[q] = d
          BY <4>1, <5>2 DEF InFork
        <5> QED BY <5>2, <5>3
      <4>5. ASSUME NEW d \in table', d # p, win32'[d] \in {"setup", "missed"}
            PROVE  \E q \in Proc : /\ handler'[q] \in {"fork_start", "fork_done"}
                                   /\ forkChild'[q] = d
        <5>1. d \in table /\ win32[d] \in {"setup", "missed"}
          BY <3>a, <3>d, <4>5
        <5>2. PICK q \in Proc : /\ handler[q] \in {"fork_start", "fork_done"}
                                /\ forkChild[q] = d
          BY <1>p4, <5>1 DEF ForkerWaits
        <5>3. handler'[q] = handler[q] /\ forkChild'[q] = d
          BY <4>1, <5>2 DEF InFork
        <5> QED BY <5>2, <5>3
      <4>6. \A d \in forkDone' : win32'[d] \notin {"null", "setup", "missed"}
        <5>1. forkDone \subseteq Proc
          BY <1>t DEF TypeOK
        <5> QED BY <1>p4, <3>c, <3>d, <5>1 DEF ForkerWaits
      <4> QED BY <4>2, <4>3, <4>4, <4>5, <4>6 DEF ForkerWaits
    <3>5. WaitsOnOwnChildren'
      BY <2>6, <1>t, <1>w, <1>p5
         DEF KernelProcessHandlerEntry, TypeOK, WaitsOnOwnChildren, InWait
    <3>6. LookupsFind'
      BY <2>6, <1>w, <1>p6 DEF KernelProcessHandlerEntry, LookupsFind
    <3> QED BY <3>1, <3>2, <3>3, <3>4, <3>5, <3>6 DEF Parts
  <2>7. CASE ConvertProcessToKeow(p)
    <3>a. p \in table /\ \E q \in table : pid[q] = parentPid[p]
      <4>1. p \in table
        BY <2>7, <1>p2 DEF ConvertProcessToKeow, LiveHandlers
      <4>2. PICK q \in Proc : handler[q] \in {"fork_start", "fork_done"}
                              /\ forkChild[q] = p
        BY <2>7, <1>p4, <4>1 DEF ConvertProcessToKeow, ForkerWaits
      <4>3. q \in table /\ parentPid[p] = pid[q]
        BY <1>p2, <1>p3, <4>2, Zenon DEF LiveHandlers, ForkProgress, InFork
      <4> QED BY <4>1, <4>3
    <3>b. /\ UNCHANGED <<table, pid, parentPid, lastPid, stillRunning, startEvent,
                         handler, forkChild>>
          /\ win32[p] = "setup"
      BY <2>7 DEF ConvertProcessToKeow
    <3>c. \/ win32' = win32 /\ forkDone' = forkDone
          \/ /\ win32' = [win32 EXCEPT ![p] = "keow"]
             /\ forkDone' = forkDone \union {p}
      BY <1>t, <2>7, ConvertCases
    <3>d. /\ \A q \in Proc : q # p => win32'[q] = win32[q]
          /\ \/ win32'[p] = "setup" /\ forkDone' = forkDone
             \/ win32'[p] = "keow" /\ forkDone' = forkDone \union {p}
      BY <2>k, <3>b, <3>c, Zenon
    <3>1. Calm
      BY <2>k, <3>b, <3>d, Zenon DEF Calm, InSetup
    <3>2. CalmWaits
      BY <2>7, <2>k, ConvertCases DEF ConvertProcessToKeow, CalmWaits,
             InWait
    <3>3. LookupsFind'
      BY <2>7, <1>w, <1>p6, <1>t, <3>a, ConvertCases
         DEF ConvertProcessToKeow, LookupsFind
    <3> QED BY <3>1, <3>2, <3>3, <2>c
  <2>8. CASE SysExit(p)
    <3>1. Calm
      BY <2>8, <2>k, Zenon
         DEF SysExit, ExitInInjectedCall, Trapped, Calm, Active, Over,
             InSetup, InFork
    <3>2. CalmWaits
      BY <2>8, <2>k, Zenon DEF SysExit, ExitInInjectedCall, Trapped, CalmWaits,
             InWait
    <3>3. LookupsFind'
      BY <2>8, <1>w, <1>p6 DEF SysExit, ExitInInjectedCall, Trapped, LookupsFind
    <3> QED BY <3>1, <3>2, <3>3, <2>c
  <2>9. ASSUME NEW q \in Proc, NEW sig \in KillSigs, SysKill(p, q, sig)
        PROVE  Parts'
    <3>1. Calm
      BY <2>9, <2>k, Zenon DEF SysKill, SendSignal, Calm, Active, Over,
             InSetup, InFork
    <3>2. CalmWaits
      BY <2>9, <2>k, Zenon DEF SysKill, SendSignal, CalmWaits,
             InWait
    <3>3. LookupsFind'
      BY <2>9, <1>w, <1>p6 DEF SysKill, SendSignal, LookupsFind
    <3> QED BY <3>1, <3>2, <3>3, <2>c
  <2>10. CASE DispatchSignal(p)
    <3>a. /\ UNCHANGED <<table, pid, parentPid, lastPid, startEvent, forkDone, forkChild>>
          /\ handler[p] = "loop" /\ win32[p] # "null"
      BY <2>10, Zenon DEF DispatchSignal
    <3>b. /\ \A q \in Proc : q # p => handler'[q] = handler[q] /\ win32'[q] = win32[q]
          /\ win32'[p] \in {win32[p], "exiting", "gone"}
                \/ (win32[p] = "setup" /\ win32'[p] = "missed")
          /\ \/ handler'[p] = "loop" /\ stillRunning' = stillRunning
             \/ handler'[p] = "ended" /\ stillRunning' = stillRunning \ {p}
      <4>1. CASE DroppedEvent(p) /\ UNCHANGED <<stillRunning, handler>>
        BY <2>k, <3>a, <4>1, Zenon DEF DroppedEvent
      <4>2. CASE ExitInInjectedCall(p)
        BY <2>k, <4>2, Zenon DEF ExitInInjectedCall
      <4> QED BY <2>10, <4>1, <4>2 DEF DispatchSignal
    <3>1. Calm
      <4>1. ASSUME NEW q \in Proc
            PROVE  /\ \/ handler'[q] = handler[q]
                      \/ handler[q] \in Active /\ handler'[q] \in Active \union Over
                   /\ win32'[q] = "null" <=> win32[q] = "null"
                   /\ win32'[q] \in InSetup => win32[q] \in InSetup
                   /\ q \in stillRunning \ stillRunning' => handler'[q] \in Over
        BY <3>a, <3>b, Zenon DEF Active, Over, InSetup
      <4> QED BY <2>k, <3>a, <3>b, <4>1 DEF Calm
    <3>2. CalmWaits
      BY <2>10, <2>k, Zenon
         DEF DispatchSignal, DroppedEvent, ExitInInjectedCall, CalmWaits,
             InWait
    <3>3. LookupsFind'
      BY <2>10, <1>w, <1>p6
         DEF DispatchSignal, DroppedEvent, ExitInInjectedCall, LookupsFind
    <3> QED BY <3>1, <3>2, <3>3, <2>c
  <2>11. CASE StubDies(p)
    <3>1. Calm
      BY <2>11, <2>k, Zenon DEF StubDies, Calm, Active, Over,
             InSetup, InFork
    <3>2. CalmWaits
      BY <2>11, <2>k DEF StubDies, CalmWaits,
             InWait
    <3>3. LookupsFind'
      BY <2>11, <1>w, <1>p6 DEF StubDies, LookupsFind
    <3> QED BY <3>1, <3>2, <3>3, <2>c
  <2>12. CASE ExitEvent(p)
    <3>1. Calm
      BY <2>12, <2>k, Zenon DEF ExitEvent, Calm, Active, Over,
             InSetup, InFork
    <3>2. CalmWaits
      BY <2>12, <2>k, Zenon DEF ExitEvent, CalmWaits,
             InWait
    <3>3. LookupsFind'
      BY <2>12, <1>w, <1>p6 DEF ExitEvent, LookupsFind
    <3> QED BY <3>1, <3>2, <3>3, <2>c
  <2>13. CASE SignalParent(p)
    <3>1. Calm
      BY <2>13, <2>k, SignalParentCases, Zenon DEF SignalParent, Calm, Active, Over,
             InSetup, InFork
    <3>2. CalmWaits
      BY <2>13, <2>k, SignalParentCases, Zenon DEF SignalParent, CalmWaits,
             InWait
    <3>3. LookupsFind'
      BY <2>13, <1>w, <1>p6, <1>t, SignalParentCases
         DEF SignalParent, LookupsFind
    <3> QED BY <3>1, <3>2, <3>3, <2>c
  <2>14. CASE InheritChildren(p)
    <3>a. \A q \in Proc : InFork(q) => parentPid[forkChild[q]] # pid[p]
      <4> SUFFICES ASSUME NEW q \in Proc, InFork(q), parentPid[forkChild[q]] = pid[p]
                   PROVE  FALSE
        OBVIOUS
      <4>1. pid[q] = pid[p] /\ handler[q] # "none"
        BY <1>p3 DEF ForkProgress, InFork
      <4>2. q = p
        BY <1>f, <4>1
      <4> QED BY <2>14, <4>2 DEF InheritChildren, InFork
    <3>b. \A q \in Proc : InWait(q) => \A c \in waitSet[q] : parentPid[c] # pid[p]
      BY <2>14, <1>f, <1>w, <1>p5
         DEF InheritChildren, InWait, WaitsOnOwnChildren
    <3>1. Calm
      BY <2>14, <2>k, <3>a, Zenon DEF InheritChildren, Calm, Active, Over,
             InSetup, InFork
    <3>2. CalmWaits
      BY <2>14, <2>k, <3>b, Zenon DEF InheritChildren, CalmWaits,
             InWait
    <3>3. LookupsFind'
      BY <2>14, <1>w, <1>p6, Zenon DEF InheritChildren, LookupsFind
    <3> QED BY <3>1, <3>2, <3>3, <2>c
  <2>15. CASE HandleSignalled(p)
    <3>1. Calm
      BY <2>15, <2>k, Zenon DEF HandleSignalled, Calm, Active, Over,
             InSetup, InFork
    <3>2. CalmWaits
      BY <2>15, <2>k, Zenon DEF HandleSignalled, CalmWaits,
             InWait
    <3>3. LookupsFind'
      BY <2>15, <1>w, <1>p6 DEF HandleSignalled, LookupsFind
    <3> QED BY <3>1, <3>2, <3>3, <2>c
  <2>16. ASSUME NEW sel \in SUBSET Children(p), Wait4(p, sel) PROVE Parts'
    <3>1. Calm
      BY <2>16, <2>k, Zenon DEF Wait4, Trapped, Calm, Active, Over,
             InSetup, InFork
    <3>2. WaitsOnOwnChildren'
      <4>1. \A c \in sel : c \in table /\ parentPid[c] = pid[p]
        BY DEF Children
      <4>2. handler[p] = "loop"
        BY <2>16, Zenon DEF Wait4, Trapped
      <4>3. \A c \in sel : win32[c] # "null"
        <5>1. SUFFICES ASSUME NEW c \in sel, win32[c] = "null" PROVE FALSE
          OBVIOUS
        <5>2. PICK q \in Proc : InFork(q) /\ forkChild[q] = c
          BY <1>p4, <4>1, <5>1 DEF ForkerWaits, InFork
        <5>3. pid[q] = pid[p]
          BY <1>p3, <4>1, <5>2 DEF ForkProgress
        <5> QED BY <1>f, <4>2, <5>2, <5>3 DEF InFork
      <4>4. /\ waitSet'[p] = sel /\ UNCHANGED <<table, parentPid, pid, win32,
                                               stillRunning, wrapped>>
            /\ handler'[p] = "reap" => waitResult'[p] \in sel \ stillRunning
        BY <2>16, <2>k, Zenon DEF Wait4, tableVars
      <4>5. \A q \in Proc \ {p} : /\ handler'[q] = handler[q]
                                  /\ waitSet'[q] = waitSet[q]
                                  /\ waitResult'[q] = waitResult[q]
        BY <2>16, <2>k, Zenon DEF Wait4
      <4> QED BY <1>p5, <4>1, <4>3, <4>4, <4>5 DEF WaitsOnOwnChildren, InWait
    <3>3. LookupsFind'
      BY <2>16, <1>w, <1>p6 DEF Wait4, LookupsFind
    <3> QED BY <3>1, <3>2, <3>3, <2>d
  <2>17. CASE Wait4Nothing(p)
    <3>1. Calm
      BY <2>17, <2>k, Zenon DEF Wait4Nothing, LeaveWait4, Trapped, Calm, Active, Over,
             InSetup, InFork
    <3>2. CalmWaits
      BY <2>17, <2>k, Zenon DEF Wait4Nothing, LeaveWait4, Trapped, CalmWaits,
             InWait
    <3>3. LookupsFind'
      BY <2>17, <1>w, <1>p6, Zenon DEF Wait4Nothing, LeaveWait4, Trapped, LookupsFind
    <3> QED BY <3>1, <3>2, <3>3, <2>c
  <2>18. ASSUME NEW c \in Proc, Wait4Child(p, c) PROVE Parts'
    <3>a. handler[p] = "wait4" /\ c \in waitSet[p] /\ c \in table
      BY <2>18, <1>w, <1>p5, Zenon DEF Wait4Child, WaitsOnOwnChildren, InWait
    <3>b. /\ c \notin stillRunning
          /\ waitResult' = [waitResult EXCEPT ![p] = c]
          /\ handler' = [handler EXCEPT ![p] = "reap"]
          /\ UNCHANGED faults
      BY <1>t, <1>n, <2>18, <3>a, Wait4ChildCases DEF Numbered
    <3>1. Calm
      BY <2>18, <2>k, <3>a, <3>b, Zenon DEF Wait4Child, Calm, Active, Over,
             InSetup, InFork
    <3>2. WaitsOnOwnChildren'
      <4>1. waitResult'[p] = c /\ handler'[p] = "reap"
        BY <2>k, <3>b
      <4>2. \A q \in Proc \ {p} : /\ handler'[q] = handler[q]
                                  /\ waitResult'[q] = waitResult[q]
        BY <2>k, <3>b
      <4>3. UNCHANGED <<table, parentPid, pid, win32, stillRunning, wrapped,
                        waitSet>>
        BY <2>18, Zenon DEF Wait4Child, tableVars
      <4>4. \A q \in Proc : InWait(q) => \A o \in waitSet[q] :
                                /\ o \in table
                                /\ parentPid[o] = pid[q]
                                /\ win32[o] # "null"
        BY <1>w, <1>p5, Zenon DEF WaitsOnOwnChildren
      <4>5. \A q \in Proc : handler[q] = "reap" => /\ waitResult[q] \in waitSet[q]
                                                   /\ waitResult[q] \notin stillRunning
        BY <1>w, <1>p5 DEF WaitsOnOwnChildren, InWait
      <4>6. \A q \in Proc : InWait(q)' => InWait(q)
        BY <3>a, <4>1, <4>2 DEF InWait
      <4>7. \A q \in Proc : handler'[q] = "reap" =>
                                /\ waitResult'[q] \in waitSet[q]
                                /\ waitResult'[q] \notin stillRunning
        BY <3>a, <3>b, <4>1, <4>2, <4>5
      <4> QED BY <4>3, <4>4, <4>6, <4>7 DEF WaitsOnOwnChildren
    <3>3. LookupsFind'
      BY <2>18, <1>w, <1>p6, <3>b DEF Wait4Child, LookupsFind
    <3> QED BY <3>1, <3>2, <3>3, <2>d
  <2>19. CASE Wait4Interrupted(p)
    <3>1. Calm
      BY <2>19, <2>k, Zenon DEF Wait4Interrupted, LeaveWait4, Calm, Active, Over,
             InSetup, InFork
    <3>2. CalmWaits
      BY <2>19, <2>k, Zenon DEF Wait4Interrupted, LeaveWait4, CalmWaits,
             InWait
    <3>3. LookupsFind'
      BY <2>19, <1>w, <1>p6 DEF Wait4Interrupted, LeaveWait4, LookupsFind
    <3> QED BY <3>1, <3>2, <3>3, <2>c
  <2>20. CASE Wait4Reap(p)
    <3>a. /\ waitResult[p] \in table /\ waitResult[p] \notin stillRunning
          /\ parentPid[waitResult[p]] = pid[p]
          /\ handler[p] = "reap"
      BY <1>w, <1>p5, <2>20 DEF Wait4Reap, WaitsOnOwnChildren, InWait
    <3>b. table' = table \ {waitResult[p]} /\ UNCHANGED faults
      BY <1>t, <1>n, <2>20, <3>a, Wait4ReapsChild
    <3>c. \A q \in Proc \ {p} : parentPid[waitResult[p]] # pid[q]
      BY <1>f, <3>a
    <3>d. handler[waitResult[p]] \in Over
      BY <1>t, <1>p2, <3>a DEF TypeOK, LiveHandlers, Over
    <3>e. \A q \in Proc : InFork(q) => forkChild[q] \in table'
      <4>1. \A q \in Proc : InFork(q) => q # p
        BY <3>a, Zenon DEF InFork
      <4>2. \A q \in Proc : InFork(q) => /\ forkChild[q] \in table
                                         /\ parentPid[forkChild[q]] = pid[q]
        BY <1>p3, Zenon DEF ForkProgress
      <4> QED BY <3>b, <3>c, <4>1, <4>2
    <3>f. \A q \in Proc \ {p} : InWait(q) => waitResult[p] \notin waitSet[q]
      BY <1>w, <1>p5, <3>c, Zenon DEF WaitsOnOwnChildren
    <3>1. Calm
      BY <2>20, <2>k, <3>a, <3>b, <3>d, <3>e, Zenon
         DEF Wait4Reap, LeaveWait4, Calm, Active, Over,
             InSetup, InFork
    <3>2. CalmWaits
      BY <2>20, <2>k, <3>b, <3>f, Zenon DEF Wait4Reap, LeaveWait4, CalmWaits,
             InWait
    <3>3. LookupsFind'
      BY <2>20, <1>w, <1>p6, <3>b DEF Wait4Reap, LookupsFind
    <3> QED BY <3>1, <3>2, <3>3, <2>c
  <2> QED
    BY <1>1, <2>1, <2>2, <2>3, <2>4, <2>5, <2>6, <2>7, <2>8, <2>9, <2>10,
       <2>11, <2>12, <2>13, <2>14, <2>15, <2>16, <2>17, <2>18, <2>19, <2>20
       DEF Step
<1> QED BY <1>s, <1>0, <1>1 DEF Next

\* The inductive invariant holds in every reachable state.
LEMMA Invariance == Spec => []IndInv
<1>1. Init => IndInv
  <2> SUFFICES ASSUME Init PROVE BeforeWrap
    BY InitAlways DEF IndInv
  <2> USE ProcAssumption, PidAssumption DEF Init, InFork, InWait
  <2>1. FreshPids /\ LiveHandlers
    BY DEF FreshPids, LiveHandlers
  <2>2. ForkProgress /\ ForkerWaits
    BY Zenon DEF ForkProgress, ForkerWaits
  <2>3. WaitsOnOwnChildren /\ LookupsFind
    BY DEF WaitsOnOwnChildren, LookupsFind
  <2> QED BY <2>1, <2>2, <2>3 DEF BeforeWrap
<1>2. IndInv /\ [Next]_vars => IndInv'
  BY AlwaysStep, BeforeWrapStep DEF IndInv
<1> QED BY <1>1, <1>2, PTL DEF Spec

-----------------------------------------------------------------------------
\* Every variable keeps its type: pids and parent pids stay within 0..MaxPid,
\* m_LastPID within 0..MaxPid + 1, and every handler is where the code of
\* KernelProcessHandlerEntry, StartFork and sys_wait4 has a place for it.
THEOREM TypeCorrect == Spec => []TypeOK
BY Invariance, PTL DEF IndInv, Always

\* No two processes in the table ever share a pid and pid 1 is init's, for
\* any number of forks and of turns of m_LastPID, as long as StartFork's
\* search for a pid is not interrupted by another fork.
THEOREM PidsUnique == Spec => []UniquePids
<1>1. IndInv => UniquePids
  BY DEF IndInv, Always, Numbered, UniquePids, TypeOK
<1> QED BY <1>1, Invariance, PTL

\* Until pids come round, what wait4 has collected remains the caller's own
\* children with handles to wait on, whatever other handlers do meanwhile.
THEOREM WaitsAreSound == Spec => []WaitsOnOwnChildren
<1>1. IndInv => WaitsOnOwnChildren
  BY Zenon DEF IndInv, BeforeWrap, WaitsOnOwnChildren
<1> QED BY <1>1, Invariance, PTL

\* Until pids come round, neither the copy of the parent in
\* ConvertProcessToKeow nor wait4 dereferences a NULL Process.
THEOREM LookupsNeverNull == Spec => []LookupsFind
<1>1. IndInv => LookupsFind
  BY DEF IndInv, BeforeWrap, LookupsFind
<1> QED BY <1>1, Invariance, PTL

\* Until pids come round, a stub in setup has the process that forked it
\* standing still inside StartFork, and finds that process as its parent.
THEOREM CopySourceStands == Spec => []CopiesStoppedParent
<1>1. IndInv => CopiesStoppedParent
  <2> SUFFICES ASSUME IndInv, ~wrapped, NEW c \in table, win32[c] = "setup"
               PROVE  \E p \in table :
                         /\ forkChild[p] = c
                         /\ handler[p] \in {"fork_start", "fork_done"}
                         /\ FindProcess(parentPid[c]) = p
    BY DEF CopiesStoppedParent
  <2>1. /\ TypeOK /\ Numbered /\ LiveHandlers /\ ForkProgress /\ ForkerWaits
    BY DEF IndInv, Always, BeforeWrap
  <2>2. PICK p \in Proc : /\ forkChild[p] = c
                          /\ handler[p] \in {"fork_start", "fork_done"}
    BY <2>1 DEF ForkerWaits
  <2>3. p \in table /\ parentPid[c] = pid[p]
    BY <2>1, <2>2 DEF LiveHandlers, ForkProgress, InFork
  <2>4. FindProcess(parentPid[c]) = p
    <3>1. \/ FindProcess(pid[p]) = NoProc /\ \A o \in table : pid[o] # pid[p]
          \/ FindProcess(pid[p]) \in table /\ pid[FindProcess(pid[p])] = pid[p]
      BY FindProcessSpec
    <3> QED BY <2>1, <2>3, <3>1 DEF Numbered
  <2> QED BY <2>2, <2>3, <2>4
<1> QED BY <1>1, Invariance, PTL

\* Until pids come round, no step of any handler makes the kernel forget a
\* process that is still running.
THEOREM OnlyDeadForgotten == Spec => ForgetOnlyDead
<1> DEFINE A == ~wrapped => \A o \in table \ table' :
                               o \notin stillRunning \/ win32[o] = "null"
<1>1. IndInv /\ [Next]_vars => [A]_vars
  <2> SUFFICES ASSUME IndInv, ~wrapped, NEW p \in Proc, Step(p),
                      NEW o \in table, o \notin table'
               PROVE  o \notin stillRunning \/ win32[o] = "null"
    BY DEF Next
  <2>t. TypeOK /\ Numbered /\ LiveHandlers /\ ForkProgress /\ ForkerWaits
        /\ WaitsOnOwnChildren
    BY DEF IndInv, Always, BeforeWrap
  <2>1. CASE Wait4Reap(p)
    <3>1. waitResult[p] \in table /\ waitResult[p] \notin stillRunning
      BY <2>1, <2>t DEF Wait4Reap, WaitsOnOwnChildren, InWait
    <3>2. table' = table \ {waitResult[p]}
      BY <2>1, <2>t, <3>1, Wait4ReapsChild
    <3> QED BY <3>1, <3>2
  <2>2. CASE CreateHandlerThread(p)
    BY <2>2, <2>t DEF CreateHandlerThread, AbandonFork, ForkProgress, InFork
  <2>3. CASE ForkChildStarted(p)
    BY <2>3, Zenon DEF ForkChildStarted, AbandonFork
  <2> QED
    BY <2>1, <2>2, <2>3, Zenon
       DEF Step, StartFork, StartForkNoPid, ForkReturn,
           KernelProcessHandlerEntry, ConvertProcessToKeow, SysExit, SysKill,
           DispatchSignal, StubDies, ExitEvent, SignalParent, InheritChildren,
           HandleSignalled, Wait4, Wait4Nothing, Wait4Child, Wait4Interrupted,
           tableVars
<1> QED BY <1>1, Invariance, PTL DEF Spec, ForgetOnlyDead
=============================================================================
