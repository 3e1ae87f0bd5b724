------------------------------ MODULE PidAlloc ------------------------------
(***************************************************************************)
(* The search for a free pid in Process::StartFork, taken apart: the       *)
(* handler threads of several processes run it at once on the shared       *)
(* g_pKernelTable->m_LastPID and m_Processes, and nothing locks them.      *)
(*                                                                         *)
(*     while(++m_LastPID) {                            load, store         *)
(*        if(++cnt > 10000) { delete NewP; return NULL; }   count          *)
(*        if(m_LastPID > 0xFFFF) m_LastPID = 2;             wrap           *)
(*        if(FindProcess(m_LastPID) == NULL) break;         test           *)
(*     }                                                                   *)
(*     NewP->m_Pid = m_LastPID;                             take           *)
(*     m_Processes.push_back(NewP);                         push           *)
(*                                                                         *)
(* m_LastPID is read anew at each of these places.  ++ on it is a load and *)
(* a store: nothing makes it atomic.                                       *)
(***************************************************************************)
EXTENDS Naturals

CONSTANTS
    Forker,    \* the handler threads that fork
    Slot,      \* Process objects for the new processes
    OldPids,   \* the pids of the processes that are there from the start
    FirstLast, \* m_LastPID once init has forked: only then can forks overlap
    MaxPid,    \* 0xFFFF in the code
    MaxTries,  \* 10000 in the code
    Drift,     \* bound: how far above MaxPid values are told apart
    NoSlot

ASSUME PidConstants ==
    /\ MaxPid \in Nat /\ MaxPid > 2 /\ MaxTries \in Nat \ {0}
    /\ Drift \in Nat \ {0}
    /\ OldPids \subseteq 1..MaxPid /\ 1 \in OldPids
    /\ FirstLast \in 2..MaxPid
    /\ NoSlot \notin Slot

VARIABLES
    lastPid,   \* m_LastPID
    pidOf,     \* the pid under which each new process is in the table, 0: none
    pc,        \* where each forker is
    newP,      \* the Process object it is filling
    newPid,    \* NewP->m_Pid
    reg,       \* what it loaded for ++
    cnt,
    overlapped \* history: two searches were going on at once, since the last
               \* time there was none

vars == <<lastPid, pidOf, pc, newP, newPid, reg, cnt, overlapped>>

Init ==
    /\ lastPid = FirstLast
    /\ pidOf = [s \in Slot |-> 0]
    /\ pc = [f \in Forker |-> "idle"]
    /\ newP = [f \in Forker |-> NoSlot]
    /\ newPid = [f \in Forker |-> 0]
    /\ reg = [f \in Forker |-> 0]
    /\ cnt = [f \in Forker |-> 0]
    /\ overlapped = FALSE

\* FindProcess(k) == NULL
NotFound(k) == k \notin OldPids /\ \A s \in Slot : pidOf[s] # k

Goto(f, place) == pc' = [pc EXCEPT ![f] = place]

\* Mutant of New: cnt is not reset.
NewStaleCount(f, s) ==
    /\ pc[f] = "idle"
    /\ pidOf[s] = 0 /\ \A g \in Forker : newP[g] # s
    /\ newP' = [newP EXCEPT ![f] = s]
    /\ Goto(f, "load")
    /\ overlapped' = \E g \in Forker : pc[g] # "idle"
    /\ UNCHANGED <<lastPid, pidOf, newPid, reg, cnt>>

\* new Process(); int cnt = 0
New(f, s) ==
    /\ pc[f] = "idle"
    /\ pidOf[s] = 0 /\ \A g \in Forker : newP[g] # s
    /\ newP' = [newP EXCEPT ![f] = s]
    /\ cnt' = [cnt EXCEPT ![f] = 0]
    /\ Goto(f, "load")
    /\ overlapped' = \E g \in Forker : pc[g] # "idle"
    /\ UNCHANGED <<lastPid, pidOf, newPid, reg>>

Load(f) ==
    /\ pc[f] = "load"
    /\ reg' = [reg EXCEPT ![f] = lastPid]
    /\ Goto(f, "store")
    /\ UNCHANGED <<lastPid, pidOf, newP, newPid, cnt, overlapped>>

\* A value loaded before another forker's wrap is stored after it, so that
\* m_LastPID drifts above MaxPid; the model stops counting at Drift.
Store(f) ==
    /\ pc[f] = "store"
    /\ lastPid' = IF reg[f] < MaxPid + Drift THEN reg[f] + 1 ELSE reg[f]
    /\ reg' = [reg EXCEPT ![f] = 0]
    /\ Goto(f, "count")
    /\ UNCHANGED <<pidOf, newP, newPid, cnt, overlapped>>

\* Give up with NULL after MaxTries attempts.
Count(f) ==
    /\ pc[f] = "count"
    /\ cnt' = [cnt EXCEPT ![f] = @ + 1]
    /\ \/ /\ cnt[f] + 1 > MaxTries
          /\ newP' = [newP EXCEPT ![f] = NoSlot]
          /\ Goto(f, "idle")
       \/ /\ cnt[f] + 1 <= MaxTries
          /\ Goto(f, "wrap")
          /\ UNCHANGED newP
    /\ UNCHANGED <<lastPid, pidOf, newPid, reg, overlapped>>

\* Mutant of Wrap: to the first pid there is.
WrapToOne(f) ==
    /\ pc[f] = "wrap"
    /\ lastPid' = IF lastPid > MaxPid THEN 1 ELSE lastPid
    /\ Goto(f, "test")
    /\ UNCHANGED <<pidOf, newP, newPid, reg, cnt, overlapped>>

Wrap(f) ==
    /\ pc[f] = "wrap"
    /\ lastPid' = IF lastPid > MaxPid THEN 2 ELSE lastPid
    /\ Goto(f, "test")
    /\ UNCHANGED <<pidOf, newP, newPid, reg, cnt, overlapped>>

\* Mutant of Test: FindProcess is not asked.
TestNothing(f) ==
    /\ pc[f] = "test"
    /\ Goto(f, "take")
    /\ UNCHANGED <<lastPid, pidOf, newP, newPid, reg, cnt, overlapped>>

Test(f) ==
    /\ pc[f] = "test"
    /\ Goto(f, IF NotFound(lastPid) THEN "take" ELSE "load")
    /\ UNCHANGED <<lastPid, pidOf, newP, newPid, reg, cnt, overlapped>>

Take(f) ==
    /\ pc[f] = "take"
    /\ newPid' = [newPid EXCEPT ![f] = lastPid]
    /\ Goto(f, "push")
    /\ UNCHANGED <<lastPid, pidOf, newP, reg, cnt, overlapped>>

Push(f) ==
    /\ pc[f] = "push"
    /\ pidOf' = [pidOf EXCEPT ![newP[f]] = newPid[f]]
    /\ newP' = [newP EXCEPT ![f] = NoSlot]
    /\ newPid' = [newPid EXCEPT ![f] = 0]
    /\ cnt' = [cnt EXCEPT ![f] = 0]
    /\ Goto(f, "idle")
    /\ UNCHANGED <<lastPid, reg, overlapped>>

\* A new process has exited and its parent's wait4 has erased it.
Reap(s) ==
    /\ pidOf[s] # 0
    /\ pidOf' = [pidOf EXCEPT ![s] = 0]
    /\ UNCHANGED <<lastPid, pc, newP, newPid, reg, cnt, overlapped>>

Search(f) ==
    \/ Load(f) \/ Store(f) \/ Count(f) \/ Wrap(f)
    \/ Test(f) \/ Take(f) \/ Push(f)

Next ==
    \/ \E f \in Forker : Search(f) \/ \E s \in Slot : New(f, s)
    \/ \E s \in Slot : Reap(s)

\* The handler threads are scheduled; nobody is obliged to fork or to exit.
Spec == Init /\ [][Next]_vars

-----------------------------------------------------------------------------
\* m_LastPID, the pids taken and the counters of attempts stay in range, also
\* where m_LastPID drifts above MaxPid.
TypeOK ==
    /\ lastPid \in 0..(MaxPid + Drift)
    /\ pidOf \in [Slot -> 0..(MaxPid + Drift)]
    /\ pc \in [Forker -> {"idle", "load", "store", "count", "wrap", "test",
                          "take", "push"}]
    /\ newP \in [Forker -> Slot \union {NoSlot}]
    /\ newPid \in [Forker -> 0..(MaxPid + Drift)]
    /\ reg \in [Forker -> 0..(MaxPid + Drift)]
    /\ cnt \in [Forker -> 0..(MaxTries + 1)]
    /\ overlapped \in BOOLEAN

\* "MUST skip '1' which is only ever for init": however the forkers race for
\* m_LastPID, and however often it wraps, none of them gets 0 or 1.
SkipsOne == \A f \in Forker : pc[f] = "push" => newPid[f] > 1

\* "The pid is allocated as next available pid": no two processes in the
\* table have the same pid.
PidsDiffer ==
    \A s \in Slot :
        pidOf[s] # 0 => /\ pidOf[s] \notin OldPids
                        /\ \A t \in Slot \ {s} : pidOf[t] # pidOf[s]

\* A search that no other search overlapped is, from outside, the single step
\* of PidSpec: the pid it pushes is free at that moment, whatever the races
\* before it did to m_LastPID.
Abstract == INSTANCE PidSpec WITH pidOf <- pidOf, Slot <- Slot,
                                  OldPids <- OldPids, MaxPid <- MaxPid
AllocatesFreePid == [][~overlapped => Abstract!Next]_pidOf
=============================================================================
