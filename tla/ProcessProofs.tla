--------------------------- MODULE ProcessProofs ----------------------------
(***************************************************************************)
(* Proofs about what the kernel keeps of a process for its own calls and   *)
(* for others: the search for its pid (PidAlloc), its stops and registers  *)
(* while it is traced (Ptrace) and its ids (Ids).                          *)
(***************************************************************************)
EXTENDS PidAlloc, Ptrace, Ids, WellFoundedInduction, TLAPS

(* PidAlloc: any number of forkers and slots, any pids in use at the start, *)
(* any MaxPid and MaxTries                                                 *)

Busy(f) == pc[f] # "idle"

\* m_LastPID never comes back to 0 or 1: Wrap starts again at 2.
AboveOne ==
    /\ lastPid >= 2
    /\ \A f \in Forker : pc[f] = "store" => reg[f] >= 2

\* A search that is under way counts up to MaxTries and has a slot of its own.
OwnSlot ==
    /\ \A f \in Forker : Busy(f) => /\ cnt[f] <= MaxTries
                                    /\ newP[f] \in Slot
                                    /\ pidOf[newP[f]] = 0
    /\ \A f, g \in Forker : Busy(f) /\ Busy(g) /\ f # g => newP[f] # newP[g]

\* A pid the search may use: in range, and no process in the table has it.
Usable(k) == k <= MaxPid /\ NotFound(k)

\* A search that no other overlapped is alone, and what it found stays free.
Alone ==
    ~overlapped =>
        /\ \A f, g \in Forker : Busy(f) /\ Busy(g) => f = g
        /\ \A f \in Forker : /\ pc[f] = "test" => lastPid <= MaxPid
                             /\ pc[f] = "take" => Usable(lastPid)
                             /\ pc[f] = "push" => Usable(newPid[f])

PidInv == TypeOK /\ SkipsOne /\ AboveOne /\ OwnSlot /\ Alone

-----------------------------------------------------------------------------
\* The invariant holds when the forks begin.
LEMMA PidInitInv == Init => PidInv
<1> SUFFICES ASSUME Init PROVE PidInv
  OBVIOUS
<1>1. TypeOK
  <2>1. lastPid \in 0..(MaxPid + Drift)
    BY PidConstants DEF Init
  <2>2. 0 \in 0..(MaxPid + Drift) /\ 0 \in 0..(MaxTries + 1)
    BY PidConstants
  <2>3. QED
    BY <2>1, <2>2 DEF Init, TypeOK
<1>2. \A f \in Forker : pc[f] = "idle"
  BY DEF Init
<1>3. lastPid >= 2
  BY PidConstants DEF Init
<1>4. QED
  BY <1>1, <1>2, <1>3 DEF PidInv, SkipsOne, AboveOne, OwnSlot, Alone, Busy

\* Steps keep the types.
LEMMA TypeStep ==
    ASSUME PidInv, [Next]_vars
    PROVE  TypeOK'
<1> USE PidConstants DEF PidInv, TypeOK, Goto
<1>1. CASE UNCHANGED vars
  BY <1>1 DEF vars
<1>2. ASSUME NEW f \in Forker, NEW s \in Slot, New(f, s) PROVE TypeOK'
  BY <1>2 DEF New
<1>3. ASSUME NEW f \in Forker, Load(f) PROVE TypeOK'
  BY <1>3 DEF Load
<1>4. ASSUME NEW f \in Forker, Store(f) PROVE TypeOK'
  BY <1>4 DEF Store
<1>5. ASSUME NEW f \in Forker, Count(f) PROVE TypeOK'
  BY <1>5 DEF Count, OwnSlot, Busy
<1>6. ASSUME NEW f \in Forker, Wrap(f) PROVE TypeOK'
  BY <1>6 DEF Wrap
<1>7. ASSUME NEW f \in Forker, Test(f) PROVE TypeOK'
  BY <1>7 DEF Test
<1>8. ASSUME NEW f \in Forker, Take(f) PROVE TypeOK'
  BY <1>8 DEF Take
<1>9. ASSUME NEW f \in Forker, Push(f) PROVE TypeOK'
  <2>1. newP[f] \in Slot
    BY <1>9 DEF Push, OwnSlot, Busy
  <2>2. pidOf' \in [Slot -> 0..(MaxPid + Drift)]
    BY <1>9, <2>1 DEF Push
  <2>3. newP' \in [Forker -> Slot \union {NoSlot}]
    BY <1>9 DEF Push
  <2>4. newPid' \in [Forker -> 0..(MaxPid + Drift)]
    BY <1>9 DEF Push
  <2>5. cnt' \in [Forker -> 0..(MaxTries + 1)]
    BY <1>9 DEF Push
  <2>6. QED
    BY <1>9, <2>2, <2>3, <2>4, <2>5 DEF Push
<1>10. ASSUME NEW s \in Slot, Reap(s) PROVE TypeOK'
  BY <1>10 DEF Reap
<1>11. QED
  BY <1>1, <1>2, <1>3, <1>4, <1>5, <1>6, <1>7, <1>8, <1>9, <1>10
     DEF Next, Search

\* No forker gets 0 or 1, and m_LastPID stays above them.
LEMMA AboveStep ==
    ASSUME PidInv, [Next]_vars
    PROVE  SkipsOne' /\ AboveOne'
<1> USE PidConstants DEF PidInv, TypeOK, SkipsOne, AboveOne, Goto
<1>1. CASE UNCHANGED vars
  BY <1>1 DEF vars
<1>2. ASSUME NEW f \in Forker, NEW s \in Slot, New(f, s)
      PROVE  SkipsOne' /\ AboveOne'
  BY <1>2 DEF New
<1>3. ASSUME NEW f \in Forker, Load(f) PROVE SkipsOne' /\ AboveOne'
  BY <1>3 DEF Load
<1>4. ASSUME NEW f \in Forker, Store(f) PROVE SkipsOne' /\ AboveOne'
  BY <1>4 DEF Store
<1>5. ASSUME NEW f \in Forker, Count(f) PROVE SkipsOne' /\ AboveOne'
  BY <1>5 DEF Count
<1>6. ASSUME NEW f \in Forker, Wrap(f) PROVE SkipsOne' /\ AboveOne'
  BY <1>6 DEF Wrap
<1>7. ASSUME NEW f \in Forker, Test(f) PROVE SkipsOne' /\ AboveOne'
  BY <1>7 DEF Test
<1>8. ASSUME NEW f \in Forker, Take(f) PROVE SkipsOne' /\ AboveOne'
  BY <1>8 DEF Take
<1>9. ASSUME NEW f \in Forker, Push(f) PROVE SkipsOne' /\ AboveOne'
  BY <1>9 DEF Push
<1>10. ASSUME NEW s \in Slot, Reap(s) PROVE SkipsOne' /\ AboveOne'
  BY <1>10 DEF Reap
<1>11. QED
  BY <1>1, <1>2, <1>3, <1>4, <1>5, <1>6, <1>7, <1>8, <1>9, <1>10
     DEF Next, Search

\* Searches keep their slots to themselves, and end before they count too far.
LEMMA SlotStep ==
    ASSUME PidInv, [Next]_vars
    PROVE  OwnSlot'
<1> USE PidConstants DEF PidInv, TypeOK, OwnSlot, Busy, Goto
<1>1. CASE UNCHANGED vars
  BY <1>1 DEF vars
<1>2. ASSUME NEW f \in Forker, NEW s \in Slot, New(f, s) PROVE OwnSlot'
  BY <1>2 DEF New
<1>3. ASSUME NEW f \in Forker, Load(f) PROVE OwnSlot'
  BY <1>3 DEF Load
<1>4. ASSUME NEW f \in Forker, Store(f) PROVE OwnSlot'
  BY <1>4 DEF Store
<1>5. ASSUME NEW f \in Forker, Count(f) PROVE OwnSlot'
  BY <1>5 DEF Count
<1>6. ASSUME NEW f \in Forker, Wrap(f) PROVE OwnSlot'
  BY <1>6 DEF Wrap
<1>7. ASSUME NEW f \in Forker, Test(f) PROVE OwnSlot'
  BY <1>7 DEF Test
<1>8. ASSUME NEW f \in Forker, Take(f) PROVE OwnSlot'
  BY <1>8 DEF Take
<1>9. ASSUME NEW f \in Forker, Push(f) PROVE OwnSlot'
  BY <1>9 DEF Push
<1>10. ASSUME NEW s \in Slot, Reap(s) PROVE OwnSlot'
  BY <1>10 DEF Reap
<1>11. QED
  BY <1>1, <1>2, <1>3, <1>4, <1>5, <1>6, <1>7, <1>8, <1>9, <1>10
     DEF Next, Search

\* A search that stays alone keeps what it found.
LEMMA AloneStep ==
    ASSUME PidInv, [Next]_vars
    PROVE  Alone'
<1> USE PidConstants DEF PidInv, TypeOK, Alone, Busy, Goto
<1>1. CASE UNCHANGED vars
  BY <1>1 DEF vars, Usable, NotFound
<1>2. ASSUME NEW f \in Forker, NEW s \in Slot, New(f, s) PROVE Alone'
  BY <1>2 DEF New
<1>3. ASSUME NEW f \in Forker, Load(f) PROVE Alone'
  BY <1>3 DEF Load
<1>4. ASSUME NEW f \in Forker, Store(f) PROVE Alone'
  BY <1>4 DEF Store
<1>5. ASSUME NEW f \in Forker, Count(f) PROVE Alone'
  BY <1>5 DEF Count
<1>6. ASSUME NEW f \in Forker, Wrap(f) PROVE Alone'
  BY <1>6 DEF Wrap
<1>7. ASSUME NEW f \in Forker, Test(f) PROVE Alone'
  BY <1>7 DEF Test, Usable, NotFound
<1>8. ASSUME NEW f \in Forker, Take(f) PROVE Alone'
  BY <1>8 DEF Take, Usable, NotFound
<1>9. ASSUME NEW f \in Forker, Push(f) PROVE Alone'
  BY <1>9 DEF Push
<1>10. ASSUME NEW s \in Slot, Reap(s) PROVE Alone'
  BY <1>10 DEF Reap, Usable, NotFound, AboveOne, SkipsOne
<1>11. QED
  BY <1>1, <1>2, <1>3, <1>4, <1>5, <1>6, <1>7, <1>8, <1>9, <1>10
     DEF Next, Search

\* The invariant always holds.
THEOREM PidInvariance == Spec => []PidInv
<1>1. PidInv /\ [Next]_vars => PidInv'
  BY TypeStep, AboveStep, SlotStep, AloneStep DEF PidInv
<1>2. QED
  BY PidInitInv, <1>1, PTL DEF Spec

\* m_LastPID and what the forkers hold stay in range, however they race.
THEOREM TypeCorrect == Spec => []TypeOK
BY PidInvariance, PTL DEF PidInv

\* No forked process gets init's pid, however the forkers race for m_LastPID.
THEOREM OneIsSkipped == Spec => []SkipsOne
BY PidInvariance, PTL DEF PidInv

\* A step of the search that changes the table while no searches overlapped is
\* the allocation, or the release, of the abstract specification.
LEMMA StepImplements ==
    ASSUME PidInv, [Next]_vars, ~overlapped, pidOf' # pidOf
    PROVE  Abstract!Next
<1> USE PidConstants DEF PidInv, TypeOK
<1>1. ASSUME NEW s \in Slot, Reap(s) PROVE Abstract!Next
  BY <1>1 DEF Reap, Abstract!Next, Abstract!Release
<1>2. ASSUME NEW f \in Forker, Push(f) PROVE Abstract!Next
  <2>1. newP[f] \in Slot /\ pidOf[newP[f]] = 0
    BY <1>2 DEF Push, OwnSlot, Busy
  <2>2. newPid[f] \in 2..MaxPid /\ NotFound(newPid[f])
    BY <1>2 DEF Push, Alone, Usable, SkipsOne
  <2>3. newPid[f] \notin Abstract!TakenPids
    BY <2>2 DEF NotFound, Abstract!TakenPids
  <2>4. Abstract!Allocate(newP[f])
    BY <1>2, <2>1, <2>2, <2>3 DEF Push, Abstract!Allocate
  <2>5. QED
    BY <2>1, <2>4 DEF Abstract!Next
<1>3. \/ \E s \in Slot : Reap(s)
      \/ \E f \in Forker : Push(f)
  BY DEF Next, Search, vars, New, Load, Store, Count, Wrap, Test, Take
<1>4. QED
  BY <1>1, <1>2, <1>3

\* The search implements PidSpec wherever no two searches overlap: the pid that
\* StartFork pushes is one that nobody has.
THEOREM SearchImplements == Spec => AllocatesFreePid
<1>1. PidInv /\ [Next]_vars => [~overlapped => Abstract!Next]_pidOf
  BY StepImplements
<1>2. QED
  BY PidInvariance, <1>1, PTL DEF Spec, AllocatesFreePid

-----------------------------------------------------------------------------
(* Ptrace: any set of signals                                              *)

\* m_CurrentSignal is a signal while one is handled.
CurrentIsSignal == current \in Others \cup {0, SIGTRAP, SIGKILL}

Regs == [valid : BOOLEAN, eax : {"user", "nr", "ENOSYS", "0", "ret", "new"},
         saved : Calls \cup {"none"}]

\* The registers kept for the tracer, at each place of the handler thread: they
\* are valid from the entry of a call to its return, and those of the stop while
\* the child stops.
RegsOfPlace ==
    /\ regs \in Regs
    /\ step \in {"call", "return"} => regs.valid
    /\ step = "user" => ~regs.valid
    /\ at = "entry" => regs = [valid |-> TRUE, eax |-> "ENOSYS", saved |-> call]
    /\ at = "exit" => regs = [valid |-> TRUE, eax |-> Result, saved |-> call]
    /\ at = "exec" => regs = [valid |-> TRUE, eax |-> "0", saved |-> "execve"]
    /\ at = "call" => regs.valid
    /\ at = "debug" => ~regs.valid

\* From SIGCHLD to the resume, new_signal is what the stop is to deliver.
NewIsChosen == careful /\ step \in {"told", "asleep"} => newSignal = chosen

PtraceInv ==
    /\ PtraceTypeOK /\ CurrentIsSignal /\ RegsOfPlace
    /\ StopHolds /\ NewIsChosen

-----------------------------------------------------------------------------
\* The least of a set of numbers is one of them: the lowest pending signal is
\* pending.
LEMMA LeastNumber ==
    ASSUME NEW S \in SUBSET Nat, S # {}
    PROVE  Min(S) \in S
  <1>1. PICK x \in S : \A y \in S : ~(<<y, x>> \in OpToRel(<, Nat))
    BY NatLessThanWellFounded, WFMin
  <1>2. \A y \in S : ~(y < x)
    BY <1>1 DEF OpToRel
  <1>3. \E z \in S : \A y \in S : z <= y
    BY <1>2
  <1> QED BY <1>3 DEF Min

LEMMA PtraceInitInv == PtraceInit => PtraceInv
  <1> SUFFICES ASSUME PtraceInit PROVE PtraceInv
    OBVIOUS
  <1> USE DEF PtraceInit
  <1>1. RegsOfPlace
    BY DEF RegsOfPlace, Regs
  <1>2. PtraceTypeOK
    BY DEF PtraceTypeOK
  <1>3. CurrentIsSignal /\ StopHolds /\ NewIsChosen
    BY DEF CurrentIsSignal, StopHolds, NewIsChosen
  <1> QED BY <1>1, <1>2, <1>3 DEF PtraceInv

\* The entry of a system call.
LEMMA Int80Step ==
    ASSUME PtraceInv, NEW c \in Calls \cup {"bad"}, Int80(c)
    PROVE  PtraceInv'
  <1> USE DEF PtraceInv, Int80, childvars, tracervars
  <1>0. step = "user" /\ at = "none" /\ ~regs.valid
    BY DEF RegsOfPlace, PtraceTypeOK
  <1>1. RegsOfPlace'
    <2>1. CASE c = "bad"
      BY <1>0, <2>1 DEF RegsOfPlace, Regs
    <2>2. CASE c # "bad" /\ StopsOnCalls
      <3>1. /\ regs' = [valid |-> TRUE, eax |-> "ENOSYS", saved |-> c]
            /\ step' = "signal" /\ at' = "entry" /\ call' = c /\ c \in Calls
        BY <2>2 DEF Raise
      <3>2. regs' \in Regs
        BY <3>1 DEF Regs
      <3> QED BY <3>1, <3>2 DEF RegsOfPlace
    <2>3. CASE c # "bad" /\ ~StopsOnCalls
      <3>1. /\ regs' = [regs EXCEPT !.valid = TRUE, !.eax = "nr"]
            /\ step' = "call" /\ at' = "none"
        BY <1>0, <2>3
      <3>2. regs' \in Regs /\ regs'.valid
        BY <3>1 DEF Regs, RegsOfPlace
      <3> QED BY <3>1, <3>2 DEF RegsOfPlace
    <2> QED BY <2>1, <2>2, <2>3
  <1>2. PtraceTypeOK'
    BY DEF PtraceTypeOK, Raise, SIGTRAP, Calls
  <1>3. CurrentIsSignal' /\ StopHolds' /\ NewIsChosen'
    BY DEF CurrentIsSignal, StopHolds, NewIsChosen, Raise
  <1> QED BY <1>1, <1>2, <1>3

\* The handler of a system call.
LEMMA CallStep ==
    ASSUME PtraceInv, Call
    PROVE  PtraceInv'
  <1> USE DEF PtraceInv, Call, childvars, tracervars
  <1>0. step = "call" /\ at = "none" /\ regs.valid
    BY DEF RegsOfPlace, PtraceTypeOK
  <1>1. RegsOfPlace'
    <2>1. CASE call = "execve" /\ owned
      <3>1. /\ regs' = [valid |-> TRUE, eax |-> "0", saved |-> "execve"]
            /\ step' = "signal" /\ at' = "exec"
        BY <2>1 DEF Raise
      <3>2. regs' \in Regs
        BY <3>1 DEF Regs, Calls
      <3> QED BY <3>1, <3>2 DEF RegsOfPlace
    <2>2. CASE call = "raise"
      BY <1>0, <2>2 DEF RegsOfPlace, Raise
    <2>3. CASE call # "raise" /\ ~(call = "execve" /\ owned)
      BY <1>0, <2>3 DEF RegsOfPlace
    <2> QED BY <2>1, <2>2, <2>3
  <1>2. PtraceTypeOK'
    <2>1. CASE call = "execve" /\ owned
      BY <1>0, <2>1 DEF PtraceTypeOK, Raise, SIGTRAP
    <2>2. CASE call = "raise"
      BY <1>0, <2>2, PtraceConstants DEF PtraceTypeOK, Raise
    <2>3. CASE call # "raise" /\ ~(call = "execve" /\ owned)
      BY <1>0, <2>3 DEF PtraceTypeOK
    <2> QED BY <2>1, <2>2, <2>3
  <1>3. CurrentIsSignal' /\ StopHolds' /\ NewIsChosen'
    BY DEF CurrentIsSignal, StopHolds, NewIsChosen, Raise
  <1> QED BY <1>1, <1>2, <1>3

\* The return from a system call.
LEMMA ReturnStep ==
    ASSUME PtraceInv, Return
    PROVE  PtraceInv'
  <1> USE DEF PtraceInv, Return, childvars, tracervars
  <1>1. RegsOfPlace'
    <2>1. regs \in Regs /\ regs.valid /\ call \in Calls \cup {"none"} /\ call' = call
      BY DEF RegsOfPlace, PtraceTypeOK
    <2>2. CASE StopsOnCalls
      <3>1. regs' = [regs EXCEPT !.eax = Result, !.saved = call]
        BY <2>2 DEF ExitRegs
      <3>2. step' = "signal" /\ at' = "exit" /\ Result' = Result
        BY <2>1, <2>2 DEF Raise, Result
      <3>3. regs' = [valid |-> TRUE, eax |-> Result, saved |-> call]
        BY <2>1, <3>1 DEF Regs
      <3>4. regs' \in Regs
        BY <2>1, <3>3 DEF Regs, Result
      <3> QED BY <2>1, <3>2, <3>3, <3>4 DEF RegsOfPlace
    <2>3. CASE ~StopsOnCalls
      <3>1. regs' = [regs EXCEPT !.valid = FALSE] /\ step' = "user" /\ at' = at
        BY <2>3
      <3>2. regs' \in Regs /\ ~regs'.valid
        BY <2>1, <3>1 DEF Regs
      <3>3. at = "none"
        BY DEF PtraceTypeOK
      <3> QED BY <3>1, <3>2, <3>3 DEF RegsOfPlace
    <2> QED BY <2>2, <2>3
  <1>2. PtraceTypeOK'
    BY DEF PtraceTypeOK, Raise, SIGTRAP, Calls
  <1>3. CurrentIsSignal' /\ StopHolds' /\ NewIsChosen'
    BY DEF CurrentIsSignal, StopHolds, NewIsChosen, Raise
  <1> QED BY <1>1, <1>2, <1>3

\* A pending signal is raised.
LEMMA DebugEventStep ==
    ASSUME PtraceInv, DebugEvent
    PROVE  PtraceInv'
  <1> USE DEF PtraceInv, DebugEvent, childvars, tracervars
  <1>a. pending \in SUBSET Nat /\ 0 \notin pending /\ pending # {}
    <2>1. pending \subseteq Others \cup {SIGKILL}
      BY DEF PtraceTypeOK
    <2> QED BY <2>1, PtraceConstants DEF SIGKILL
  <1>b. Min(pending) \in pending
    BY <1>a, LeastNumber
  <1>0. PICK sig \in Others \cup {SIGKILL} : sig = Min(pending) /\ sig # 0
    BY <1>a, <1>b DEF PtraceTypeOK
  <1>1. RegsOfPlace'
    BY DEF RegsOfPlace, Raise, Result
  <1>2. PtraceTypeOK'
    BY <1>0 DEF PtraceTypeOK, Raise
  <1>3. CurrentIsSignal' /\ StopHolds' /\ NewIsChosen'
    BY <1>0 DEF CurrentIsSignal, StopHolds, NewIsChosen, Raise
  <1> QED BY <1>1, <1>2, <1>3

\* The end of HandleSignal.
LEMMA ActStep ==
    ASSUME PtraceInv, NEW sig, Act(sig), step \in {"signal", "woken"},
           UNCHANGED <<call, pending, owned, request, newSignal, user, event,
                       tracervars>>
    PROVE  PtraceInv'
  <1> USE DEF PtraceInv, Act, childvars, tracervars
  <1>0. at \in {"entry", "call", "exec", "exit", "debug"} /\ at' = "none"
    BY DEF PtraceTypeOK
  <1>1. RegsOfPlace'
    <2>1. CASE at \in {"entry", "call", "exec"}
      <3>1. regs' = regs /\ regs.valid /\ step' # "user"
        BY <2>1 DEF RegsOfPlace, GoesOn
      <3> QED BY <1>0, <3>1 DEF RegsOfPlace
    <2>2. CASE at = "exit"
      <3>1. regs' = [regs EXCEPT !.valid = FALSE] /\ step' \in {"user", "exited"}
        BY <2>2 DEF GoesOn
      <3>2. regs' \in Regs /\ ~regs'.valid
        BY <3>1 DEF Regs, RegsOfPlace
      <3> QED BY <1>0, <3>1, <3>2 DEF RegsOfPlace
    <2>3. CASE at = "debug"
      <3>1. regs' = regs /\ ~regs.valid /\ step' \in {"user", "exited"}
        BY <2>3 DEF RegsOfPlace, GoesOn
      <3> QED BY <1>0, <3>1 DEF RegsOfPlace
    <2> QED BY <1>0, <2>1, <2>2, <2>3
  <1>2. PtraceTypeOK'
    BY DEF PtraceTypeOK, GoesOn
  <1>3. CurrentIsSignal' /\ StopHolds' /\ NewIsChosen'
    BY DEF CurrentIsSignal, StopHolds, NewIsChosen, GoesOn
  <1> QED BY <1>1, <1>2, <1>3

\* HandleSignal stops a traced child.
LEMMA StopStep ==
    ASSUME PtraceInv, step = "signal", Stop,
           UNCHANGED <<call, pending, owned, request, user, tracervars>>
    PROVE  PtraceInv'
  <1> USE DEF PtraceInv, Stop, childvars, tracervars
  <1>1. RegsOfPlace'
    BY DEF RegsOfPlace, Result
  <1>2. PtraceTypeOK'
    BY DEF PtraceTypeOK, CurrentIsSignal
  <1>3. CurrentIsSignal' /\ StopHolds' /\ NewIsChosen'
    BY DEF CurrentIsSignal, StopHolds, NewIsChosen
  <1> QED BY <1>1, <1>2, <1>3

\* The handler thread goes to sleep; the tracer waits, is told, and exits;
\* another process sends a signal.  None of them moves the handler thread.
LEMMA QuietStep ==
    ASSUME PtraceInv,
           \/ Suspend \/ Wait4 \/ Wait4Ends \/ NoProcess \/ TracerExit
           \/ \E sig \in Others : Kill(sig)
    PROVE  PtraceInv'
  <1> DEFINE Flags == {event, inTable, crashed, reported, careful} \subseteq BOOLEAN
  <1>0. PtraceTypeOK /\ CurrentIsSignal /\ RegsOfPlace /\ StopHolds /\ NewIsChosen
    BY DEF PtraceInv
  <1>1. Flags
    BY <1>0 DEF PtraceTypeOK
  <1>2. CASE Suspend
    <2>1. /\ UNCHANGED <<at, call, current, pending, owned, request, newSignal, regs,
                         user, event, chosen, tracer, inTable, crashed, reported,
                         careful>>
          /\ step = "told" /\ step' = "asleep"
      BY <1>2 DEF Suspend, tracervars
    <2>2. PtraceTypeOK'
      BY <1>0, <2>1 DEF PtraceTypeOK
    <2>3. RegsOfPlace'
      BY <1>0, <2>1 DEF RegsOfPlace, Result
    <2>4. CurrentIsSignal' /\ StopHolds' /\ NewIsChosen'
      BY <1>0, <2>1 DEF CurrentIsSignal, StopHolds, NewIsChosen
    <2> QED BY <2>2, <2>3, <2>4 DEF PtraceInv
  <1>3. CASE Wait4 \/ Wait4Ends \/ NoProcess \/ TracerExit
             \/ \E sig \in Others : Kill(sig)
    <2> DEFINE Still == UNCHANGED <<step, at, call, current, owned, request, newSignal,
                                    regs, user, chosen, careful>>
               Tables == /\ pending' \subseteq Others \cup {SIGKILL}
                         /\ tracer' \in {"run", "wait", "exited"}
               Quiet == /\ Still /\ Tables /\ Flags'
                        /\ reported' => step = "asleep"
    <2>a. Wait4 => Quiet
      <3> SUFFICES ASSUME Wait4 PROVE Quiet
        OBVIOUS
      <3>1. Still /\ event' \in BOOLEAN
        BY <1>1 DEF Wait4, childvars, tracervars
      <3>2. {inTable', crashed'} \subseteq BOOLEAN
        BY <1>1 DEF Wait4, childvars, tracervars
      <3>3. reported' \in BOOLEAN
        BY <1>1 DEF Wait4, childvars, tracervars
      <3>4. Tables
        BY <1>0 DEF PtraceTypeOK, Wait4, childvars, tracervars
      <3>5. reported' => step = "asleep"
        BY <1>0 DEF StopHolds, Wait4, childvars, tracervars
      <3> QED BY <1>1, <3>1, <3>2, <3>3, <3>4, <3>5
    <2>b. Wait4Ends => Quiet
      <3> SUFFICES ASSUME Wait4Ends PROVE Quiet
        OBVIOUS
      <3>1. Still /\ event' \in BOOLEAN
        BY <1>1 DEF Wait4Ends, childvars, tracervars
      <3>2. {inTable', crashed'} \subseteq BOOLEAN
        BY <1>1 DEF Wait4Ends, childvars, tracervars
      <3>3. reported' \in BOOLEAN
        BY <1>1 DEF Wait4Ends, childvars, tracervars
      <3>4. Tables
        BY <1>0 DEF PtraceTypeOK, Wait4Ends, childvars, tracervars
      <3>5. reported' => step = "asleep"
        BY <1>0 DEF StopHolds, Wait4Ends, childvars, tracervars, IsSuspended
      <3> QED BY <1>1, <3>1, <3>2, <3>3, <3>4, <3>5
    <2>c. NoProcess => Quiet
      <3> SUFFICES ASSUME NoProcess PROVE Quiet
        OBVIOUS
      <3>1. Still /\ event' \in BOOLEAN
        BY <1>1 DEF NoProcess, childvars, tracervars
      <3>2. {inTable', crashed'} \subseteq BOOLEAN
        BY <1>1 DEF NoProcess, childvars, tracervars
      <3>3. reported' \in BOOLEAN
        BY <1>1 DEF NoProcess, childvars, tracervars
      <3>4. Tables
        BY <1>0 DEF PtraceTypeOK, NoProcess, childvars, tracervars
      <3>5. reported' => step = "asleep"
        BY <1>0 DEF StopHolds, NoProcess, childvars, tracervars
      <3> QED BY <1>1, <3>1, <3>2, <3>3, <3>4, <3>5
    <2>d. TracerExit => Quiet
      <3> SUFFICES ASSUME TracerExit PROVE Quiet
        OBVIOUS
      <3>1. Still /\ event' \in BOOLEAN
        BY <1>1 DEF TracerExit, childvars, tracervars
      <3>2. {inTable', crashed'} \subseteq BOOLEAN
        BY <1>1 DEF TracerExit, childvars, tracervars
      <3>3. reported' \in BOOLEAN
        BY <1>1 DEF TracerExit, childvars, tracervars
      <3>4. Tables
        BY <1>0 DEF PtraceTypeOK, TracerExit, childvars, tracervars
      <3>5. reported' => step = "asleep"
        BY <1>0 DEF StopHolds, TracerExit, childvars, tracervars
      <3> QED BY <1>1, <3>1, <3>2, <3>3, <3>4, <3>5
    <2>e. (\E sig \in Others : Kill(sig)) => Quiet
      <3> SUFFICES ASSUME NEW sig \in Others, Kill(sig) PROVE Quiet
        OBVIOUS
      <3>1. Still /\ UNCHANGED <<tracer, event, inTable, crashed, reported>>
        BY DEF Kill, childvars, tracervars
      <3>2. Tables
        BY <1>0, <3>1 DEF PtraceTypeOK, Kill
      <3>3. reported => step = "asleep"
        BY <1>0 DEF StopHolds
      <3> QED BY <1>1, <3>1, <3>2, <3>3
    <2> HIDE DEF Quiet
    <2>f. Quiet
      BY <1>3, <2>a, <2>b, <2>c, <2>d, <2>e
    <2>1. Still
      BY <2>f DEF Quiet
    <2>2. Flags'
      BY <2>f DEF Quiet
    <2>3. Tables
      BY <2>f DEF Quiet
    <2>4. reported' => step = "asleep"
      BY <2>f DEF Quiet
    <2>5. PtraceTypeOK'
      BY <1>0, <2>1, <2>2, <2>3 DEF PtraceTypeOK
    <2>6. RegsOfPlace'
      BY <1>0, <2>1 DEF RegsOfPlace, Result
    <2>7. CurrentIsSignal' /\ StopHolds' /\ NewIsChosen'
      BY <1>0, <2>1, <2>4 DEF CurrentIsSignal, StopHolds, NewIsChosen
    <2> QED BY <2>5, <2>6, <2>7 DEF PtraceInv
  <1> QED BY <1>2, <1>3

\* ptrace resumes the child: who resumes a stop that was not reported is not
\* careful, and a reported one is no longer a stop.
LEMMA ResumeStep ==
    ASSUME PtraceInv,
           \/ PtraceKill
           \/ \E req \in {"SYSCALL", "none"}, data \in {0} \cup Others :
                 Resume(req, data)
    PROVE  PtraceInv'
  <1> DEFINE Flags == {event, inTable, crashed, reported, careful} \subseteq BOOLEAN
  <1>0. PtraceTypeOK /\ CurrentIsSignal /\ RegsOfPlace /\ StopHolds /\ NewIsChosen
    BY DEF PtraceInv
  <1>1. Flags
    BY <1>0 DEF PtraceTypeOK
  <1>2. /\ UNCHANGED <<at, call, current, owned, regs, user, tracer, event, inTable,
                       crashed>>
        /\ step' = Resumed
    BY DEF PtraceKill, Resume
  <1>3. reported' = FALSE /\ careful' = (careful /\ reported)
    BY DEF PtraceKill, Resume
  <1>4. Flags'
    <2>1. careful' \in BOOLEAN
      BY <1>3, Zenon
    <2>2. reported' \in BOOLEAN
      BY <1>3
    <2> QED BY <1>1, <1>2, <2>1, <2>2
  <1>5. /\ request' \in {"none", "TRACEME", "SYSCALL"}
        /\ pending' \subseteq Others \cup {SIGKILL}
        /\ newSignal' \in Others \cup {0, SIGTRAP, SIGKILL}
    BY <1>0 DEF PtraceTypeOK, PtraceKill, Resume
  <1>6. PtraceTypeOK'
    BY <1>0, <1>2, <1>4, <1>5 DEF PtraceTypeOK, Resumed
  <1>7. RegsOfPlace'
    BY <1>0, <1>2 DEF RegsOfPlace, Result, Resumed
  <1>8. CurrentIsSignal' /\ StopHolds'
    BY <1>0, <1>2, <1>3 DEF CurrentIsSignal, StopHolds, Resumed
  <1>9. NewIsChosen'
    <2>1. step' # "asleep"
      BY <1>2 DEF Resumed
    <2> SUFFICES ASSUME careful', step' = "told" PROVE newSignal' = chosen'
      BY <2>1 DEF NewIsChosen
    <2>2. careful /\ reported /\ step = "told"
      BY <1>2, <1>3 DEF Resumed
    <2> QED BY <1>0, <2>2 DEF StopHolds
  <1> QED BY <1>6, <1>7, <1>8, <1>9 DEF PtraceInv

\* Every step keeps the invariant.
LEMMA PtraceStepInv == PtraceInv /\ [PtraceNext]_ptvars => PtraceInv'
  <1> SUFFICES ASSUME PtraceInv, [PtraceNext]_ptvars PROVE PtraceInv'
    OBVIOUS
  <1>1. CASE UNCHANGED ptvars
    <2>1. PtraceTypeOK'
      <3>1. PtraceTypeOK
        BY DEF PtraceInv
      <3>2. /\ UNCHANGED <<step, at, call, current, pending, owned, request, newSignal>>
            /\ UNCHANGED <<tracer, event, inTable, crashed, reported, careful>>
        BY <1>1 DEF ptvars
      <3>3. /\ (step \in {"signal", "told", "asleep", "woken"} <=> current # 0)'
            /\ (step \in {"signal", "told", "asleep", "woken"} <=> at # "none")'
        BY <3>1, <3>2 DEF PtraceTypeOK
      <3>4. ({event, inTable, crashed, reported, careful} \subseteq BOOLEAN)'
        BY <3>1, <3>2 DEF PtraceTypeOK
      <3> QED BY <3>1, <3>2, <3>3, <3>4 DEF PtraceTypeOK
    <2>2. RegsOfPlace'
      BY <1>1 DEF ptvars, PtraceInv, RegsOfPlace, Result
    <2>3. CurrentIsSignal' /\ StopHolds' /\ NewIsChosen'
      BY <1>1 DEF ptvars, PtraceInv, CurrentIsSignal, StopHolds, NewIsChosen
    <2> QED BY <2>1, <2>2, <2>3 DEF PtraceInv
  <1>2. CASE HandleSignal
    BY <1>2, StopStep, ActStep DEF HandleSignal
  <1>3. CASE Woken
    BY <1>3, ActStep DEF Woken
  <1> QED
    BY <1>1, <1>2, <1>3, Int80Step, CallStep, ReturnStep, DebugEventStep,
       QuietStep, ResumeStep DEF PtraceNext, Handler

LEMMA PtraceInvariant == PtraceSpec => []PtraceInv
  BY PtraceInitInv, PtraceStepInv, PTL DEF PtraceSpec

-----------------------------------------------------------------------------
\* The stops, requests and signals of HandleSignal and sys_ptrace keep their
\* types.
THEOREM PtraceTypeCorrect == PtraceSpec => []PtraceTypeOK
  <1>1. PtraceInv => PtraceTypeOK
    BY DEF PtraceInv
  <1> QED BY <1>1, PtraceInvariant, PTL

\* At a stop that wait4 reported, the child's handler thread sleeps until
\* ptrace resumes it, the registers PTRACE_PEEKUSR reads are those of the stop,
\* and the signal that HandleSignal will act on is the chosen one.
THEOREM StopsAreReported == PtraceSpec => []ReportedStops
  <1>1. PtraceInv => ReportedStops
    <2> SUFFICES ASSUME PtraceInv PROVE ReportedStops
      OBVIOUS
    <2>1. StopHolds /\ DeliversChosen
      BY DEF PtraceInv, StopHolds, NewIsChosen, DeliversChosen
    <2>2. PeekSeesStop
      <3>1. RegsOfPlace
        BY DEF PtraceInv
      <3>2. at = "entry" => PeekUsr = <<"ENOSYS", call>>
        BY <3>1 DEF RegsOfPlace, PeekUsr
      <3>3. at = "exit" => PeekUsr = <<Result, call>>
        BY <3>1 DEF RegsOfPlace, PeekUsr
      <3>4. at = "exec" => PeekUsr = <<"0", "execve">>
        BY <3>1 DEF RegsOfPlace, PeekUsr
      <3>5. at = "debug" => PeekUsr[1] = user
        BY <3>1 DEF RegsOfPlace, PeekUsr
      <3> QED BY <3>2, <3>3, <3>4, <3>5 DEF PeekSeesStop
    <2> QED BY <2>1, <2>2 DEF ReportedStops
  <1> QED BY <1>1, PtraceInvariant, PTL

-----------------------------------------------------------------------------
(* Ids: any set of ids and masks                                           *)

\* What a call that may set two ids leaves of them.
LEMMA SetIdsType ==
    ASSUME NEW old \in [real : Id, eff : Id], NEW r \in Id \cup {None},
           NEW e \in Id \cup {None}, NEW first, NEW second,
           NEW mid, mid = IF SetsReal(r, first) THEN [old EXCEPT !.real = r] ELSE old
    PROVE  /\ mid \in [real : Id, eff : Id]
           /\ (IF SetsEff(e, mid, second) THEN [mid EXCEPT !.eff = e] ELSE mid)
                  \in [real : Id, eff : Id]
<1>1. SetsReal(r, first) => r \in Id
  BY DEF SetsReal
<1>2. SetsEff(e, mid, second) => e \in Id
  BY DEF SetsEff
<1>3. mid \in [real : Id, eff : Id]
  BY <1>1
<1>4. QED
  BY <1>2, <1>3

\* The ids and the umask keep their types.
THEOREM IdsTypeCorrect == IdsSpec => []IdsTypeOK
<1>1. IdsInit => IdsTypeOK
  BY IdsConstants DEF IdsInit, IdsTypeOK
<1>2. IdsTypeOK /\ [IdsNext]_ivars => IdsTypeOK'
  <2> SUFFICES ASSUME IdsTypeOK, [IdsNext]_ivars PROVE IdsTypeOK'
    OBVIOUS
  <2>1. ASSUME NEW r \in Id \cup {None}, NEW e \in Id \cup {None}, Setreuid(r, e)
        PROVE  IdsTypeOK'
    BY <2>1, SetIdsType DEF Setreuid, IdsTypeOK
  <2>2. ASSUME NEW r \in Id \cup {None}, NEW e \in Id \cup {None}, Setregid(r, e)
        PROVE  IdsTypeOK'
    BY <2>2, SetIdsType DEF Setregid, IdsTypeOK
  <2>3. CASE \E m \in Mask : Umask(m)
    BY <2>3 DEF Umask, IdsTypeOK
  <2>4. CASE Chmod \/ ForkCopy \/ UNCHANGED ivars
    BY <2>4 DEF Chmod, ForkCopy, ivars, IdsTypeOK
  <2>5. QED
    BY <2>1, <2>2, <2>3, <2>4 DEF IdsNext
<1>3. QED
  BY <1>1, <1>2, PTL DEF IdsSpec

\* A setreuid or setregid that answers EPERM has changed no id: its two tests
\* can set one id and refuse the other, but then it answers 0.
THEOREM RefusalKeepsIds == IdsSpec => RefusedKeeps
<1>1. [IdsNext]_ivars => [eax' = "EPERM" => UNCHANGED <<uids, gids>>]_ivars
  <2> SUFFICES ASSUME IdsNext, eax' = "EPERM" PROVE UNCHANGED <<uids, gids>>
    BY DEF ivars
  <2>1. ASSUME NEW r, NEW e, Setreuid(r, e) PROVE UNCHANGED <<uids, gids>>
    BY <2>1 DEF Setreuid, Answer
  <2>2. ASSUME NEW r, NEW e, Setregid(r, e) PROVE UNCHANGED <<uids, gids>>
    BY <2>2 DEF Setregid, Answer
  <2>3. QED
    BY <2>1, <2>2 DEF IdsNext, Umask, Chmod, ForkCopy
<1>2. QED
  BY <1>1, PTL DEF IdsSpec, RefusedKeeps

\* setreuid by a process whose effective id is root's sets both ids that it is
\* given, in the order in which sys_setreuid tests them.
THEOREM RootSetsBothIds == IdsSpec => RootSetsBoth
<1> DEFINE Sets == \A r, e \in Id : asked' = <<"uid", r, e>> /\ uids.eff = 0 =>
                       uids' = [real |-> r, eff |-> e]
<1>1. IdsTypeOK /\ [IdsNext]_ivars => [Sets]_ivars
  <2> SUFFICES ASSUME IdsTypeOK, IdsNext, NEW r \in Id, NEW e \in Id,
                      asked' = <<"uid", r, e>>, uids.eff = 0
               PROVE  uids' = [real |-> r, eff |-> e]
    BY DEF ivars
  <2>1. Setreuid(r, e)
    BY DEF IdsNext, Setreuid, Setregid, Umask, Chmod, ForkCopy
  <2>2. r # None /\ e # None
    BY IdsConstants DEF None
  <2>3. SetsReal(r, IsRoot(uids))
    BY <2>2 DEF SetsReal, IsRoot
  <2>4. IsRoot([uids EXCEPT !.real = r])
    BY DEF IsRoot, IdsTypeOK
  <2>5. SetsEff(e, [uids EXCEPT !.real = r], IsRoot([uids EXCEPT !.real = r]))
    BY <2>2, <2>4 DEF SetsEff
  <2>6. uids' = [[uids EXCEPT !.real = r] EXCEPT !.eff = e]
    BY <2>1, <2>3, <2>5 DEF Setreuid
  <2>7. QED
    BY <2>6 DEF IdsTypeOK
<1>2. QED
  BY <1>1, IdsTypeCorrect, PTL DEF IdsSpec, RootSetsBoth

\* Together: setreuid and setregid set no id where they refuse, and both where
\* root asks.
THEOREM BothOrNone == IdsSpec => SetsBothOrNone
  BY RefusalKeepsIds, RootSetsBothIds DEF SetsBothOrNone

=============================================================================
