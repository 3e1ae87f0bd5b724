--------------------------- MODULE SignalsProofs ----------------------------
(***************************************************************************)
(* Proofs about signals: the masks of nested handlers (Signals), for any set *)
(* of signals, any actions and masks a program uses, and any depth of      *)
(* nesting; and kills of process groups (Groups), for any processes.       *)
(***************************************************************************)
EXTENDS Signals, Groups, SequenceTheorems, FiniteSetTheorems, TLAPS

(* Signals                                                                 *)

\* The oldest frame holds the mask the program chose outside its handlers.
Saved ==
    ~leaked => IF frames = <<>> THEN mask = base ELSE frames[1].mask = base

\* The mask a handler left behind for the frame above it.
MaskAt(i) == IF i = Len(frames) THEN mask ELSE frames[i + 1].mask

\* Each running handler has its own signal blocked, unless the program let
\* the signal in.
Held ==
    ~leaked => \A i \in 1..Len(frames) : frames[i].sig \in opened \union MaskAt(i)

IndInv == TypeOK /\ Saved /\ Held /\ NoDirectReentry

-----------------------------------------------------------------------------
\* What HandleSignal does to the parts of the state the masks depend on.
HandleEffect(sig, onEvent) ==
    \/ UNCHANGED <<mask, action, frames, base, opened, leaked>>
    \/ /\ sig \notin mask
       /\ Len(frames) < MaxDepth
       /\ action' \in [Sig -> SigActions]
       /\ mask' \subseteq Sig
       /\ sig \in opened' \union mask'
       /\ opened \subseteq opened' /\ opened' \subseteq Sig
       /\ frames' = IF onEvent
                    THEN Append(frames, [sig |-> sig, mask |-> mask])
                    ELSE frames
       /\ leaked' = (leaked \/ ~onEvent)
       /\ base' = base

\* HandleSignal enters a handler only for a signal that is not masked, and
\* leaves that signal masked unless SA_NODEFER lets it in.
LEMMA HandleSignalEffect ==
    ASSUME TypeOK, NEW sig \in Sig, NEW onEvent \in BOOLEAN,
           HandleSignal(sig, onEvent)
    PROVE  /\ HandleEffect(sig, onEvent)
           /\ thread' \in {"run", "suspended", "exited"}
<1>1. thread' \in {"run", "suspended", "exited"}
  BY DEF HandleSignal
<1>2. CASE Decision(sig) # "call"
  BY <1>2 DEF HandleSignal, HandleEffect
<1>3. CASE Decision(sig) = "call"
  <2>1. sig \notin mask
    BY <1>3 DEF Decision, SIGKILL, SIGSTOP
  <2>2. /\ Len(frames) < MaxDepth
        /\ action' = [action EXCEPT ![sig].handler =
                          IF action[sig].oneshot THEN "DFL" ELSE @]
        /\ mask' = HandlerMask(sig)
        /\ frames' = IF onEvent
                     THEN Append(frames, [sig |-> sig, mask |-> mask])
                     ELSE frames
        /\ opened' = IF action[sig].nodefer THEN opened \union {sig} ELSE opened
        /\ leaked' = (leaked \/ ~onEvent)
        /\ base' = base
    BY <1>3, Zenon DEF HandleSignal
  <2>3. action[sig] \in SigActions
    BY DEF TypeOK
  <2>4. mask' \subseteq Sig /\ sig \in opened' \union mask'
    BY <2>2, <2>3 DEF HandlerMask, SigActions
  <2>5. action' \in [Sig -> SigActions]
    <3>1. PICK h \in {"DFL", "IGN", "FN"} :
             action' = [action EXCEPT ![sig].handler = h]
      BY <2>2, <2>3 DEF SigActions
    <3>2. [action[sig] EXCEPT !.handler = h] \in SigActions
      BY <2>3 DEF SigActions
    <3>3. action' = [action EXCEPT ![sig] = [action[sig] EXCEPT !.handler = h]]
      BY <3>1
    <3> QED BY <3>2, <3>3 DEF TypeOK
  <2>6. opened \subseteq opened' /\ opened' \subseteq Sig
    BY <2>2 DEF TypeOK
  <2> QED BY <1>1, <2>1, <2>2, <2>4, <2>5, <2>6, Zenon DEF HandleEffect
<1> QED BY <1>2, <1>3

\* The frames after a handler was entered, and after one has returned.
LEMMA Pushed ==
    ASSUME TypeOK, NEW f \in [sig : Sig, mask : SUBSET Sig],
           frames' = Append(frames, f)
    PROVE  /\ frames' \in Seq([sig : Sig, mask : SUBSET Sig])
           /\ Len(frames') = Len(frames) + 1
           /\ frames'[Len(frames) + 1] = f
           /\ \A i \in 1..Len(frames) : frames'[i] = frames[i]
BY DEF TypeOK

\* What sigreturn leaves of the frames: all but the last, unchanged.
LEMMA Popped ==
    ASSUME TypeOK, frames # <<>>, frames' = SubSeq(frames, 1, Len(frames) - 1)
    PROVE  /\ frames' \in Seq([sig : Sig, mask : SUBSET Sig])
           /\ Len(frames) > 0
           /\ Len(frames') = Len(frames) - 1
           /\ \A i \in 1..(Len(frames) - 1) : frames'[i] = frames[i]
<1> DEFINE F == [sig : Sig, mask : SUBSET Sig]
<1>1. frames \in Seq(F)
  BY DEF TypeOK
<1> HIDE DEF F
<1>2. Len(frames) \in Nat /\ Len(frames) > 0
  BY <1>1
<1>3. \A i \in 1..(Len(frames) - 1) : frames[i] \in F
  BY <1>1, <1>2
<1> DEFINE n == Len(frames) - 1
<1>4. n \in Nat /\ \A i \in 1..n : frames[i] \in F
  BY <1>2, <1>3
<1>5. frames' = SubSeq(frames, 1, n)
  OBVIOUS
<1> HIDE DEF n
<1>6. /\ SubSeq(frames, 1, n) \in Seq(F)
      /\ Len(SubSeq(frames, 1, n)) = IF 1 <= n THEN n - 1 + 1 ELSE 0
      /\ \A i \in 1..(n - 1 + 1) : SubSeq(frames, 1, n)[i] = frames[1 + i - 1]
  BY <1>4, SubSeqProperties
<1>7. frames' \in Seq(F) /\ Len(frames') = n
      /\ \A i \in 1..n : frames'[i] = frames[i]
  BY <1>4, <1>5, <1>6
<1> QED BY <1>2, <1>7 DEF n, F

\* The frames after exec.
LEMMA EmptyFrames ==
    ASSUME TypeOK
    PROVE  /\ Len(frames) \in Nat
           /\ frames = <<>> <=> Len(frames) = 0
BY DEF TypeOK

\* Entering a handler, or doing anything else HandleSignal does, keeps what
\* is known of the masks.
LEMMA HandleKeeps ==
    ASSUME IndInv, NEW sig \in Sig, NEW onEvent \in BOOLEAN,
           HandleEffect(sig, onEvent)
    PROVE  /\ frames' \in Seq([sig : Sig, mask : SUBSET Sig])
           /\ Len(frames') <= MaxDepth
           /\ Saved' /\ Held' /\ NoDirectReentry'
<1> USE DEF IndInv
<1>0. Len(frames) \in Nat /\ (frames = <<>> <=> Len(frames) = 0)
  BY EmptyFrames
<1>1. CASE UNCHANGED <<mask, action, frames, base, opened, leaked>>
  BY <1>1 DEF TypeOK, Saved, Held, MaskAt, NoDirectReentry
<1>2. CASE ~UNCHANGED <<mask, action, frames, base, opened, leaked>>
  <2>1. /\ sig \notin mask
        /\ Len(frames) < MaxDepth
        /\ sig \in opened' \union mask'
        /\ opened \subseteq opened'
        /\ frames' = IF onEvent
                     THEN Append(frames, [sig |-> sig, mask |-> mask])
                     ELSE frames
        /\ leaked' = (leaked \/ ~onEvent)
        /\ base' = base
    BY <1>2, Zenon DEF HandleEffect
  <2>2. CASE ~onEvent
    <3>1. leaked' /\ frames' = frames
      BY <2>1, <2>2, Zenon
    <3> QED BY <2>1, <3>1, SigAssumption
            DEF TypeOK, Saved, Held, NoDirectReentry
  <2>3. CASE onEvent
    <3> DEFINE f == [sig |-> sig, mask |-> mask]
               n == Len(frames)
    <3>1. frames' = Append(frames, f)
      BY <2>1, <2>3
    <3>2. leaked' => leaked
      BY <2>1, <2>3, Zenon
    <3>3. leaked => leaked'
      BY <2>1, Zenon
    <3>4. f \in [sig : Sig, mask : SUBSET Sig]
      BY DEF TypeOK
    <3>5. /\ frames' \in Seq([sig : Sig, mask : SUBSET Sig])
          /\ Len(frames') = n + 1
          /\ frames'[n + 1] = f
          /\ \A i \in 1..n : frames'[i] = frames[i]
      BY <3>1, <3>4, Pushed
    <3>6. f.sig = sig /\ f.mask = mask
      OBVIOUS
    <3> HIDE DEF f
    <3>7. Len(frames') <= MaxDepth
      BY <1>0, <2>1, <3>5, SigAssumption
    <3>8. Saved'
      <4>1. frames' # <<>>
        BY <1>0, <3>5
      <4>2. CASE n = 0
        BY <1>0, <2>1, <3>3, <3>5, <3>6, <4>1, <4>2 DEF Saved
      <4>3. CASE n # 0
        BY <1>0, <2>1, <3>3, <3>5, <4>1, <4>3 DEF Saved
      <4> QED BY <4>2, <4>3
    <3>9. Held'
      <4> SUFFICES ASSUME ~leaked', NEW i \in 1..(n + 1)
                   PROVE  frames'[i].sig \in opened' \union MaskAt(i)'
        BY <3>5 DEF Held
      <4>1. CASE i = n + 1
        BY <2>1, <3>5, <3>6, <4>1 DEF MaskAt
      <4>2. CASE i = n
        <5>1. frames[n].sig \in opened \union mask
          BY <1>0, <3>3, <4>2 DEF Held, MaskAt
        <5>2. MaskAt(i)' = mask /\ frames'[i] = frames[n]
          BY <1>0, <3>5, <3>6, <4>2 DEF MaskAt
        <5> QED BY <2>1, <5>1, <5>2
      <4>3. CASE i < n
        <5>1. frames[i].sig \in opened \union frames[i + 1].mask
          BY <1>0, <3>3, <4>3 DEF Held, MaskAt
        <5>2. MaskAt(i)' = frames[i + 1].mask /\ frames'[i] = frames[i]
          BY <1>0, <3>5, <4>3 DEF MaskAt
        <5> QED BY <2>1, <5>1, <5>2
      <4> QED BY <1>0, <4>1, <4>2, <4>3
    <3>10. NoDirectReentry'
      <4> SUFFICES ASSUME ~leaked', NEW i \in 1..n,
                          frames'[i].sig = frames'[i + 1].sig
                   PROVE  frames'[i].sig \in opened'
        BY <1>0, <3>5 DEF NoDirectReentry
      <4>1. CASE i = n
        BY <1>0, <2>1, <3>3, <3>5, <3>6, <4>1 DEF Held, MaskAt
      <4>2. CASE i < n
        BY <1>0, <2>1, <3>3, <3>5, <4>2 DEF NoDirectReentry
      <4> QED BY <1>0, <4>1, <4>2
    <3> QED BY <3>5, <3>7, <3>8, <3>9, <3>10
  <2> QED BY <2>2, <2>3
<1> QED BY <1>1, <1>2

\* The inductive invariant is kept by every step.
LEMMA Step == IndInv /\ [Next]_vars => IndInv'
<1> SUFFICES ASSUME IndInv, [Next]_vars PROVE IndInv'
  OBVIOUS
<1>t. TypeOK /\ Saved /\ Held /\ NoDirectReentry
  BY DEF IndInv
<1>0. Len(frames) \in Nat /\ (frames = <<>> <=> Len(frames) = 0)
  BY <1>t, EmptyFrames
<1>k. ASSUME UNCHANGED <<mask, frames, base, opened, leaked>>
      PROVE  Saved' /\ Held' /\ NoDirectReentry'
  BY <1>k, <1>t DEF Saved, Held, MaskAt, NoDirectReentry
<1>1. ASSUME NEW sig \in Sig, SendSignal(sig) PROVE IndInv'
  BY <1>1, <1>k, <1>t DEF SendSignal, SetSingleStep, IndInv, TypeOK
<1>2. ASSUME NEW sig \in Sig, RaiseSignal(sig) PROVE IndInv'
  <2>1. HandleEffect(sig, FALSE) /\ thread' \in {"run", "suspended", "exited"}
    BY <1>2, <1>t, HandleSignalEffect DEF RaiseSignal
  <2>2. /\ frames' \in Seq([sig : Sig, mask : SUBSET Sig])
        /\ Len(frames') <= MaxDepth
        /\ Saved' /\ Held' /\ NoDirectReentry'
    BY <2>1, HandleKeeps
  <2>3. /\ action' \in [Sig -> SigActions] /\ mask' \subseteq Sig
        /\ opened' \subseteq Sig /\ base' \subseteq Sig
    BY <2>1, <1>t DEF HandleEffect, TypeOK
  <2>4. leaked' \in BOOLEAN
    BY <2>1, <1>t, Zenon DEF HandleEffect, TypeOK
  <2> QED BY <1>2, <1>t, <2>1, <2>2, <2>3, <2>4 DEF RaiseSignal, IndInv, TypeOK
<1>3. CASE Dispatch
  <2>1. PICK sig \in pending : /\ HandleSignal(sig, TRUE)
                              /\ pending' = pending \ {sig}
                              /\ UNCHANGED <<inExec, trapFlag>>
    BY <1>3 DEF Dispatch
  <2>0. sig \in Sig
    BY <1>t DEF TypeOK
  <2>2. HandleEffect(sig, TRUE) /\ thread' \in {"run", "suspended", "exited"}
    BY <2>0, <2>1, <1>t, HandleSignalEffect
  <2>3. /\ frames' \in Seq([sig : Sig, mask : SUBSET Sig])
        /\ Len(frames') <= MaxDepth
        /\ Saved' /\ Held' /\ NoDirectReentry'
    BY <2>0, <2>2, HandleKeeps
  <2>4. /\ action' \in [Sig -> SigActions] /\ mask' \subseteq Sig
        /\ opened' \subseteq Sig /\ base' \subseteq Sig
    BY <2>2, <1>t DEF HandleEffect, TypeOK
  <2>5. leaked' \in BOOLEAN
    BY <2>2, <1>t, Zenon DEF HandleEffect, TypeOK
  <2> QED BY <1>t, <2>1, <2>2, <2>3, <2>4, <2>5 DEF IndInv, TypeOK
<1>4. ASSUME NEW sig \in Sig, NEW act \in Actions, Sigaction(sig, act)
      PROVE  IndInv'
  BY <1>4, <1>k, <1>t, SigAssumption DEF Sigaction, IndInv, TypeOK
<1>5. ASSUME NEW how \in {"BLOCK", "UNBLOCK", "SETMASK"}, NEW set \in Masks,
             Sigprocmask(how, set)
      PROVE  IndInv'
  <2>1. /\ mask' \subseteq Sig
        /\ opened' = opened \union (mask \ mask')
        /\ base' = IF frames = <<>> THEN mask' ELSE base
        /\ UNCHANGED <<pending, action, frames, thread, inExec, trapFlag, leaked>>
    BY <1>5, <1>t, SigAssumption DEF Sigprocmask, TypeOK
  <2>2. TypeOK'
    BY <2>1, <1>t DEF TypeOK
  <2>3. Saved'
    BY <2>1, <1>t DEF Saved
  <2>4. Held'
    BY <2>1, <1>t, <1>0 DEF Held, MaskAt
  <2>5. NoDirectReentry'
    BY <2>1, <1>t DEF NoDirectReentry
  <2> QED BY <2>2, <2>3, <2>4, <2>5 DEF IndInv
<1>6. CASE Sigreturn
  <2> DEFINE n == Len(frames)
  <2>1. /\ frames # <<>> /\ mask' = frames[n].mask
        /\ frames' = SubSeq(frames, 1, n - 1)
        /\ UNCHANGED <<pending, action, thread, inExec, trapFlag, base, opened,
                       leaked>>
    BY <1>6 DEF Sigreturn
  <2>2. /\ frames' \in Seq([sig : Sig, mask : SUBSET Sig])
        /\ n > 0
        /\ Len(frames') = n - 1
        /\ \A i \in 1..(n - 1) : frames'[i] = frames[i]
    BY <1>t, <2>1, Popped
  <2>3. mask' \subseteq Sig
    <3> DEFINE F == [sig : Sig, mask : SUBSET Sig]
    <3>1. frames \in Seq(F)
      BY <1>t DEF TypeOK
    <3> HIDE DEF F
    <3>2. frames[n] \in F
      BY <1>0, <2>2, <3>1
    <3> QED BY <2>1, <3>2 DEF F
  <2>4. TypeOK'
    BY <1>0, <1>t, <2>1, <2>2, <2>3, SigAssumption DEF TypeOK
  <2>5. frames' = <<>> <=> n - 1 = 0
    BY <1>0, <2>2
  <2>6. Saved'
    <3>1. CASE n = 1
      BY <1>t, <2>1, <2>5, <3>1 DEF Saved
    <3>2. CASE n # 1
      <4>1. 1 \in 1..(n - 1)
        BY <1>0, <2>2, <3>2
      <4> QED BY <1>0, <1>t, <2>1, <2>2, <2>5, <3>2, <4>1 DEF Saved
    <3> QED BY <3>1, <3>2
  <2>7. Held'
    <3> SUFFICES ASSUME ~leaked', NEW i \in 1..(n - 1)
                 PROVE  frames'[i].sig \in opened' \union MaskAt(i)'
      BY <2>2 DEF Held
    <3>1. frames[i].sig \in opened \union frames[i + 1].mask
      BY <1>0, <1>t, <2>1, <2>2 DEF Held, MaskAt
    <3>2. MaskAt(i)' = frames[i + 1].mask
      BY <1>0, <2>1, <2>2 DEF MaskAt
    <3> QED BY <2>1, <2>2, <3>1, <3>2
  <2>8. NoDirectReentry'
    BY <1>0, <1>t, <2>1, <2>2 DEF NoDirectReentry
  <2> QED BY <2>4, <2>6, <2>7, <2>8 DEF IndInv
<1>7. CASE ExecStart
  BY <1>7, <1>k, <1>t DEF ExecStart, IndInv, TypeOK
<1>8. CASE ExecReset
  <2>1. /\ frames' = <<>> /\ mask' = {} /\ base' = {} /\ opened' = {}
        /\ pending' = {} /\ action' = NoActions /\ leaked' = FALSE
        /\ inExec' = FALSE /\ UNCHANGED <<thread, trapFlag>>
    BY <1>8 DEF ExecReset
  <2>2. NoActions \in [Sig -> SigActions]
    BY DEF NoActions, Default, SigActions
  <2>3. TypeOK'
    <3>1. frames' \in Seq([sig : Sig, mask : SUBSET Sig]) /\ Len(frames') = 0
      BY <2>1, EmptySeq
    <3>2. Len(frames') <= MaxDepth
      BY <3>1, SigAssumption
    <3>3. pending' \subseteq Sig /\ mask' \subseteq Sig /\ base' \subseteq Sig
          /\ opened' \subseteq Sig /\ action' \in [Sig -> SigActions]
      BY <2>1, <2>2
    <3>4. /\ thread' \in {"run", "suspended", "exited"}
          /\ inExec' \in BOOLEAN /\ trapFlag' \in BOOLEAN /\ leaked' \in BOOLEAN
      BY <1>t, <2>1, Zenon DEF TypeOK
    <3> QED BY <3>1, <3>2, <3>3, <3>4, Zenon DEF TypeOK
  <2> QED BY <2>1, <2>3 DEF IndInv, Saved, Held, NoDirectReentry
<1>9. CASE UNCHANGED vars
  BY <1>9, <1>k, <1>t DEF vars, IndInv, TypeOK
<1> QED BY <1>1, <1>2, <1>3, <1>4, <1>5, <1>6, <1>7, <1>8, <1>9 DEF Next

\* The invariant holds in every reachable state.
LEMMA Invariance == Spec => []IndInv
<1>1. Init => IndInv
  <2> SUFFICES ASSUME Init PROVE IndInv
    OBVIOUS
  <2>1. NoActions \in [Sig -> SigActions]
    BY DEF NoActions, Default, SigActions
  <2>2. TypeOK
    <3>1. frames \in Seq([sig : Sig, mask : SUBSET Sig]) /\ Len(frames) = 0
      BY EmptySeq DEF Init
    <3>2. Len(frames) <= MaxDepth
      BY <3>1, SigAssumption
    <3>3. pending \subseteq Sig /\ mask \subseteq Sig /\ base \subseteq Sig
          /\ opened \subseteq Sig /\ action \in [Sig -> SigActions]
      BY <2>1 DEF Init
    <3>4. /\ thread \in {"run", "suspended", "exited"}
          /\ inExec \in BOOLEAN /\ trapFlag \in BOOLEAN /\ leaked \in BOOLEAN
      BY Zenon DEF Init
    <3> QED BY <3>1, <3>2, <3>3, <3>4, Zenon DEF TypeOK
  <2> QED BY <2>2 DEF Init, IndInv, Saved, Held, NoDirectReentry
<1> QED BY <1>1, Step, PTL DEF Spec

-----------------------------------------------------------------------------
\* Masks, actions, pending signals and frames keep their types in every
\* behaviour of HandleSignal, the signal system calls and exec.
THEOREM TypeCorrect == Spec => []TypeOK
<1>1. IndInv => TypeOK
  BY DEF IndInv
<1> QED BY <1>1, Invariance, PTL

\* However deep handlers nest and whatever they do to the mask, the mask the
\* program chose is in force again when the last of them has returned,
\* unless a process raised a signal it catches.
THEOREM MaskComesBack == Spec => []BaseMaskRestored
<1>1. IndInv => BaseMaskRestored
  BY DEF IndInv, Saved, BaseMaskRestored
<1> QED BY <1>1, Invariance, PTL

\* A handler is entered again while it runs only from within the handler of
\* another signal, for any nesting, unless the program let the signal in.
THEOREM ReentryOnlyThroughOther == Spec => []NoDirectReentry
<1>1. IndInv => NoDirectReentry
  BY DEF IndInv
<1> QED BY <1>1, Invariance, PTL

-----------------------------------------------------------------------------
(* Groups                                                                  *)

Starting == {"setup", "copying", "lost"}
Phases == {"none", "run", "forking"} \cup Starting

\* p is in the table, and the kill's iterator has passed it.
Listed(p) == \E i \in DOMAIN table : table[i] = p
Walked(p) == \E i \in DOMAIN table : i < kill.pos /\ table[i] = p

GroupTypes ==
    /\ table \in Seq(Pid) /\ Len(table) >= 1 /\ table[1] = 1
    /\ phase \in [Pid -> Phases] /\ parent \in [Pid -> Pid \cup {0}]
    /\ group \in [Pid -> Pid \cup {0}]
    /\ signalled \subseteq Pid
    /\ kill \in [by : Pid \cup {0}, to : Int, pos : Nat]

\* The table has each process once, after its parent.
Tables ==
    /\ \A i, j \in DOMAIN table : table[i] = table[j] => i = j
    /\ \A p \in Pid : phase[p] # "none" <=> Listed(p)
    /\ \A i \in DOMAIN table : i > 1 =>
          \E j \in DOMAIN table : j < i /\ table[j] = parent[table[i]]

\* A parent waits for the one child that it is forking.
Forks ==
    /\ phase[1] \notin Starting
    /\ \A c \in Pid : phase[c] \in Starting =>
          /\ parent[c] \in Pid /\ phase[parent[c]] = "forking"
          /\ \A d \in Pid : phase[d] \in Starting /\ parent[d] = parent[c] => d = c
    /\ \A p \in Pid : phase[p] = "forking" =>
          \E c \in Pid : parent[c] = p /\ phase[c] \in Starting

\* The killer's program waits for its call.
Walk ==
    kill # NoKill => /\ kill.by \in Pid /\ phase[kill.by] = "run"
                     /\ kill.pos \in 1..(Len(table) + 1)

\* What is due is in the group.  Once the iterator has passed it, it has the
\* signal, or it is being copied from a parent that has it pending.
Due(p) ==
    /\ p \in Pid /\ p # 1 /\ phase[p] # "none" /\ group[p] = -kill.to
    /\ phase[p] \in {"run", "forking"} /\ Walked(p) => p \in got
    /\ phase[p] = "copying" => /\ parent[p] \in due
                               /\ Walked(parent[p]) => parent[p] \in signalled

Reached == kill # NoKill /\ kill.to # -1 => \A p \in due : Due(p)

GroupsInv == GroupTypes /\ Tables /\ Forks /\ Walk /\ Reached

-----------------------------------------------------------------------------
\* Steps that leave the table and the phases alone.
LEMMA SameTables ==
    ASSUME Tables, Forks, UNCHANGED <<table, phase, parent>>
    PROVE  Tables' /\ Forks'
  BY DEF Tables, Forks, Listed

LEMMA ForkStep ==
    ASSUME GroupsInv, NEW p \in Pid, NEW c \in Pid, Fork(p, c)
    PROVE  GroupsInv'
  <1>0. /\ phase[p] = "run" /\ kill.by # p /\ phase[c] = "none" /\ p # c
        /\ table' = Append(table, c)
        /\ phase' = [phase EXCEPT ![p] = "forking", ![c] = "setup"]
        /\ parent' = [parent EXCEPT ![c] = p]
        /\ UNCHANGED <<group, signalled, kill, due, got>>
    BY DEF Fork, Calls
  <1>1. /\ table \in Seq(Pid) /\ Len(table) \in Nat /\ Len(table) >= 1
        /\ DOMAIN table = 1..Len(table)
        /\ phase \in [Pid -> Phases] /\ parent \in [Pid -> Pid \cup {0}]
        /\ \A i \in DOMAIN table : table[i] \in Pid
    BY DEF GroupsInv, GroupTypes
  <1>2. /\ table' \in Seq(Pid) /\ Len(table') = Len(table) + 1
        /\ DOMAIN table' = 1..(Len(table) + 1)
        /\ \A i \in DOMAIN table : table'[i] = table[i]
        /\ table'[Len(table) + 1] = c
    BY <1>0, <1>1
  <1>3. /\ phase' \in [Pid -> Phases] /\ phase'[p] = "forking" /\ phase'[c] = "setup"
        /\ \A q \in Pid : q \notin {p, c} => phase'[q] = phase[q]
    BY <1>0, <1>1 DEF Phases, Starting
  <1>4. /\ parent' \in [Pid -> Pid \cup {0}] /\ parent'[c] = p
        /\ \A q \in Pid : q # c => parent'[q] = parent[q]
    BY <1>0, <1>1
  <1>5. ~Listed(c) /\ Listed(p)
    BY <1>0 DEF GroupsInv, Tables
  <1>6. GroupTypes'
    <2>1. table'[1] = 1
      BY <1>1, <1>2 DEF GroupsInv, GroupTypes
    <2>2. Len(table') >= 1
      BY <1>1, <1>2
    <2> QED BY <1>0, <1>2, <1>3, <1>4, <2>1, <2>2 DEF GroupsInv, GroupTypes
  <1>7. Tables'
    <2>1. \A i, j \in DOMAIN table' : table'[i] = table'[j] => i = j
      BY <1>1, <1>2, <1>5 DEF GroupsInv, Tables, Listed
    <2>2. \A q \in Pid : Listed(q)' <=> (Listed(q) \/ q = c)
      BY <1>1, <1>2 DEF Listed
    <2>3. \A q \in Pid : phase'[q] # "none" <=> Listed(q)'
      BY <1>0, <1>3, <1>5, <2>2 DEF GroupsInv, Tables
    <2>4. ASSUME NEW i \in DOMAIN table', i > 1
          PROVE  \E j \in DOMAIN table' : j < i /\ table'[j] = parent'[table'[i]]
      <3>1. CASE i \in DOMAIN table
        <4>1. PICK j \in DOMAIN table : j < i /\ table[j] = parent[table[i]]
          BY <2>4, <3>1 DEF GroupsInv, Tables
        <4>2. table[i] # c /\ table[i] \in Pid
          BY <1>1, <1>5, <3>1 DEF Listed
        <4> QED BY <1>1, <1>2, <1>4, <3>1, <4>1, <4>2
      <3>2. CASE i = Len(table) + 1
        <4>1. PICK j \in DOMAIN table : table[j] = p
          BY <1>5 DEF Listed
        <4> QED BY <1>1, <1>2, <1>4, <3>2, <4>1
      <3> QED BY <1>1, <1>2, <3>1, <3>2
    <2> QED BY <2>1, <2>3, <2>4 DEF Tables
  <1>8. Forks'
    <2>1. \A d \in Pid : phase'[d] \in Starting <=> (phase[d] \in Starting \/ d = c)
      BY <1>0, <1>3 DEF Starting
    <2>2. \A d \in Pid : phase[d] \in Starting => parent[d] # p
      BY <1>0 DEF GroupsInv, Forks
    <2>3. 1 # c
      BY <1>1, <1>5 DEF Listed, GroupsInv, GroupTypes
    <2>4. phase'[1] \notin Starting
      BY <2>1, <2>3, GroupsConstants DEF GroupsInv, Forks
    <2>5. ASSUME NEW d \in Pid, phase'[d] \in Starting
          PROVE  /\ parent'[d] \in Pid /\ phase'[parent'[d]] = "forking"
                 /\ \A x \in Pid : phase'[x] \in Starting /\ parent'[x] = parent'[d] => x = d
      <3>1. CASE d = c
        BY <1>3, <1>4, <2>1, <2>2, <3>1
      <3>2. CASE d # c
        <4>1. phase[d] \in Starting /\ parent[d] \in Pid /\ phase[parent[d]] = "forking"
          BY <2>1, <2>5, <3>2 DEF GroupsInv, Forks
        <4>2. parent'[d] = parent[d] /\ parent[d] \notin {p, c}
          BY <1>0, <1>4, <3>2, <4>1
        <4>3. \A x \in Pid : phase'[x] \in Starting /\ parent'[x] = parent'[d] => x = d
          BY <1>4, <2>1, <4>1, <4>2 DEF GroupsInv, Forks
        <4> QED BY <1>3, <4>1, <4>2, <4>3
      <3> QED BY <3>1, <3>2
    <2>6. ASSUME NEW q \in Pid, phase'[q] = "forking"
          PROVE  \E d \in Pid : parent'[d] = q /\ phase'[d] \in Starting
      <3>1. CASE q = p
        BY <1>4, <2>1, <3>1
      <3>2. CASE q # p
        <4>1. phase[q] = "forking"
          BY <1>3, <2>6, <3>2
        <4>2. PICK d \in Pid : parent[d] = q /\ phase[d] \in Starting
          BY <4>1 DEF GroupsInv, Forks
        <4>3. d # c
          BY <1>0, <4>2 DEF Starting
        <4> QED BY <1>4, <2>1, <4>2, <4>3
      <3> QED BY <3>1, <3>2
    <2> QED BY <2>4, <2>5, <2>6 DEF Forks
  <1>9. Walk'
    BY <1>0, <1>1, <1>2, <1>3 DEF GroupsInv, Walk
  <1>10. Reached'
    <2> SUFFICES ASSUME kill # NoKill, kill.to # -1, NEW q \in due PROVE Due(q)'
      BY <1>0 DEF Reached
    <2>1. Due(q) /\ kill.pos \in 1..(Len(table) + 1)
      BY DEF GroupsInv, Reached, Walk
    <2>2. q # c /\ q \in Pid
      BY <1>0, <2>1 DEF Due
    <2>3. \A x \in Pid : Walked(x)' => Walked(x)
      BY <1>0, <1>1, <1>2, <2>1 DEF Walked
    <2>4. phase'[q] \in {"run", "forking"} => phase[q] \in {"run", "forking"}
      BY <1>0, <1>3, <2>2
    <2>5. phase'[q] = "copying" => phase[q] = "copying" /\ parent[q] \in Pid
                                   /\ parent'[q] = parent[q]
      BY <1>3, <1>4, <2>2 DEF GroupsInv, Forks, Starting
    <2>6. phase'[q] # "none"
      BY <1>3, <2>1, <2>2 DEF Due
    <2> QED BY <1>0, <2>1, <2>2, <2>3, <2>4, <2>5, <2>6 DEF Due
  <1> QED BY <1>6, <1>7, <1>8, <1>9, <1>10 DEF GroupsInv

\* The set-up of a child goes on.
LEMMA SetupGoesOn ==
    ASSUME GroupsInv, NEW c \in Pid, phase[c] \in Starting, NEW s \in Starting,
           phase' = [phase EXCEPT ![c] = s], UNCHANGED <<table, parent>>
    PROVE  /\ phase' \in [Pid -> Phases] /\ Tables' /\ Forks'
           /\ \A q \in Pid : q # c => phase'[q] = phase[q]
           /\ phase'[c] = s
  <1>1. /\ phase' \in [Pid -> Phases] /\ phase'[c] = s
        /\ \A q \in Pid : q # c => phase'[q] = phase[q]
    BY DEF GroupsInv, GroupTypes, Phases
  <1>2. \A q \in Pid : /\ phase'[q] \in Starting <=> phase[q] \in Starting
                       /\ phase'[q] = "none" <=> phase[q] = "none"
                       /\ phase'[q] = "forking" <=> phase[q] = "forking"
    BY <1>1 DEF Starting
  <1>3. \A q : Listed(q)' <=> Listed(q)
    BY DEF Listed
  <1>4. Tables'
    BY <1>2, <1>3 DEF GroupsInv, Tables
  <1>5. Forks'
    BY <1>2, GroupsConstants DEF GroupsInv, Forks
  <1> QED BY <1>1, <1>4, <1>5

\* A killer is not forking, nor being forked.
LEMMA KillerRuns ==
    ASSUME GroupsInv, kill # NoKill
    PROVE  kill.by \in Pid /\ phase[kill.by] = "run"
  BY DEF GroupsInv, Walk

LEMMA SetupSignalStep ==
    ASSUME GroupsInv, NEW c \in Pid, SetupSignal(c)
    PROVE  GroupsInv'
  <1>0. /\ phase[c] = "setup" /\ signalled' = signalled \ {c}
        /\ phase' = [phase EXCEPT ![c] = "lost"]
        /\ UNCHANGED <<table, parent, group, kill, due, got>>
    BY DEF SetupSignal
  <1>1. /\ phase' \in [Pid -> Phases] /\ Tables' /\ Forks' /\ phase'[c] = "lost"
        /\ \A q \in Pid : q # c => phase'[q] = phase[q]
    BY <1>0, SetupGoesOn DEF Starting
  <1>2. GroupTypes'
    BY <1>0, <1>1 DEF GroupsInv, GroupTypes
  <1>3. Walk'
    BY <1>0, <1>1, KillerRuns DEF GroupsInv, Walk
  <1>4. Reached'
    <2> SUFFICES ASSUME kill # NoKill, kill.to # -1, NEW q \in due PROVE Due(q)'
      BY <1>0 DEF Reached
    <2>1. Due(q) /\ q \in Pid
      BY DEF GroupsInv, Reached, Due
    <2>2. \A x : Walked(x)' <=> Walked(x)
      BY <1>0 DEF Walked
    <2>3. phase[q] = "copying" => parent[q] # c
      BY <1>0, <2>1 DEF GroupsInv, Forks, Starting
    <2>4. q = c \/ phase'[q] = phase[q]
      BY <1>1, <2>1
    <2> QED BY <1>0, <1>1, <2>1, <2>2, <2>3, <2>4 DEF Due
  <1> QED BY <1>1, <1>2, <1>3, <1>4 DEF GroupsInv

\* The iterator passes parents before their children.
LEMMA ParentFirst ==
    ASSUME GroupsInv, NEW c \in Pid, c # 1, Walked(c)
    PROVE  Walked(parent[c])
  <1>1. PICK i \in DOMAIN table : i < kill.pos /\ table[i] = c
    BY DEF Walked
  <1>2. DOMAIN table \subseteq Nat /\ table[1] = 1 /\ i > 1 /\ kill.pos \in Nat
    BY <1>1 DEF GroupsInv, GroupTypes
  <1>3. PICK j \in DOMAIN table : j < i /\ table[j] = parent[table[i]]
    BY <1>2 DEF GroupsInv, Tables
  <1> QED BY <1>1, <1>2, <1>3 DEF Walked

LEMMA ForkCopyGroupStep ==
    ASSUME GroupsInv, NEW c \in Pid, ForkCopyGroup(c)
    PROVE  GroupsInv'
  <1>0. /\ phase[c] = "setup" /\ group' = [group EXCEPT ![c] = group[parent[c]]]
        /\ phase' = [phase EXCEPT ![c] = "copying"]
        /\ UNCHANGED <<table, parent, signalled, kill, got>>
    BY DEF ForkCopyGroup
  <1>1. /\ phase' \in [Pid -> Phases] /\ Tables' /\ Forks' /\ phase'[c] = "copying"
        /\ \A q \in Pid : q # c => phase'[q] = phase[q]
    BY <1>0, SetupGoesOn DEF Starting
  <1>2. parent[c] \in Pid /\ parent[c] # c /\ c # 1 /\ phase[parent[c]] = "forking"
    BY <1>0 DEF GroupsInv, Forks, Starting
  <1>3. /\ group' \in [Pid -> Pid \cup {0}] /\ group'[c] = group[parent[c]]
        /\ \A q \in Pid : q # c => group'[q] = group[q]
    BY <1>0, <1>2 DEF GroupsInv, GroupTypes
  <1>4. GroupTypes'
    BY <1>0, <1>1, <1>3 DEF GroupsInv, GroupTypes
  <1>5. Walk'
    BY <1>0, <1>1, KillerRuns DEF GroupsInv, Walk
  <1>6. Reached'
    <2> SUFFICES ASSUME kill # NoKill, kill.to # -1, NEW q \in due' PROVE Due(q)'
      BY <1>0 DEF Reached
    <2>1. due' = IF parent[c] \in due \ (got \ signalled) THEN due \cup {c} ELSE due \ {c}
      BY DEF ForkCopyGroup
    <2>2. \A x : Walked(x)' <=> Walked(x)
      BY <1>0 DEF Walked
    <2>3. CASE q # c
      <3>1. q \in due /\ Due(q) /\ q \in Pid
        BY <2>1, <2>3 DEF GroupsInv, Reached, Due
      <3>2. phase[q] = "copying" => parent[q] # c
        BY <1>0, <3>1 DEF GroupsInv, Forks, Starting
      <3>3. phase[q] = "copying" => parent[q] \in due'
        BY <2>1, <3>1, <3>2 DEF Due
      <3>4. phase'[q] = phase[q] /\ group'[q] = group[q]
        BY <1>1, <1>3, <2>3, <3>1
      <3> QED BY <1>0, <2>2, <3>1, <3>3, <3>4 DEF Due
    <2>4. CASE q = c
      <3>1. parent[c] \in due /\ (parent[c] \in got => parent[c] \in signalled)
            /\ parent[c] \in due'
        BY <2>1, <2>4
      <3>2. Due(parent[c])
        BY <3>1 DEF GroupsInv, Reached
      <3>3. Walked(parent[c]) => parent[c] \in signalled
        BY <1>2, <3>1, <3>2 DEF Due
      <3>4. group'[c] = -kill.to
        BY <1>3, <3>2 DEF Due
      <3> QED BY <1>0, <1>1, <1>2, <2>2, <2>4, <3>1, <3>3, <3>4 DEF Due
    <2> QED BY <2>3, <2>4
  <1> QED BY <1>1, <1>4, <1>5, <1>6 DEF GroupsInv

LEMMA ForkCopySignalsStep ==
    ASSUME GroupsInv, NEW c \in Pid, ForkCopySignals(c)
    PROVE  GroupsInv'
  <1> DEFINE p == parent[c]
  <1>0. /\ phase[c] = "copying" /\ phase' = [phase EXCEPT ![c] = "run", ![p] = "run"]
        /\ signalled' = Copied(c)
        /\ got' = IF c \in Copied(c) THEN got \cup {c} ELSE got \ {c}
        /\ UNCHANGED <<table, parent, group, kill, due>>
    BY DEF ForkCopySignals
  <1>1. p \in Pid /\ p # c /\ c # 1 /\ phase[p] = "forking"
        /\ \A d \in Pid : phase[d] \in Starting /\ parent[d] = p => d = c
    BY <1>0 DEF GroupsInv, Forks, Starting
  <1> HIDE DEF p
  <1>2. /\ phase' \in [Pid -> Phases] /\ phase'[c] = "run" /\ phase'[p] = "run"
        /\ \A q \in Pid : q \notin {p, c} => phase'[q] = phase[q]
    BY <1>0, <1>1 DEF GroupsInv, GroupTypes, Phases
  <1>3. /\ signalled' \subseteq Pid
        /\ \A q \in Pid : q # c => (q \in signalled' <=> q \in signalled)
        /\ \A q \in Pid : q # c => (q \in got' <=> q \in got)
        /\ p \in signalled => c \in got'
    BY <1>0 DEF GroupsInv, GroupTypes, Copied, p
  <1>4. GroupTypes'
    BY <1>0, <1>2, <1>3 DEF GroupsInv, GroupTypes
  <1>5. Tables'
    <2>1. \A q : Listed(q)' <=> Listed(q)
      BY <1>0 DEF Listed
    <2>2. \A q \in Pid : phase'[q] = "none" <=> phase[q] = "none"
      BY <1>0, <1>1, <1>2
    <2> QED BY <1>0, <2>1, <2>2 DEF GroupsInv, Tables
  <1>6. Forks'
    <2>1. \A d \in Pid : phase'[d] \in Starting <=> phase[d] \in Starting /\ d # c
      BY <1>1, <1>2 DEF Starting
    <2>2. \A d \in Pid : phase'[d] = "forking" <=> phase[d] = "forking" /\ d # p
      BY <1>0, <1>1, <1>2
    <2>3. \A d \in Pid : phase[d] \in Starting /\ d # c => parent[d] # p
      BY <1>1
    <2>4. phase'[1] \notin Starting
      BY <2>1, GroupsConstants DEF GroupsInv, Forks
    <2>5. ASSUME NEW d \in Pid, phase'[d] \in Starting
          PROVE  /\ parent'[d] \in Pid /\ phase'[parent'[d]] = "forking"
                 /\ \A x \in Pid : phase'[x] \in Starting /\ parent'[x] = parent'[d] => x = d
      BY <1>0, <2>1, <2>2, <2>3, <2>5 DEF GroupsInv, Forks
    <2>6. ASSUME NEW q \in Pid, phase'[q] = "forking"
          PROVE  \E d \in Pid : parent'[d] = q /\ phase'[d] \in Starting
      <3>1. phase[q] = "forking" /\ q # p
        BY <2>2, <2>6
      <3>2. PICK d \in Pid : parent[d] = q /\ phase[d] \in Starting
        BY <3>1 DEF GroupsInv, Forks
      <3>3. d # c
        BY <3>1, <3>2 DEF p
      <3> QED BY <1>0, <2>1, <3>2, <3>3
    <2> QED BY <2>4, <2>5, <2>6 DEF Forks
  <1>7. Walk'
    BY <1>0, <1>1, <1>2, KillerRuns DEF GroupsInv, Walk
  <1>8. Reached'
    <2> SUFFICES ASSUME kill # NoKill, kill.to # -1, NEW q \in due PROVE Due(q)'
      BY <1>0 DEF Reached
    <2>1. Due(q) /\ q \in Pid
      BY DEF GroupsInv, Reached, Due
    <2>2. \A x : Walked(x)' <=> Walked(x)
      BY <1>0 DEF Walked
    <2>3. CASE q = c
      <3>1. Walked(c) => p \in signalled
        BY <1>0, <1>1, <2>1, <2>3, ParentFirst DEF Due, p
      <3> QED BY <1>0, <1>2, <1>3, <2>1, <2>2, <2>3, <3>1 DEF Due
    <2>4. CASE q = p
      BY <1>0, <1>1, <1>2, <1>3, <2>1, <2>2, <2>4 DEF Due
    <2>5. CASE q \notin {c, p}
      <3>1. phase[q] = "copying" => parent[q] \in Pid /\ parent[q] # c
        BY <1>0, <2>1 DEF GroupsInv, Forks, Starting
      <3>2. phase'[q] = phase[q]
        BY <1>2, <2>1, <2>5
      <3> QED BY <1>0, <1>3, <2>1, <2>2, <2>5, <3>1, <3>2 DEF Due
    <2> QED BY <2>3, <2>4, <2>5
  <1> QED BY <1>4, <1>5, <1>6, <1>7, <1>8 DEF GroupsInv

\* A process changes its group: it and its child are not due any more.
LEMMA LeavesStep ==
    ASSUME GroupsInv, NEW p \in Pid, NEW g \in Pid \cup {0},
           group' = [group EXCEPT ![p] = g], Leaves(p, g),
           UNCHANGED <<table, phase, parent, signalled, kill, got>>
    PROVE  GroupsInv'
  <1>1. /\ group' \in [Pid -> Pid \cup {0}] /\ group'[p] = g
        /\ \A q \in Pid : q # p => group'[q] = group[q]
    BY DEF GroupsInv, GroupTypes
  <1>2. GroupTypes' /\ Tables' /\ Forks' /\ Walk'
    BY <1>1, SameTables DEF GroupsInv, GroupTypes, Walk
  <1>3. Reached'
    <2> SUFFICES ASSUME kill # NoKill, kill.to # -1, NEW q \in due' PROVE Due(q)'
      BY DEF Reached
    <2>1. \A x : Walked(x)' <=> Walked(x)
      BY DEF Walked
    <2>2. q \in due /\ Due(q) /\ q \in Pid
      BY DEF GroupsInv, Reached, Due, Leaves
    <2>3. group'[q] = group[q]
      BY <1>1, <2>2 DEF Leaves
    <2>4. phase[q] = "copying" => parent[q] \in due'
      <3> SUFFICES ASSUME phase[q] = "copying" PROVE parent[q] \in due'
        OBVIOUS
      <3>1. parent[q] \in due /\ parent[q] \in Pid /\ phase[parent[q]] = "forking"
        BY <2>2 DEF Due, GroupsInv, Forks, Starting
      <3>2. parent[q] = p => g = group[p]
        BY <2>2 DEF Leaves
      <3> QED BY <3>1, <3>2 DEF Leaves
    <2> QED BY <2>1, <2>2, <2>3, <2>4 DEF Due
  <1> QED BY <1>2, <1>3 DEF GroupsInv

LEMMA PgidStep ==
    ASSUME GroupsInv, NEW p \in Pid,
           \/ \E pid \in Pid, g \in Group \cup {0} : Getpgid(p, pid, g)
           \/ Setpgid(p)
    PROVE  GroupsInv'
  <1>1. ASSUME NEW pid \in Pid, NEW pgid \in Group \cup {0}, Getpgid(p, pid, pgid)
        PROVE  GroupsInv'
    <2> DEFINE g == IF pgid = 0 THEN group[pid] ELSE pgid
    <2>1. g \in Pid \cup {0}
      BY GroupsConstants DEF GroupsInv, GroupTypes
    <2>2. group' = [group EXCEPT ![pid] = g] /\ Leaves(pid, g)
          /\ UNCHANGED <<table, phase, parent, signalled, kill, got>>
      BY <1>1 DEF Getpgid
    <2> HIDE DEF g
    <2> QED BY <2>1, <2>2, LeavesStep
  <1>2. CASE Setpgid(p)
    BY <1>2, LeavesStep DEF Setpgid
  <1> QED BY <1>1, <1>2

\* Signals that are added, and one that its process handles.
LEMMA SignalStep ==
    ASSUME GroupsInv, NEW p \in Pid,
           Receive(p) \/ \E pid \in Pid : KillOne(p, pid)
    PROVE  GroupsInv'
  <1>1. /\ signalled' \subseteq Pid /\ signalled \ {p} \subseteq signalled'
        /\ phase[p] = "run"
        /\ UNCHANGED <<table, phase, parent, group, kill, due, got>>
    BY DEF Receive, KillOne, Calls, GroupsInv, GroupTypes
  <1>2. GroupTypes' /\ Tables' /\ Forks' /\ Walk'
    BY <1>1, SameTables DEF GroupsInv, GroupTypes, Walk
  <1>3. Reached'
    <2> SUFFICES ASSUME kill # NoKill, kill.to # -1, NEW q \in due PROVE Due(q)'
      BY <1>1 DEF Reached
    <2>1. \A x : Walked(x)' <=> Walked(x)
      BY <1>1 DEF Walked
    <2>2. Due(q) /\ q \in Pid
      BY DEF GroupsInv, Reached, Due
    <2>3. phase[q] = "copying" => parent[q] # p
      BY <1>1, <2>2 DEF GroupsInv, Forks, Starting
    <2> QED BY <1>1, <2>1, <2>2, <2>3 DEF Due
  <1> QED BY <1>2, <1>3 DEF GroupsInv

LEMMA KillManyStep ==
    ASSUME GroupsInv, NEW p \in Pid, NEW pid \in Int, KillMany(p, pid)
    PROVE  GroupsInv'
  <1>0. /\ phase[p] = "run" /\ UNCHANGED <<table, phase, parent, group, signalled>>
        /\ kill' = [by |-> p, to |-> IF pid = 0 THEN -p ELSE pid, pos |-> 1]
        /\ due' = {q \in Members(kill') : phase[q] = "copying" =>
                      kill'.to = -1 \/ parent[q] \in Members(kill')}
    BY DEF KillMany, Calls
  <1>1. kill' \in [by : Pid \cup {0}, to : Int, pos : Nat]
        /\ kill'.by = p /\ kill'.pos = 1
    <2>1. (IF pid = 0 THEN -p ELSE pid) \in Int
      BY GroupsConstants
    <2> QED BY <1>0, <2>1
  <1>2. GroupTypes' /\ Tables' /\ Forks' /\ Walk'
    BY <1>0, <1>1, SameTables DEF GroupsInv, GroupTypes, Walk
  <1>3. Reached'
    <2> SUFFICES ASSUME kill'.to # -1, NEW q \in due' PROVE Due(q)'
      BY DEF Reached
    <2>1. \A x : ~Walked(x)'
      BY <1>0, <1>1 DEF Walked, GroupsInv, GroupTypes
    <2>2. q \in Members(kill') /\ q \in Pid /\ q # 1 /\ group[q] = -kill'.to /\ Listed(q)
      BY <1>0 DEF Members, Listed
    <2>3. phase[q] # "none"
      BY <2>2 DEF GroupsInv, Tables
    <2>4. phase[q] = "copying" => parent[q] \in due'
      BY <1>0, <2>2 DEF GroupsInv, Forks, Starting
    <2> QED BY <1>0, <2>1, <2>2, <2>3, <2>4 DEF Due
  <1> QED BY <1>2, <1>3 DEF GroupsInv

LEMMA KillStepStep ==
    ASSUME GroupsInv, KillStep
    PROVE  GroupsInv'
  <1> DEFINE p == table[kill.pos]
  <1>0. /\ kill # NoKill /\ kill.pos <= Len(table)
        /\ kill' = [kill EXCEPT !.pos = @ + 1]
        /\ UNCHANGED <<table, phase, parent, group, due>>
        /\ IF Wanted(kill, p) THEN signalled' = Sent(kill, p) /\ got' = got \cup {p}
                              ELSE signalled' = signalled /\ got' = got
    BY DEF KillStep
  <1>1. /\ kill \in [by : Pid \cup {0}, to : Int, pos : Nat] /\ kill.pos \in 1..Len(table)
        /\ table \in Seq(Pid) /\ DOMAIN table = 1..Len(table) /\ Len(table) \in Nat
        /\ kill.by \in Pid /\ phase[kill.by] = "run"
    BY <1>0 DEF GroupsInv, GroupTypes, Walk
  <1>2. p \in Pid
    BY <1>1
  <1>3. /\ kill' \in [by : Pid \cup {0}, to : Int, pos : Nat]
        /\ kill'.by = kill.by /\ kill'.to = kill.to /\ kill'.pos = kill.pos + 1
    BY <1>0, <1>1
  <1>4. \A x : Walked(x)' <=> (Walked(x) \/ x = p)
    BY <1>0, <1>1, <1>3 DEF Walked
  <1> HIDE DEF p
  <1>5. /\ signalled' \subseteq Pid /\ signalled \subseteq signalled' /\ got \subseteq got'
        /\ Wanted(kill, p) => p \in got' /\ (p # kill.by => p \in signalled')
    BY <1>0, <1>2 DEF Sent, GroupsInv, GroupTypes
  <1>6. GroupTypes' /\ Tables' /\ Forks' /\ Walk'
    BY <1>0, <1>1, <1>3, <1>5, SameTables DEF GroupsInv, GroupTypes, Walk
  <1>7. Reached'
    <2> SUFFICES ASSUME kill.to # -1, NEW q \in due PROVE Due(q)'
      BY <1>0, <1>3 DEF Reached
    <2>1. Due(q) /\ q \in Pid
      BY <1>0 DEF GroupsInv, Reached, Due
    <2>2. p \in due => Wanted(kill, p)
      BY <1>0 DEF GroupsInv, Reached, Due, Wanted
    <2>3. p = q => q \in got'
      BY <1>5, <2>2
    <2>4. phase[q] = "copying" =>
              /\ parent[q] \in due /\ parent[q] # kill.by
              /\ p = parent[q] => parent[q] \in signalled'
      <3> SUFFICES ASSUME phase[q] = "copying"
                   PROVE  /\ parent[q] \in due /\ parent[q] # kill.by
                          /\ p = parent[q] => parent[q] \in signalled'
        OBVIOUS
      <3>1. parent[q] \in due /\ phase[parent[q]] = "forking"
        BY <2>1 DEF Due, GroupsInv, Forks, Starting
      <3>2. parent[q] # kill.by
        BY <1>1, <3>1
      <3> QED BY <1>5, <2>2, <3>1, <3>2
    <2> QED BY <1>0, <1>3, <1>4, <1>5, <2>1, <2>3, <2>4 DEF Due
  <1> QED BY <1>6, <1>7 DEF GroupsInv

LEMMA KillEndStep ==
    ASSUME GroupsInv, KillEnd
    PROVE  GroupsInv'
  <1>1. kill' = NoKill /\ UNCHANGED <<table, phase, parent, group, signalled>>
    BY DEF KillEnd
  <1>2. GroupTypes' /\ Tables' /\ Forks'
    BY <1>1, SameTables DEF GroupsInv, GroupTypes, NoKill
  <1> QED BY <1>1, <1>2 DEF GroupsInv, Walk, Reached

LEMMA GroupsInitInv == GroupsInit => GroupsInv
  <1> SUFFICES ASSUME GroupsInit PROVE GroupsInv
    OBVIOUS
  <1>1. /\ table = <<1>> /\ 1 \in Pid /\ kill = NoKill
        /\ phase = [p \in Pid |-> IF p = 1 THEN "run" ELSE "none"]
    BY GroupsConstants DEF GroupsInit
  <1>2. table \in Seq(Pid) /\ Len(table) = 1 /\ DOMAIN table = {1} /\ table[1] = 1
    BY <1>1
  <1>3. GroupTypes
    BY <1>1, <1>2 DEF GroupsInit, GroupTypes, NoKill, Phases
  <1>4. Tables
    BY <1>1, <1>2 DEF Tables, Listed
  <1>5. Forks
    BY <1>1 DEF Forks, Starting
  <1> QED BY <1>1, <1>3, <1>4, <1>5 DEF GroupsInv, Walk, Reached

LEMMA GroupsStepInv == GroupsInv /\ [GroupsNext]_gvars => GroupsInv'
  <1> SUFFICES ASSUME GroupsInv, [GroupsNext]_gvars PROVE GroupsInv'
    OBVIOUS
  <1>1. CASE UNCHANGED gvars
    <2>1. \A q : Listed(q)' <=> Listed(q)
      BY <1>1 DEF Listed, gvars
    <2>2. \A q : Walked(q)' <=> Walked(q)
      BY <1>1 DEF Walked, gvars
    <2>3. GroupTypes' /\ Tables' /\ Forks' /\ Walk'
      BY <1>1, <2>1 DEF gvars, GroupsInv, GroupTypes, Tables, Forks, Walk
    <2>4. Reached'
      BY <1>1, <2>2 DEF gvars, GroupsInv, Reached, Due
    <2> QED BY <2>3, <2>4 DEF GroupsInv
  <1>2. ASSUME NEW p \in Pid, NEW pid \in {-1, 0} \cup {-g : g \in Group}, KillMany(p, pid)
        PROVE  GroupsInv'
    <2>1. pid \in Int
      BY GroupsConstants
    <2> QED BY <1>2, <2>1, KillManyStep
  <1> QED
    BY <1>1, <1>2, ForkStep, SetupSignalStep, ForkCopyGroupStep, ForkCopySignalsStep,
       PgidStep, SignalStep, KillStepStep, KillEndStep DEF GroupsNext

LEMMA GroupsInvariant == GroupsSpec => []GroupsInv
  BY GroupsInitInv, GroupsStepInv, PTL DEF GroupsSpec

-----------------------------------------------------------------------------
\* The process table has each process once, and forks are in the order of
\* StartFork and ForkCopyOtherProcess.
THEOREM GroupsTypeCorrect == GroupsSpec => []GroupsTypeOK
  <1>1. GroupsInv => GroupsTypeOK
    <2> SUFFICES ASSUME GroupsInv PROVE GroupsTypeOK
      OBVIOUS
    <2> DEFINE R == {table[i] : i \in DOMAIN table}
    <2>1. /\ table \in Seq(Pid) /\ DOMAIN table = 1..Len(table) /\ Len(table) \in Nat
          /\ \A i \in DOMAIN table : table[i] \in Pid
      BY DEF GroupsInv, GroupTypes
    <2>2. R = {p \in Pid : phase[p] # "none"}
      BY <2>1 DEF GroupsInv, Tables, Listed
    <2>3. Cardinality(R) = Len(table)
      <3> DEFINE n == Len(table)
                 f == [i \in 1..n |-> table[i]]
      <3>1. \A i, j \in 1..n : f[i] = f[j] => i = j
        BY <2>1 DEF GroupsInv, Tables
      <3>2. f \in [1..n -> R] /\ \A r \in R : \E i \in 1..n : f[i] = r
        BY <2>1
      <3> HIDE DEF f, R, n
      <3>3. f \in Bijection(1..n, R)
        BY <3>1, <3>2 DEF Bijection, Injection, IsInjective, Surjection
      <3>4. ExistsBijection(1..n, R)
        BY <3>3 DEF ExistsBijection
      <3>5. n \in Nat
        BY <2>1 DEF n
      <3> QED BY <3>4, <3>5, FS_CountingElements DEF n
    <2>4. \A p \in Pid : phase[p] = "forking" <=>
              \E c \in Pid : parent[c] = p /\ phase[c] \in {"setup", "copying", "lost"}
      BY DEF GroupsInv, Forks, Starting
    <2>5. phase \in [Pid -> {"none", "setup", "copying", "run", "forking", "lost"}]
      BY DEF GroupsInv, GroupTypes, Phases, Starting
    <2> QED BY <2>2, <2>3, <2>4, <2>5 DEF GroupsInv, GroupTypes, GroupsTypeOK
  <1> QED BY <1>1, GroupsInvariant, PTL

\* For any number of processes, forking whenever they like, a kill of a group
\* reaches all that are due.
THEOREM GroupKillsReach == GroupsSpec => []GroupKillReaches
  <1>1. GroupsInv => GroupKillReaches
    <2> SUFFICES ASSUME GroupsInv, kill # NoKill, kill.to # -1, kill.pos > Len(table),
                        NEW p \in due, phase[p] \in {"run", "forking"}
                 PROVE  p \in got
      BY DEF GroupKillReaches
    <2>1. Due(p) /\ p \in Pid
      BY DEF GroupsInv, Reached, Due
    <2>2. PICK i \in DOMAIN table : table[i] = p
      BY <2>1 DEF GroupsInv, Tables, Listed, Due
    <2>3. i < kill.pos
      BY <2>2 DEF GroupsInv, GroupTypes
    <2> QED BY <2>1, <2>2, <2>3 DEF Due, Walked
  <1> QED BY <1>1, GroupsInvariant, PTL
=============================================================================
