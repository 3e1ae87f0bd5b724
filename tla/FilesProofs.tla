---------------------------- MODULE FilesProofs -----------------------------
(***************************************************************************)
(* Proofs about open files: the descriptor tables and the handles behind them *)
(* (Descriptors), for any size of table and number of handles, and the calls *)
(* on one handler (Handlers), for any lengths, offsets and directory sizes. *)
(***************************************************************************)
EXTENDS Descriptors, Handlers, FiniteSetTheorems, WellFoundedInduction, TLAPS

(* Descriptors                                                             *)

Entry == [end : {"none", "r", "w", "file"}, inherit : BOOLEAN]
Table == [Fd -> Entry]

\* The entries that name an end, and a stub whose handles are theirs and those
\* of the ends in l.
Ends(t, e) == {fd \in Fd : t[fd].end = e}
Counted(t, l, o) ==
    \A e \in End : o[e] = Cardinality(Ends(t, e)) + (IF e \in l THEN 1 ELSE 0)

DescInv == DescriptorsTypeOK /\ HandlesNamed

-----------------------------------------------------------------------------
\* Sets of descriptors are finite and no larger than the table.
LEMMA FdFinite ==
    ASSUME NEW S \in SUBSET Fd
    PROVE  IsFiniteSet(S) /\ Cardinality(S) \in 0..(MAX_OPEN_FILES + 1)
  <1>1. IsFiniteSet(Fd) /\ Cardinality(Fd) = MAX_OPEN_FILES + 1
    BY FS_Interval, DescriptorsConstants DEF Fd
  <1>2. IsFiniteSet(S) /\ Cardinality(S) <= Cardinality(Fd)
    BY <1>1, FS_Subset
  <1>3. Cardinality(S) \in Nat
    BY <1>2, FS_CardinalityType
  <1> QED BY <1>1, <1>2, <1>3, DescriptorsConstants

\* A set of numbers has a least one.
LEMMA Least ==
    ASSUME NEW S \in SUBSET Nat, S # {}
    PROVE  Min(S) \in S /\ \A y \in S : Min(S) <= y
  <1>1. PICK x \in S : \A y \in S : ~(<<y, x>> \in OpToRel(<, Nat))
    BY NatLessThanWellFounded, WFMin
  <1>2. \A y \in S : ~(y < x)
    BY <1>1 DEF OpToRel
  <1>3. \E z \in S : \A y \in S : z <= y
    BY <1>2
  <1> QED BY <1>3 DEF Min

\* FindFreeFD finds an entry of the array that is free, if there is one.
LEMMA FindsFree ==
    ASSUME NEW t, FindFreeFD(t) # -1
    PROVE  FindFreeFD(t) \in Fd /\ t[FindFreeFD(t)] = Free
  <1> DEFINE free == {fd \in 0..(MAX_OPEN_FILES - 1) : t[fd] = Free}
  <1>1. free # {} /\ FindFreeFD(t) = Min(free)
    BY DEF FindFreeFD
  <1>2. free \in SUBSET Nat
    BY DescriptorsConstants
  <1>3. Min(free) \in free
    BY <1>1, <1>2, Least
  <1> QED BY <1>1, <1>3, DescriptorsConstants DEF Fd

\* Storing a handler in an entry takes its end to the new one.
LEMMA StoreCounts ==
    ASSUME NEW t \in Table, NEW fd \in Fd, NEW h \in Entry, NEW e \in End
    PROVE  Cardinality(Ends([t EXCEPT ![fd] = h], e)) =
              Cardinality(Ends(t, e)) - (IF t[fd].end = e THEN 1 ELSE 0)
                                      + (IF h.end = e THEN 1 ELSE 0)
  <1> DEFINE S == Ends(t, e)
             R == S \ {fd}
  <1>1. IsFiniteSet(S) /\ Cardinality(S) \in Nat
    BY FdFinite DEF Ends
  <1>2. fd \in S <=> t[fd].end = e
    BY DEF Ends
  <1>3. /\ IsFiniteSet(R)
        /\ Cardinality(R) = IF fd \in S THEN Cardinality(S) - 1 ELSE Cardinality(S)
    BY <1>1, FS_RemoveElement
  <1>4. Cardinality(R \cup {fd}) = Cardinality(R) + 1
    BY <1>3, FS_AddElement
  <1>5. Ends([t EXCEPT ![fd] = h], e) = IF h.end = e THEN R \cup {fd} ELSE R
    BY DEF Ends, Table
  <1> HIDE DEF S, R
  <1>6. Cardinality(R) = Cardinality(S) - (IF t[fd].end = e THEN 1 ELSE 0)
    BY <1>1, <1>2, <1>3
  <1> QED BY <1>1, <1>4, <1>5, <1>6 DEF S

\* The invariant after a step that changes what one process has.
LEMMA OneProcess ==
    ASSUME DescInv, NEW p \in Proc, NEW t \in Table, NEW o, NEW l \in SUBSET End,
           DOMAIN o = End, o = [e \in End |-> o[e]],
           table' = [table EXCEPT ![p] = t],
           open' = [open EXCEPT ![p] = o],
           lost' = [lost EXCEPT ![p] = l],
           Counted(t, l, o),
           live' \in [Proc -> BOOLEAN], waits' \in [Proc -> {"none", "r", "w"}],
           bytes' \in 0..Cap,
           \A q \in Proc : ~live'[q] => table'[q] = Empty /\ waits'[q] = "none"
    PROVE  DescInv'
  <1>1. \A e \in End : o[e] \in 0..(MAX_OPEN_FILES + 2)
    <2> SUFFICES ASSUME NEW e \in End PROVE o[e] \in 0..(MAX_OPEN_FILES + 2)
      OBVIOUS
    <2>1. Cardinality(Ends(t, e)) \in 0..(MAX_OPEN_FILES + 1)
      BY FdFinite DEF Ends
    <2> QED BY <2>1, DescriptorsConstants DEF Counted
  <1>2. o \in [End -> 0..(MAX_OPEN_FILES + 2)]
    BY <1>1
  <1>3. DescriptorsTypeOK'
    BY <1>2 DEF DescInv, DescriptorsTypeOK, Table, Entry
  <1>4. HandlesNamed'
    <2> SUFFICES ASSUME NEW q \in Proc, NEW e \in End
                 PROVE  open'[q][e] = Cardinality({fd \in Fd : table'[q][fd].end = e})
                                      + (IF e \in lost'[q] THEN 1 ELSE 0)
      BY DEF HandlesNamed
    <2>1. CASE q = p
      <3>1. table'[q] = t /\ open'[q] = o /\ lost'[q] = l
        BY <2>1 DEF DescInv, DescriptorsTypeOK
      <3> QED BY <3>1 DEF Counted, Ends
    <2>2. CASE q # p
      <3>1. table'[q] = table[q] /\ open'[q] = open[q] /\ lost'[q] = lost[q]
        BY <2>2 DEF DescInv, DescriptorsTypeOK
      <3> QED BY <3>1 DEF DescInv, HandlesNamed
    <2> QED BY <2>1, <2>2
  <1> QED BY <1>3, <1>4 DEF DescInv

\* What is known of a process.
LEMMA Known ==
    ASSUME DescInv, NEW p \in Proc
    PROVE  /\ table[p] \in Table /\ lost[p] \in SUBSET End
           /\ open[p] \in [End -> Nat]
           /\ Counted(table[p], lost[p], open[p])
  <1>1. table[p] \in Table /\ lost[p] \in SUBSET End
    BY DEF DescInv, DescriptorsTypeOK, Table, Entry
  <1>2. open[p] \in [End -> Nat]
    BY DEF DescInv, DescriptorsTypeOK
  <1>3. Counted(table[p], lost[p], open[p])
    BY DEF DescInv, HandlesNamed, Counted, Ends
  <1> QED BY <1>1, <1>2, <1>3

\* An entry is given a new handler and its handle is counted: close, dup, dup2,
\* F_DUPFD, F_SETFD and open.
LEMMA StoreStep ==
    ASSUME DescInv, NEW p \in Proc, live[p], NEW fd \in Fd, NEW h \in Entry,
           table' = [table EXCEPT ![p] = [table[p] EXCEPT ![fd] = h]],
           open' = Swap(p, table[p][fd].end, h.end),
           UNCHANGED <<lost, live, bytes, waits>>
    PROVE  DescInv'
  <1> DEFINE t == [table[p] EXCEPT ![fd] = h]
             o == [e \in End |-> open[p][e]
                      - (IF table[p][fd].end = e THEN 1 ELSE 0)
                      + (IF h.end = e THEN 1 ELSE 0)]
  <1>1. t \in Table
    BY Known DEF Table
  <1>2. open' = [open EXCEPT ![p] = o]
    BY DEF Swap, DescInv, DescriptorsTypeOK
  <1>3. Counted(t, lost[p], o)
    <2> SUFFICES ASSUME NEW e \in End
                 PROVE  o[e] = Cardinality(Ends(t, e))
                               + (IF e \in lost[p] THEN 1 ELSE 0)
      BY DEF Counted
    <2>1. Cardinality(Ends(t, e)) =
              Cardinality(Ends(table[p], e))
                 - (IF table[p][fd].end = e THEN 1 ELSE 0)
                 + (IF h.end = e THEN 1 ELSE 0)
      BY Known, StoreCounts
    <2>2. open[p][e] = Cardinality(Ends(table[p], e))
                       + (IF e \in lost[p] THEN 1 ELSE 0)
      BY Known DEF Counted
    <2>3. Cardinality(Ends(table[p], e)) \in Nat
      BY FdFinite DEF Ends
    <2> HIDE DEF t
    <2> QED BY <2>1, <2>2, <2>3
  <1>4. lost' = [lost EXCEPT ![p] = lost[p]] /\ lost[p] \in SUBSET End
    BY Known DEF DescInv, DescriptorsTypeOK
  <1>5. /\ live' \in [Proc -> BOOLEAN] /\ waits' \in [Proc -> {"none", "r", "w"}]
        /\ bytes' \in 0..Cap
        /\ \A q \in Proc : ~live'[q] => table'[q] = Empty /\ waits'[q] = "none"
    BY DEF DescInv, DescriptorsTypeOK
  <1>6. table' = [table EXCEPT ![p] = t] /\ DOMAIN o = End /\ o = [e \in End |-> o[e]]
    OBVIOUS
  <1> HIDE DEF t, o
  <1> QED BY <1>1, <1>2, <1>3, <1>4, <1>5, <1>6, OneProcess

\* A handler's entry.
LEMMA EntryTypes ==
    /\ Free \in Entry /\ Free.end = "none"
    /\ \A end \in {"none", "r", "w", "file"} :
          /\ Handle(end) \in Entry /\ Handle(end).end = end
          /\ \A inherit \in BOOLEAN : /\ Flagged(end, inherit) \in Entry
                                      /\ Flagged(end, inherit).end = end
    /\ \A fd \in Fd, t \in Table : t[fd] \in Entry
                                   /\ t[fd].end \in {"none", "r", "w", "file"}
  BY DEF Entry, Free, Handle, Flagged, Table

\* open, close and the duplicating calls.
LEMMA OpenStep ==
    ASSUME DescInv, NEW p \in Proc, Open(p)
    PROVE  DescInv'
  <1> DEFINE fd == FindFreeFD(table[p])
  <1>1. fd \in Fd /\ table[p][fd] = Free /\ live[p]
    BY FindsFree DEF Open, Running
  <1>2. table' = [table EXCEPT ![p] = [table[p] EXCEPT ![fd] = Handle("file")]]
    BY DEF Open, DescInv, DescriptorsTypeOK
  <1>3. open' = Swap(p, "none", "file")
    BY DEF Open, Swap, End, DescInv, DescriptorsTypeOK
  <1>4. UNCHANGED <<lost, live, bytes, waits>>
    BY DEF Open
  <1> HIDE DEF fd
  <1> QED BY <1>1, <1>2, <1>3, <1>4, EntryTypes, StoreStep

LEMMA CloseStep ==
    ASSUME DescInv, NEW p \in Proc, NEW fd \in Fd, Close(p, fd)
    PROVE  DescInv'
  <1>1. table' = [table EXCEPT ![p] = [table[p] EXCEPT ![fd] = Free]] /\ live[p]
    BY DEF Close, DescInv, DescriptorsTypeOK, Running
  <1> QED BY <1>1, EntryTypes, StoreStep DEF Close

LEMMA Dup2Step ==
    ASSUME DescInv, NEW p \in Proc, NEW old \in Fd, NEW new \in Fd, Dup2(p, old, new)
    PROVE  DescInv'
  <1> DEFINE h == Handle(table[p][old].end)
  <1>1. table' = [table EXCEPT ![p] = [table[p] EXCEPT ![new] = h]] /\ live[p]
    BY DEF Dup2, DescInv, DescriptorsTypeOK, Running
  <1>2. h \in Entry /\ h.end = table[p][old].end
    BY Known, EntryTypes
  <1>3. open' = Swap(p, table[p][new].end, h.end)
    BY <1>2 DEF Dup2
  <1>4. UNCHANGED <<lost, live, bytes, waits>>
    BY DEF Dup2
  <1> HIDE DEF h
  <1> QED BY <1>1, <1>2, <1>3, <1>4, StoreStep

LEMMA DupStep ==
    ASSUME DescInv, NEW p \in Proc, NEW old \in Fd, Dup(p, old)
    PROVE  DescInv'
  BY FindsFree, Dup2Step DEF Dup

LEMMA DupfdStep ==
    ASSUME DescInv, NEW p \in Proc, NEW old \in Fd, NEW maxfd, FcntlDupfd(p, old, maxfd)
    PROVE  DescInv'
  <1> DEFINE new == FindFreeFD(table[p])
             h == Flagged(table[p][old].end, FALSE)
  <1>1. new \in Fd /\ table[p][new] = Free /\ live[p]
    BY FindsFree DEF FcntlDupfd, Running
  <1>2. h \in Entry /\ h.end = table[p][old].end
    BY Known, EntryTypes
  <1>3. table' = [table EXCEPT ![p] = [table[p] EXCEPT ![new] = h]]
    BY DEF FcntlDupfd, DescInv, DescriptorsTypeOK
  <1>4. open' = Swap(p, table[p][new].end, h.end)
    BY <1>1, <1>2, EntryTypes DEF FcntlDupfd
  <1>5. UNCHANGED <<lost, live, bytes, waits>>
    BY DEF FcntlDupfd
  <1> HIDE DEF new, h
  <1> QED BY <1>1, <1>2, <1>3, <1>4, <1>5, StoreStep

LEMMA SetfdStep ==
    ASSUME DescInv, NEW p \in Proc, NEW fd \in Fd, NEW flag \in 0..1,
           FcntlSetfd(p, fd, flag)
    PROVE  DescInv'
  <1> DEFINE h == Flagged(table[p][fd].end, flag = 0)
  <1>1. h \in Entry /\ h.end = table[p][fd].end
    BY Known, EntryTypes
  <1>2. table' = [table EXCEPT ![p] = [table[p] EXCEPT ![fd] = h]] /\ live[p]
    BY DEF FcntlSetfd, DescInv, DescriptorsTypeOK, Running
  <1>3. open' = Swap(p, table[p][fd].end, h.end)
    <2>1. open' = open /\ \A e \in End : open[p][e] \in Nat
      BY Known DEF FcntlSetfd
    <2>2. open = [q \in Proc |-> [e \in End |-> open[q][e]]]
      BY DEF DescInv, DescriptorsTypeOK
    <2>3. [e \in End |-> open[p][e] - (IF table[p][fd].end = e THEN 1 ELSE 0)
                                    + (IF h.end = e THEN 1 ELSE 0)] = open[p]
      BY <1>1, <2>1, <2>2
    <2> HIDE DEF h
    <2> QED BY <2>1, <2>2, <2>3 DEF Swap
  <1>4. UNCHANGED <<lost, live, bytes, waits>>
    BY DEF FcntlSetfd
  <1> HIDE DEF h
  <1> QED BY <1>1, <1>2, <1>3, <1>4, StoreStep

\* Storing one end of a new pipe, in an entry or where nobody finds it.
LEMMA PipeEnd ==
    ASSUME NEW t \in Table, NEW end \in End
    PROVE  LET fd == FindFreeFD(t)
               u == StoreHandler(t, fd, end)
           IN  /\ u \in Table
               /\ \A e \in End : Cardinality(Ends(u, e)) = Cardinality(Ends(t, e))
                      + (IF e = end /\ fd # -1 THEN 1 ELSE 0)
  <1> DEFINE fd == FindFreeFD(t)
             u == StoreHandler(t, fd, end)
  <1>0. \A e \in End : Cardinality(Ends(t, e)) \in Nat
    BY FdFinite DEF Ends
  <1>1. CASE fd = -1
    <2>1. u = t
      BY <1>1 DEF StoreHandler
    <2> QED BY <1>0, <1>1, <2>1
  <1>2. CASE fd # -1
    <2>1. fd \in Fd /\ t[fd] = Free
      BY <1>2, FindsFree
    <2>2. u = [t EXCEPT ![fd] = Handle(end)]
      BY <1>2 DEF StoreHandler
    <2>3. Handle(end) \in Entry /\ Handle(end).end = end
      BY EntryTypes DEF End
    <2>4. u \in Table
      BY <2>1, <2>2, <2>3 DEF Table
    <2> HIDE DEF fd, u
    <2>5. ASSUME NEW e \in End
          PROVE  Cardinality(Ends(u, e)) = Cardinality(Ends(t, e))
                      + (IF e = end /\ fd # -1 THEN 1 ELSE 0)
      <3>1. Cardinality(Ends(u, e)) =
                Cardinality(Ends(t, e)) - (IF t[fd].end = e THEN 1 ELSE 0)
                   + (IF Handle(end).end = e THEN 1 ELSE 0)
        BY <2>1, <2>2, <2>3, StoreCounts
      <3>2. t[fd].end # e
        BY <2>1, EntryTypes DEF End
      <3> QED BY <1>0, <1>2, <2>3, <3>1, <3>2
    <2> QED BY <2>4, <2>5 DEF u, fd
  <1> QED BY <1>1, <1>2

LEMMA PipeStep ==
    ASSUME DescInv, NEW p \in Proc, Pipe(p)
    PROVE  DescInv'
  <1> DEFINE fd0 == FindFreeFD(table[p])
             t0 == StoreHandler(table[p], fd0, "r")
             fd1 == FindFreeFD(t0)
             t1 == StoreHandler(t0, fd1, "w")
             l == lost[p] \union (IF fd0 = -1 THEN {"r"} ELSE {})
                          \union (IF fd1 = -1 THEN {"w"} ELSE {})
             o == [e \in End |-> 1]
  <1>1. /\ table' = [table EXCEPT ![p] = t1] /\ lost' = [lost EXCEPT ![p] = l]
        /\ open' = [open EXCEPT ![p] = o] /\ bytes' = 0 /\ UNCHANGED <<live, waits>>
        /\ live[p]
    BY DEF Pipe, Running, DescInv, DescriptorsTypeOK
  <1>2. t0 \in Table /\ \A e \in End : Cardinality(Ends(t0, e)) =
            Cardinality(Ends(table[p], e)) + (IF e = "r" /\ fd0 # -1 THEN 1 ELSE 0)
    BY Known, PipeEnd DEF End
  <1>3. t1 \in Table /\ \A e \in End : Cardinality(Ends(t1, e)) =
            Cardinality(Ends(t0, e)) + (IF e = "w" /\ fd1 # -1 THEN 1 ELSE 0)
    BY <1>2, PipeEnd DEF End
  <1>4. \A e \in End : Cardinality(Ends(table[p], e)) = 0 /\ e \notin lost[p]
    <2> SUFFICES ASSUME NEW e \in End
                 PROVE  Cardinality(Ends(table[p], e)) = 0 /\ e \notin lost[p]
      OBVIOUS
    <2>1. ~(open[p][e] > 0) /\ open[p][e] \in Nat
      BY Known DEF Pipe, Held, End
    <2>2. open[p][e] = Cardinality(Ends(table[p], e))
                       + (IF e \in lost[p] THEN 1 ELSE 0)
      BY Known DEF Counted
    <2>3. Cardinality(Ends(table[p], e)) \in Nat
      BY FdFinite DEF Ends
    <2> QED BY <2>1, <2>2, <2>3
  <1>5. l \in SUBSET End
    BY Known DEF End
  <1>6. "r" \in l <=> fd0 = -1
    BY <1>4 DEF End
  <1>7. "w" \in l <=> fd1 = -1
    BY <1>4 DEF End
  <1> HIDE DEF fd0, fd1, t0, t1, l
  <1>8. Counted(t1, l, o)
    BY <1>2, <1>3, <1>4, <1>6, <1>7 DEF Counted, End
  <1>9. /\ live' \in [Proc -> BOOLEAN] /\ waits' \in [Proc -> {"none", "r", "w"}]
        /\ bytes' \in 0..Cap
        /\ \A q \in Proc : ~live'[q] => table'[q] = Empty /\ waits'[q] = "none"
    BY <1>1, DescriptorsConstants DEF DescInv, DescriptorsTypeOK
  <1>10. DOMAIN o = End /\ o = [e \in End |-> o[e]]
    OBVIOUS
  <1> HIDE DEF o
  <1> QED BY <1>1, <1>3, <1>5, <1>8, <1>9, <1>10, OneProcess

\* fork duplicates every entry of the array, and with it its handle.
LEMMA ForkStep ==
    ASSUME DescInv, Fork
    PROVE  DescInv'
  <1> DEFINE t == [fd \in Fd |->
                     IF fd = MAX_OPEN_FILES \/ table[Parent][fd] = Free THEN Free
                     ELSE Handle(table[Parent][fd].end)]
             o == [e \in End |-> Cardinality({fd \in Fd \ {MAX_OPEN_FILES} :
                                                table[Parent][fd].end = e})]
  <1>0. Parent \in Proc /\ Child \in Proc /\ table[Parent] \in Table
    BY Known DEF Proc
  <1>1. /\ table' = [table EXCEPT ![Child] = t] /\ open' = [open EXCEPT ![Child] = o]
        /\ lost' = [lost EXCEPT ![Child] = {}]
        /\ live' = [live EXCEPT ![Child] = TRUE] /\ UNCHANGED <<bytes, waits>>
    BY DEF Fork
  <1>2. t \in Table
    BY <1>0, EntryTypes DEF Table
  <1>3. \A e \in End : Ends(t, e) = {fd \in Fd \ {MAX_OPEN_FILES} :
                                        table[Parent][fd].end = e}
    <2> SUFFICES ASSUME NEW e \in End, NEW fd \in Fd
                 PROVE  t[fd].end = e <=> fd # MAX_OPEN_FILES /\ table[Parent][fd].end = e
      BY DEF Ends
    <2>1. e # "none" /\ Free.end = "none"
      BY EntryTypes DEF End
    <2>2. Handle(table[Parent][fd].end).end = table[Parent][fd].end
      BY <1>0, EntryTypes
    <2> QED BY <2>1, <2>2
  <1>4. \A e \in End : Cardinality(Ends(t, e)) \in Nat
    <2> HIDE DEF t
    <2> QED BY FdFinite DEF Ends
  <1>5. Counted(t, {}, o)
    <2> HIDE DEF t
    <2> QED BY <1>3, <1>4 DEF Counted
  <1>6. /\ live' \in [Proc -> BOOLEAN] /\ waits' \in [Proc -> {"none", "r", "w"}]
        /\ bytes' \in 0..Cap
        /\ \A q \in Proc : ~live'[q] => table'[q] = Empty /\ waits'[q] = "none"
    BY <1>0, <1>1 DEF DescInv, DescriptorsTypeOK
  <1>7. DOMAIN o = End /\ o = [e \in End |-> o[e]]
    OBVIOUS
  <1> HIDE DEF t, o
  <1> QED BY <1>0, <1>1, <1>2, <1>5, <1>6, <1>7, OneProcess

\* exec clears entries and closes as many handles.
LEMMA ExecStep ==
    ASSUME DescInv, NEW p \in Proc, Exec(p)
    PROVE  DescInv'
  <1>0. PICK files \in SUBSET Fd : table' = [table EXCEPT ![p] = [fd \in Fd |->
            IF fd \in CloseOnExec(p, files) THEN Free ELSE table[p][fd]]]
    BY DEF Exec, DescInv, DescriptorsTypeOK
  <1> DEFINE t == [fd \in Fd |->
                     IF fd \in CloseOnExec(p, files) THEN Free ELSE table[p][fd]]
             gone(e) == {fd \in CloseOnExec(p, {}) : table[p][fd].end = e}
             o == [e \in End |-> open[p][e] - Cardinality(gone(e))]
  <1>1. /\ table' = [table EXCEPT ![p] = t] /\ open' = [open EXCEPT ![p] = o]
        /\ UNCHANGED <<lost, live, bytes, waits>> /\ live[p]
    BY <1>0 DEF Exec, Running, DescInv, DescriptorsTypeOK
  <1>2. t \in Table
    BY Known, EntryTypes DEF Table
  <1>3. ASSUME NEW e \in End
        PROVE  o[e] = Cardinality(Ends(t, e)) + (IF e \in lost[p] THEN 1 ELSE 0)
    <2> DEFINE S == Ends(table[p], e)
    <2>0. e # "none" /\ e # "file" /\ Free.end = "none"
      BY EntryTypes DEF End
    <2>1. gone(e) \subseteq S
      BY DescriptorsConstants DEF CloseOnExec, Ends, Fd
    <2>2. Ends(t, e) = S \ gone(e)
      <3> SUFFICES ASSUME NEW fd \in Fd
                   PROVE  t[fd].end = e <=>
                            table[p][fd].end = e /\ fd \notin CloseOnExec(p, {})
        BY DEF Ends
      <3>1. CASE fd \in CloseOnExec(p, files)
        <4>1. t[fd].end # e
          BY <2>0, <3>1
        <4>2. table[p][fd].end = e => fd \in CloseOnExec(p, {})
          BY <2>0, <3>1 DEF CloseOnExec
        <4> QED BY <4>1, <4>2
      <3>2. CASE fd \notin CloseOnExec(p, files)
        <4>1. fd \notin CloseOnExec(p, {})
          BY <3>2 DEF CloseOnExec
        <4> QED BY <3>2, <4>1
      <3> QED BY <3>1, <3>2
    <2>3. IsFiniteSet(S) /\ Cardinality(S) \in Nat
      BY FdFinite DEF Ends
    <2>4. S \cap gone(e) = gone(e)
      BY <2>1
    <2>5. gone(e) \in SUBSET Fd
      BY <2>1 DEF Ends
    <2>6. Cardinality(gone(e)) \in Nat
      BY <2>5, FdFinite
    <2> HIDE DEF gone, S, t
    <2>7. Cardinality(Ends(t, e)) = Cardinality(S) - Cardinality(gone(e))
      BY <2>2, <2>3, <2>4, FS_Difference
    <2>8. open[p][e] = Cardinality(S) + (IF e \in lost[p] THEN 1 ELSE 0)
      BY Known DEF Counted, S
    <2> QED BY <2>3, <2>6, <2>7, <2>8
  <1>4. Counted(t, lost[p], o)
    BY <1>3 DEF Counted
  <1>5. lost' = [lost EXCEPT ![p] = lost[p]] /\ lost[p] \in SUBSET End
    BY <1>1, Known DEF DescInv, DescriptorsTypeOK
  <1>6. /\ live' \in [Proc -> BOOLEAN] /\ waits' \in [Proc -> {"none", "r", "w"}]
        /\ bytes' \in 0..Cap
        /\ \A q \in Proc : ~live'[q] => table'[q] = Empty /\ waits'[q] = "none"
    BY <1>1 DEF DescInv, DescriptorsTypeOK
  <1>7. DOMAIN o = End /\ o = [e \in End |-> o[e]]
    OBVIOUS
  <1> HIDE DEF t, o
  <1> QED BY <1>1, <1>2, <1>4, <1>5, <1>6, <1>7, OneProcess

\* Win32 closes the handles of a stub that ends.
LEMMA ExitStep ==
    ASSUME DescInv, NEW p \in Proc, Exit(p)
    PROVE  DescInv'
  <1> DEFINE o == [e \in End |-> 0]
  <1>1. /\ table' = [table EXCEPT ![p] = Empty] /\ open' = [open EXCEPT ![p] = o]
        /\ lost' = [lost EXCEPT ![p] = {}]
    BY DEF Exit
  <1>2. Empty \in Table
    BY EntryTypes DEF Empty, Table
  <1>3. Counted(Empty, {}, o)
    <2>1. \A e \in End : Ends(Empty, e) = {}
      BY EntryTypes DEF Ends, Empty, End
    <2> QED BY <2>1, FS_EmptySet DEF Counted
  <1>4. /\ live' \in [Proc -> BOOLEAN] /\ waits' \in [Proc -> {"none", "r", "w"}]
        /\ bytes' \in 0..Cap
    BY DEF Exit, DescInv, DescriptorsTypeOK
  <1>5. \A q \in Proc : ~live'[q] => table'[q] = Empty /\ waits'[q] = "none"
    BY DEF Exit, DescInv, DescriptorsTypeOK
  <1>6. DOMAIN o = End /\ o = [e \in End |-> o[e]]
    OBVIOUS
  <1> HIDE DEF o
  <1> QED BY <1>1, <1>2, <1>3, <1>4, <1>5, <1>6, OneProcess

\* Reading and writing change no table.
LEMMA TransferStep ==
    ASSUME DescInv, NEW p \in Proc,
           EndTransfer(p) \/ \E fd \in Fd : StartTransfer(p, fd)
    PROVE  DescInv'
  <1>1. UNCHANGED <<table, open, lost, live>>
    BY DEF EndTransfer, StartTransfer
  <1>2. bytes' \in 0..Cap
    BY DescriptorsConstants
    DEF EndTransfer, StartTransfer, DescInv, DescriptorsTypeOK
  <1>3. waits' \in [Proc -> {"none", "r", "w"}]
    <2>1. CASE EndTransfer(p)
      BY <2>1 DEF EndTransfer, DescInv, DescriptorsTypeOK
    <2>2. ASSUME NEW fd \in Fd, StartTransfer(p, fd)
          PROVE  waits' \in [Proc -> {"none", "r", "w"}]
      <3>1. table[p][fd].end \in {"none", "r", "w"}
        BY <2>2, Known, EntryTypes DEF StartTransfer
      <3> QED BY <2>2, <3>1 DEF StartTransfer, DescInv, DescriptorsTypeOK
    <2> QED BY <2>1, <2>2
  <1>4. \A q \in Proc : ~live'[q] => table'[q] = Empty /\ waits'[q] = "none"
    BY <1>1 DEF EndTransfer, StartTransfer, Running, DescInv, DescriptorsTypeOK
  <1>5. DescriptorsTypeOK'
    BY <1>1, <1>2, <1>3, <1>4 DEF DescInv, DescriptorsTypeOK
  <1>6. HandlesNamed'
    BY <1>1 DEF DescInv, HandlesNamed
  <1> QED BY <1>5, <1>6 DEF DescInv

\* The first process has opened nothing.
LEMMA DescInit == DescriptorsInit => DescInv
  <1> SUFFICES ASSUME DescriptorsInit PROVE DescInv
    OBVIOUS
  <1>1. \A fd \in Fd : Empty[fd] \in Entry /\ Empty[fd].end = "none"
    BY EntryTypes DEF Empty
  <1>2. Empty \in Table
    BY <1>1 DEF Empty, Table
  <1>3. \A e \in End : {fd \in Fd : Empty[fd].end = e} = {}
    BY <1>1 DEF End
  <1>4. HandlesNamed
    <2>1. Cardinality({}) = 0
      BY FS_EmptySet
    <2>2. ASSUME NEW p \in Proc, NEW e \in End
          PROVE  /\ table[p] = Empty /\ open[p][e] = 0 /\ lost[p] = {}
      BY DEF DescriptorsInit
    <2> QED BY <1>3, <2>1, <2>2 DEF HandlesNamed
  <1>5. DescriptorsTypeOK
    BY <1>2, DescriptorsConstants
    DEF DescriptorsInit, DescriptorsTypeOK, Table, Entry
  <1> QED BY <1>4, <1>5 DEF DescInv

\* Every step keeps the invariant.
LEMMA DescNext == DescInv /\ [DescriptorsNext]_dvars => DescInv'
  <1> SUFFICES ASSUME DescInv, [DescriptorsNext]_dvars PROVE DescInv'
    OBVIOUS
  <1>1. CASE UNCHANGED dvars
    BY <1>1 DEF dvars, DescInv, DescriptorsTypeOK, HandlesNamed
  <1>2. CASE DescriptorsNext
    BY <1>2, OpenStep, PipeStep, ExecStep, ExitStep, TransferStep, CloseStep,
       DupStep, Dup2Step, DupfdStep, SetfdStep, ForkStep DEF DescriptorsNext
  <1> QED BY <1>1, <1>2

LEMMA DescInvariant == DescriptorsSpec => []DescInv
  BY DescInit, DescNext, PTL DEF DescriptorsSpec

-----------------------------------------------------------------------------
\* The tables, the handles and the waits of the processes keep their types.
THEOREM DescriptorsTypeCorrect == DescriptorsSpec => []DescriptorsTypeOK
  <1>1. DescInv => DescriptorsTypeOK
    BY DEF DescInv
  <1> QED BY <1>1, DescInvariant, PTL

\* Through any sequence of open, close, dup, dup2, fcntl, pipe, fork, exec and
\* exit, a stub holds one handle for each descriptor that names an end of the
\* pipe, and besides only what pipe() lost; for a table of any size.
THEOREM HandlesAreNamed == DescriptorsSpec => []HandlesNamed
  <1>1. DescInv => HandlesNamed
    BY DEF DescInv
  <1> QED BY <1>1, DescInvariant, PTL

-----------------------------------------------------------------------------
(* Handlers                                                                *)

Members == [open : BOOLEAN, nonblock : BOOLEAN, pos : -1..(MaxLen + 1),
            len : 0..MaxLen, find : 0..Entries, count : 0..(Entries + 1)]
Object == [pos : 0..MaxPos, bytes : 0..MaxLen, other : BOOLEAN]

\* How far FindNextFile has been called, by what the find has returned.
CountOfFind(m) ==
    /\ 0 < m.find /\ m.find < Entries => m.count = m.find - 1
    /\ m.find = Entries => m.count <= Entries

\* A listing under way has returned the entries it has passed.
Listing ==
    \A h \in Handler : /\ CountOfFind(hs[h])
                       /\ hs[h].find > 0 => listed[h] = hs[h].find

HandlersInv ==
    /\ HandlersTypeOK /\ Listing
    /\ ResultsHonest /\ ListsAll

-----------------------------------------------------------------------------
\* The smaller and the larger of two numbers.
LEMMA Pair ==
    ASSUME NEW a \in Int, NEW b \in Int
    PROVE  /\ Min({a, b}) = IF a <= b THEN a ELSE b
           /\ Max({a, b}) = IF a >= b THEN a ELSE b
  <1>1. Min({a, b}) = IF a <= b THEN a ELSE b
    BY DEF Min
  <1>2. Max({a, b}) = IF a >= b THEN a ELSE b
    BY DEF Max
  <1> QED BY <1>1, <1>2

\* The types, one by one.
LEMMA Types ==
    ASSUME HandlersTypeOK
    PROVE  /\ kind \in Class /\ hs \in [Handler -> Members] /\ obj \in Object
           /\ src \in 1..MaxLen /\ err \in Errors /\ dup \in BOOLEAN
           /\ listed \in [Handler -> 0..Entries]
           /\ obj.pos \in Nat /\ obj.bytes \in Nat
           /\ \A h \in Handler : hs[h].pos \in Int /\ hs[h].len \in Nat
  BY HandlersConstants DEF HandlersTypeOK, Members, Object

\* What ReadFile moves: something, if there is something.
LEMMA ReadFileMoves ==
    ASSUME HandlersTypeOK, NEW size \in Nat, ReadFile(size)
    PROVE  /\ obj' \in Object /\ obj'.other = obj.other /\ err' \in Errors
           /\ ReadCount \in 0..size
           /\ kind = "dir" => err' = "denied" /\ ReadCount = 0
           /\ kind = "file" /\ size > 0 /\ obj.pos < obj.bytes => ReadCount > 0
           /\ Piped /\ size > 0 /\ obj.bytes > 0 => ReadCount > 0
           /\ Piped /\ size > 0 /\ obj.bytes = 0 => ~obj.other
  <1>0. obj.pos \in 0..MaxPos /\ obj.bytes \in 0..MaxLen /\ obj.other \in BOOLEAN
    BY Types DEF Object
  <1>1. CASE kind = "dir"
    <2>1. ~Piped
      BY <1>1 DEF Piped
    <2> QED BY <1>0, <1>1, <2>1, Types DEF ReadFile, ReadCount, Errors
  <1>2. CASE Piped
    <2> DEFINE n == Min({size, obj.bytes})
    <2>1. n = IF size <= obj.bytes THEN size ELSE obj.bytes
      BY Pair, Types
    <2>2. kind \notin {"dir", "file"}
      BY <1>2 DEF Piped
    <2>3. obj' = [obj EXCEPT !.bytes = obj.bytes - n]
      BY <1>2, <2>2 DEF ReadFile
    <2>4. /\ err' \in Errors
          /\ size > 0 => obj.bytes > 0 \/ ~obj.other
      BY <1>2 DEF ReadFile, Errors
    <2> HIDE DEF n
    <2>5. n \in 0..size /\ obj.bytes - n \in 0..MaxLen
      BY <1>0, <2>1, HandlersConstants
    <2>6. obj' \in Object /\ obj'.other = obj.other /\ obj'.bytes = obj.bytes - n
      BY <2>3, <2>5, Types DEF Object
    <2>7. ReadCount = n
      BY <1>0, <1>2, <2>5, <2>6 DEF ReadCount
    <2> QED BY <1>0, <2>1, <2>2, <2>4, <2>5, <2>6, <2>7
  <1>3. CASE ~Piped /\ kind # "dir"
    <2> DEFINE m == Min({size, obj.bytes - obj.pos})
               n == Max({0, m})
    <2>1. m = IF size <= obj.bytes - obj.pos THEN size ELSE obj.bytes - obj.pos
      BY Pair, Types
    <2>2. m \in Int
      BY <1>0, <2>1
    <2> HIDE DEF m
    <2>3. n = IF 0 >= m THEN 0 ELSE m
      BY <2>2, Pair
    <2> USE DEF m
    <2>4. obj' = [obj EXCEPT !.pos = obj.pos + n] /\ err' \in Errors
      BY <1>3 DEF ReadFile, Errors
    <2> HIDE DEF m, n
    <2>5. n \in 0..size /\ obj.pos + n \in 0..MaxPos
      BY <1>0, <2>1, <2>3, HandlersConstants
    <2>6. obj' \in Object /\ obj'.other = obj.other /\ obj'.pos = obj.pos + n
      BY <2>4, <2>5, Types DEF Object
    <2>7. ReadCount = n
      BY <1>0, <1>3, <2>5, <2>6 DEF ReadCount
    <2> QED BY <1>0, <1>3, <2>1, <2>3, <2>4, <2>5, <2>6, <2>7
  <1> QED BY <1>1, <1>2, <1>3

\* An error number is not 0.
LEMMA Negative ==
    ASSUME NEW e \in Errors
    PROVE  /\ e = "ok" => ErrNo(e) = 0
           /\ e # "ok" => ErrNo(e) < 0 /\ ErrNo(e) \in Int
  BY DEF Errors, ErrNo

\* What a blocking read of some bytes gives, in each class.
ReadsRight(h, size, ok, n) ==
    /\ ok \in BOOLEAN /\ n \in 0..size
    /\ obj' \in Object /\ err' \in Errors /\ hs' \in [Handler -> Members]
    /\ \A g \in Handler : hs'[g].find = hs[g].find /\ hs'[g].count = hs[g].count
    /\ size > 0 /\ ~hs[h].nonblock =>
          /\ AtEnd(h) \/ IF ok THEN n > 0 ELSE err' # "ok"
          /\ CanRead(h) /\ kind \notin {"static", "dir"} => ok /\ n > 0

LEMMA ReadViaRight ==
    ASSUME HandlersTypeOK, NEW h \in Handler, NEW size \in Nat,
           NEW ok \in BOOLEAN, NEW n \in 0..size, kind # "writer",
           ReadVia(h, size, ok, n)
    PROVE  ReadsRight(h, size, ok, n)
  <1>0. /\ kind \in Class /\ hs \in [Handler -> Members] /\ obj \in Object
        /\ err \in Errors /\ src \in 1..MaxLen
        /\ obj.pos \in 0..MaxPos /\ obj.bytes \in 0..MaxLen
    BY Types DEF Object
  <1>1. CASE kind \in {"reader", "console"}
    <2>0. PipeRead(h, size, ok, n) /\ Piped /\ hs' = hs
      BY <1>1 DEF ReadVia, PipeRead, Piped
    <2>1. CASE hs[h].nonblock /\ obj.bytes < size
      <3>1. err' \in Errors
        BY <1>0, <2>0, <2>1 DEF PipeRead, PeekError, Errors
      <3> QED BY <1>0, <2>0, <2>1, <3>1 DEF PipeRead, ReadsRight
    <2>2. CASE ~(hs[h].nonblock /\ obj.bytes < size)
      <3>1. ReadFile(size) /\ n = ReadCount /\ ok = (n # 0 \/ err' = "broken")
        BY <2>0, <2>2 DEF PipeRead
      <3>2. AtEnd(h) <=> (obj.bytes = 0 /\ ~obj.other)
        BY <1>1, <2>0 DEF AtEnd
      <3>3. CanRead(h) <=> obj.bytes # 0
        BY <1>1, <2>0 DEF CanRead
      <3>4. /\ obj' \in Object /\ err' \in Errors
            /\ size > 0 /\ obj.bytes > 0 => n > 0
            /\ size > 0 /\ obj.bytes = 0 => ~obj.other
        BY <2>0, <3>1, ReadFileMoves
      <3>5. size > 0 => AtEnd(h) \/ n > 0
        BY <1>0, <3>2, <3>4
      <3>a. n # 0 => ok
        BY <3>1, Zenon
      <3>6. n > 0 => ok
        BY <3>a
      <3>7. size > 0 /\ CanRead(h) => n > 0
        BY <1>0, <3>3, <3>4
      <3> QED BY <1>0, <2>0, <3>4, <3>5, <3>6, <3>7 DEF ReadsRight
    <2> QED BY <2>1, <2>2
  <1>2. CASE kind \in {"file", "dir"}
    <2>1. ReadFile(size) /\ n = ReadCount /\ ok = (n # 0 \/ err' = "ok") /\ hs' = hs
      BY <1>2 DEF ReadVia, FileRead
    <2>2. kind = "file" => (AtEnd(h) <=> obj.pos >= obj.bytes)
      BY DEF AtEnd, Piped
    <2>3. kind = "file" => (CanRead(h) <=> obj.pos < obj.bytes)
      BY DEF CanRead, Piped
    <2>4. /\ obj' \in Object /\ err' \in Errors
          /\ kind = "dir" => err' = "denied" /\ n = 0
          /\ kind = "file" /\ size > 0 /\ obj.pos < obj.bytes => n > 0
      BY <2>1, ReadFileMoves
    <2>5. kind = "dir" => ~ok /\ err' # "ok"
      BY <2>1, <2>4
    <2>6. kind = "file" /\ size > 0 => AtEnd(h) \/ n > 0
      BY <1>0, <2>2, <2>4
    <2>a. n # 0 => ok
      BY <2>1, Zenon
    <2>7. n > 0 => ok
      BY <2>a
    <2>8. size > 0 => AtEnd(h) \/ IF ok THEN n > 0 ELSE err' # "ok"
      BY <1>2, <2>5, <2>6, <2>7
    <2>9. size > 0 /\ CanRead(h) /\ kind # "dir" => ok /\ n > 0
      BY <1>0, <1>2, <2>3, <2>4, <2>7
    <2>10. hs' = hs
      BY <2>1
    <2> QED BY <1>0, <2>4, <2>8, <2>9, <2>10 DEF ReadsRight
  <1>3. CASE kind \in {"null", "random"}
    BY <1>0, <1>3 DEF ReadVia, NullRead, ReadsRight
  <1>4. CASE kind = "static"
    <2> DEFINE m == Min({size, src - hs[h].pos})
    <2>0. hs[h] \in Members /\ hs[h].pos \in -1..(MaxLen + 1)
      BY <1>0 DEF Members
    <2>1. m = IF size <= src - hs[h].pos THEN size ELSE src - hs[h].pos
      BY <1>0, <2>0, Pair
    <2>2. m \in Int
      BY <1>0, <2>0, <2>1
    <2>a. n = Max({0, m})
      BY <1>4 DEF ReadVia, StaticRead
    <2> HIDE DEF m
    <2>3. n = IF 0 >= m THEN 0 ELSE m
      BY <2>2, <2>a, Pair
    <2>4. /\ ok /\ UNCHANGED <<obj, err>>
          /\ hs' = [hs EXCEPT ![h].len = src, ![h].pos = hs[h].pos + n]
      BY <1>4 DEF ReadVia, StaticRead
    <2>5. hs[h].pos + n \in -1..(MaxLen + 1) /\ src \in 0..MaxLen
      BY <1>0, <2>0, <2>1, <2>3, HandlersConstants
    <2>6. hs' \in [Handler -> Members]
      BY <1>0, <2>4, <2>5 DEF Members
    <2>7. \A g \in Handler : hs'[g].find = hs[g].find /\ hs'[g].count = hs[g].count
      BY <1>0, <2>4 DEF Members
    <2>8. AtEnd(h) <=> hs[h].pos >= src
      BY <1>4 DEF AtEnd, Piped
    <2>9. size > 0 => AtEnd(h) \/ n > 0
      BY <1>0, <2>0, <2>1, <2>3, <2>8
    <2> QED BY <1>0, <1>4, <2>4, <2>6, <2>7, <2>9 DEF ReadsRight
  <1> QED BY <1>0, <1>1, <1>2, <1>3, <1>4 DEF Class

-----------------------------------------------------------------------------
\* A step that returns nothing.
LEMMA Silent ==
    ASSUME call' = NoCall
    PROVE  ResultsHonest' /\ ListsAll'
  BY DEF NoCall, ResultsHonest, ZeroMeansEnd, ReadableReads, SigpipeDeserved, ListsAll

\* The invariant after a step that leaves the finds and the listings.
LEMMA SameListing ==
    ASSUME HandlersInv, UNCHANGED <<kind, listed>>,
           hs' \in [Handler -> Members], obj' \in Object, err' \in Errors,
           src' \in 1..MaxLen, dup' \in BOOLEAN,
           \A g \in Handler : hs'[g].find = hs[g].find /\ hs'[g].count = hs[g].count
    PROVE  HandlersTypeOK' /\ Listing'
  <1>1. HandlersTypeOK'
    BY DEF HandlersInv, HandlersTypeOK, Members, Object
  <1>2. Listing'
    BY DEF HandlersInv, Listing, CountOfFind
  <1> QED BY <1>1, <1>2

\* sys_read
LEMMA ReadStep ==
    ASSUME HandlersInv, NEW h \in Handler, NEW size \in Nat, Read(h, size)
    PROVE  HandlersInv'
  <1>0. HandlersTypeOK
    BY DEF HandlersInv
  <1>1. PICK ok \in BOOLEAN, n \in 0..size :
          /\ ReadVia(h, size, ok, n)
          /\ call' = [NoCall EXCEPT !.op = "read", !.size = size,
                           !.ret = IF ok THEN n ELSE ErrNo(err'),
                           !.end = AtEnd(h), !.ready = CanRead(h),
                           !.block = ~hs[h].nonblock]
    BY DEF Read
  <1>2. ReadsRight(h, size, ok, n)
    BY <1>0, <1>1, ReadViaRight DEF Read
  <1>3. HandlersTypeOK' /\ Listing'
    <2>1. /\ hs' \in [Handler -> Members] /\ obj' \in Object /\ err' \in Errors
          /\ \A g \in Handler : hs'[g].find = hs[g].find /\ hs'[g].count = hs[g].count
      BY <1>2 DEF ReadsRight
    <2>2. UNCHANGED <<kind, src, dup, listed>>
      BY DEF Read
    <2>3. src' \in 1..MaxLen /\ dup' \in BOOLEAN
      BY <1>0, <2>2, Types
    <2> QED BY <2>1, <2>2, <2>3, SameListing
  <1>4. /\ call'.op = "read" /\ call'.size = size /\ call'.sig = FALSE
        /\ call'.ret = IF ok THEN n ELSE ErrNo(err')
    BY <1>1 DEF NoCall
  <1>5. (call'.end <=> AtEnd(h)) /\ (call'.ready <=> CanRead(h))
        /\ (call'.block <=> ~hs[h].nonblock)
    BY <1>1 DEF NoCall
  <1>6. kind' = kind
    BY DEF Read
  <1>7. ASSUME size > 0, call'.block
        PROVE  /\ call'.ret = 0 => call'.end
               /\ call'.ready /\ kind \notin {"static", "dir"} => call'.ret > 0
    <2>1. /\ AtEnd(h) \/ IF ok THEN n > 0 ELSE err' # "ok"
          /\ CanRead(h) /\ kind \notin {"static", "dir"} => ok /\ n > 0
          /\ err' \in Errors
      BY <1>2, <1>5, <1>7 DEF ReadsRight
    <2>2. err' # "ok" => ErrNo(err') # 0
      BY <2>1, Negative
    <2>3. ~AtEnd(h) => call'.ret # 0
      BY <1>4, <2>1, <2>2
    <2>4. CanRead(h) /\ kind \notin {"static", "dir"} => call'.ret > 0
      BY <1>4, <2>1
    <2> QED BY <1>5, <2>3, <2>4
  <1>8. ResultsHonest' /\ ListsAll'
    BY <1>4, <1>6, <1>7
    DEF ResultsHonest, ZeroMeansEnd, ReadableReads, SigpipeDeserved, ListsAll
  <1> QED BY <1>3, <1>8 DEF HandlersInv

\* What each class's Write does.
LEMMA WritesRight ==
    ASSUME HandlersTypeOK, NEW size \in Nat, NEW n \in 0..size,
           \/ kind \in {"file", "writer"} /\ RemoteWrite(size, n)
           \/ kind \in {"null", "random"} /\ SwallowWrite(size, n)
           \/ kind = "console" /\ ConsoleWrite(size, n)
           \/ kind = "static" /\ RefuseWrite(n)
    PROVE  /\ obj' \in Object /\ err' \in Errors
           /\ kind \in {"file", "writer", "console"} /\ err' \in {"broken", "nodata"}
                 => Piped /\ ~obj'.other
  <1>0. /\ obj \in Object /\ err \in Errors
        /\ obj.pos \in 0..MaxPos /\ obj.bytes \in 0..MaxLen
    BY Types DEF Object
  <1>1. CASE kind \in {"null", "random", "static"}
    BY <1>0, <1>1 DEF SwallowWrite, RefuseWrite
  <1>2. CASE kind = "console"
    BY <1>0, <1>2 DEF ConsoleWrite, Errors, Piped
  <1>3. CASE kind \in {"file", "writer"}
    <2>0. WriteFile(size)
      BY <1>3 DEF RemoteWrite
    <2> DEFINE breaks == Piped /\ ~obj.other /\ size > 0
               m == Max({obj.bytes, obj.pos + size})
    <2>1. CASE breaks
      BY <1>0, <2>0, <2>1 DEF WriteFile, Errors
    <2>2. CASE ~breaks /\ Piped
      <3>1. obj.bytes + size <= MaxLen /\ err' = "ok"
        BY <1>0, <2>0, <2>2, HandlersConstants DEF WriteFile
      <3>2. obj' = [obj EXCEPT !.bytes = obj.bytes + size]
        BY <2>0, <2>2 DEF WriteFile
      <3>3. obj.bytes + size \in 0..MaxLen
        BY <1>0, <3>1, HandlersConstants
      <3> QED BY <1>0, <3>1, <3>2, <3>3 DEF Object, Errors
    <2>3. CASE ~breaks /\ ~Piped
      <3>1. obj.pos + size <= MaxLen /\ err' = "ok"
        BY <2>0, <2>3 DEF WriteFile
      <3>2. obj' = [obj EXCEPT !.pos = obj.pos + size, !.bytes = m]
        BY <2>0, <2>3 DEF WriteFile
      <3>3. obj.pos + size \in 0..MaxPos
        BY <1>0, <3>1, HandlersConstants
      <3>a. obj.bytes \in Int /\ obj.pos + size \in Int
        BY <1>0
      <3>4. m = IF obj.bytes >= obj.pos + size THEN obj.bytes ELSE obj.pos + size
        BY <3>a, Pair
      <3> HIDE DEF m
      <3>5. m \in 0..MaxLen
        BY <1>0, <3>1, <3>4, HandlersConstants
      <3> QED BY <1>0, <3>1, <3>2, <3>3, <3>5 DEF Object, Errors
    <2> QED BY <2>1, <2>2, <2>3
  <1> QED BY <1>1, <1>2, <1>3

\* sys_write
LEMMA WriteStep ==
    ASSUME HandlersInv, NEW h \in Handler, NEW size \in Nat, Write(h, size)
    PROVE  HandlersInv'
  <1>0. HandlersTypeOK
    BY DEF HandlersInv
  <1> DEFINE ok(n) == n # 0 \/ kind \in {"null", "random"}
  <1>1. PICK n \in 0..size :
          /\ \/ kind \in {"file", "writer"} /\ RemoteWrite(size, n)
             \/ kind \in {"null", "random"} /\ SwallowWrite(size, n)
             \/ kind = "console" /\ ConsoleWrite(size, n)
             \/ kind = "static" /\ RefuseWrite(n)
          /\ call' = [NoCall EXCEPT !.op = "write", !.size = size,
                              !.ret = IF ok(n) THEN n ELSE ErrNo(err'),
                              !.sig = ~ok(n) /\ err' \in {"broken", "nodata"}]
    BY DEF Write
  <1>2. /\ obj' \in Object /\ err' \in Errors
        /\ kind \in {"file", "writer", "console"} /\ err' \in {"broken", "nodata"}
                 => Piped /\ ~obj'.other
    BY <1>0, <1>1, WritesRight
  <1>3. UNCHANGED <<kind, hs, src, dup, listed>>
    BY DEF Write
  <1>4. HandlersTypeOK' /\ Listing'
    BY <1>0, <1>2, <1>3, Types, SameListing
  <1>5. call'.op = "write" /\ (call'.sig <=> ~ok(n) /\ err' \in {"broken", "nodata"})
    BY <1>1 DEF NoCall
  <1>6. call'.sig /\ kind' # "static" => Piped' /\ ~obj'.other
    <2>1. kind \in {"file", "writer", "console", "null", "random", "static"}
      BY <1>1
    <2>2. Piped' <=> Piped
      BY <1>3 DEF Piped
    <2> QED BY <1>2, <1>3, <1>5, <2>1, <2>2
  <1>7. ResultsHonest' /\ ListsAll'
    BY <1>5, <1>6 DEF ResultsHonest, ZeroMeansEnd, ReadableReads, SigpipeDeserved, ListsAll
  <1> QED BY <1>4, <1>7 DEF HandlersInv

\* sys_lseek
LEMMA LseekStep ==
    ASSUME HandlersInv, NEW h \in Handler, NEW from \in {"SET", "CUR", "END"},
           NEW offset \in Offsets, Lseek(h, from, offset)
    PROVE  HandlersInv'
  <1>0. /\ obj \in Object /\ err \in Errors /\ hs \in [Handler -> Members]
        /\ obj.pos \in 0..MaxPos /\ obj.bytes \in 0..MaxLen
        /\ src \in 1..MaxLen /\ dup \in BOOLEAN
    BY Types DEF HandlersInv, Object
  <1>1. UNCHANGED <<kind, src, dup, listed>>
    BY DEF Lseek
  <1>2. /\ obj' \in Object /\ err' \in Errors /\ hs' \in [Handler -> Members]
        /\ \A g \in Handler : hs'[g].find = hs[g].find /\ hs'[g].count = hs[g].count
    <2>1. CASE kind = "file"
      <3>0. FileSeek(from, offset)
        BY <2>1 DEF Lseek
      <3> DEFINE base == CASE from = "SET" -> 0 [] from = "CUR" -> obj.pos
                           [] from = "END" -> obj.bytes
      <3>1. /\ base + (offset % Dword) <= MaxPos /\ err' = "ok" /\ hs' = hs
            /\ obj' = [obj EXCEPT !.pos = base + (offset % Dword)]
        BY <3>0 DEF FileSeek
      <3>2. offset % Dword \in Nat
        BY HandlersConstants
      <3>3. base \in Nat
        BY <1>0
      <3> HIDE DEF base
      <3>4. base + (offset % Dword) \in 0..MaxPos
        BY <3>1, <3>2, <3>3, HandlersConstants
      <3> QED BY <1>0, <3>1, <3>4 DEF Object, Errors
    <2>2. CASE kind = "static"
      <3>0. StaticSeek(h, from, offset)
        BY <2>2 DEF Lseek
      <3>1. PICK to \in -1..(MaxLen + 1) : hs' = [hs EXCEPT ![h].pos = to]
        BY <3>0 DEF StaticSeek
      <3>2. UNCHANGED <<obj, err>>
        BY <3>0 DEF StaticSeek
      <3>3. /\ hs' \in [Handler -> Members]
            /\ \A g \in Handler : hs'[g].find = hs[g].find /\ hs'[g].count = hs[g].count
        BY <1>0, <3>1 DEF Members
      <3> QED BY <1>0, <3>2, <3>3
    <2>3. CASE kind \notin {"file", "static"}
      BY <1>0, <2>3 DEF Lseek
    <2> QED BY <2>1, <2>2, <2>3
  <1>3. HandlersTypeOK' /\ Listing'
    BY <1>0, <1>1, <1>2, SameListing
  <1>4. call'.op = "lseek" /\ call'.sig = FALSE
    BY DEF Lseek, NoCall
  <1>5. ResultsHonest' /\ ListsAll'
    BY <1>4 DEF ResultsHonest, ZeroMeansEnd, ReadableReads, SigpipeDeserved, ListsAll
  <1> QED BY <1>3, <1>5 DEF HandlersInv

\* One call of IOHFile::GetDirEnts64: the find goes on by what is returned, and
\* begins again when nothing is.
LEMMA DirFindMoves ==
    ASSUME NEW m \in Members, NEW room \in Nat, CountOfFind(m)
    PROVE  /\ DirGot(m, room) \in 0..(Entries - m.find)
           /\ DirFind(m, room) \in Members /\ CountOfFind(DirFind(m, room))
           /\ room = 0 => DirFind(m, room) = m /\ DirGot(m, room) = 0
           /\ room > 0 /\ DirGot(m, room) = 0 =>
                 m.find = Entries /\ DirFind(m, room).find = 0
           /\ DirGot(m, room) > 0 =>
                 DirFind(m, room).find = m.find + DirGot(m, room)
  <1> DEFINE got == DirGot(m, room)
             ended == room > Entries - m.find
             tries == got + (IF ended THEN 1 ELSE 0)
  <1>0. /\ m.find \in 0..Entries /\ m.count \in 0..(Entries + 1)
        /\ Entries \in Nat /\ Entries >= 2
    BY HandlersConstants DEF Members
  <1>1. got = IF room <= Entries - m.find THEN room ELSE Entries - m.find
    BY <1>0, Pair, room \in Int, Entries - m.find \in Int DEF DirGot
  <1>2. DirFind(m, room) =
          CASE room = 0 -> m
            [] room > 0 /\ got = 0 -> [m EXCEPT !.find = 0, !.count = m.count + 1]
            [] OTHER -> [m EXCEPT !.find = m.find + got,
                                  !.count = IF m.find = 0 THEN tries - 1
                                                          ELSE m.count + tries]
    BY DEF DirFind
  <1> HIDE DEF got
  <1>3. CASE room = 0
    <2>1. DirFind(m, room) = m /\ got = 0
      BY <1>0, <1>1, <1>2, <1>3
    <2> QED BY <1>0, <1>3, <2>1 DEF got
  <1>4. CASE room # 0 /\ got = 0
    <2>1. m.find = Entries
      BY <1>0, <1>1, <1>4
    <2>2. DirFind(m, room) = [m EXCEPT !.find = 0, !.count = m.count + 1]
      BY <1>2, <1>4
    <2>3. PICK k \in 0..(Entries + 1) : k = m.count + 1
      BY <1>0, <2>1 DEF CountOfFind
    <2>4. DirFind(m, room) \in Members /\ DirFind(m, room).find = 0
      <3>1. DirFind(m, room) = [m EXCEPT !.find = 0, !.count = k]
        BY <2>2, <2>3
      <3>2. 0 \in 0..Entries
        BY <1>0
      <3> QED BY <2>3, <3>1, <3>2 DEF Members
    <2>5. CountOfFind(DirFind(m, room))
      BY <1>0, <2>4 DEF CountOfFind
    <2> QED BY <1>0, <1>4, <2>1, <2>4, <2>5 DEF got
  <1>5. CASE room # 0 /\ got # 0
    <2> DEFINE c == IF m.find = 0 THEN tries - 1 ELSE m.count + tries
    <2>1. DirFind(m, room) = [m EXCEPT !.find = m.find + got, !.count = c]
      BY <1>2, <1>5
    <2>2. got \in 1..(Entries - m.find)
      BY <1>0, <1>1, <1>5
    <2>3. m.find + got < Entries => tries = got
      BY <1>0, <1>1, <2>2
    <2>4. tries \in {got, got + 1}
      BY <1>0, <2>2
    <2> HIDE DEF tries
    <2>5. m.find < Entries
      BY <1>0, <2>2
    <2>6. m.find > 0 => m.count = m.find - 1
      BY <1>0, <2>5 DEF CountOfFind
    <2>7. /\ c \in 0..(Entries + 1) /\ c <= Entries
          /\ m.find + got < Entries => c = m.find + got - 1
      BY <1>0, <2>2, <2>3, <2>4, <2>6
    <2> HIDE DEF c
    <2>8. m.find + got \in 0..Entries
      BY <1>0, <2>2
    <2>9. /\ DirFind(m, room) \in Members
          /\ DirFind(m, room).find = m.find + got /\ DirFind(m, room).count = c
      BY <2>1, <2>7, <2>8 DEF Members
    <2>10. CountOfFind(DirFind(m, room))
      BY <1>0, <2>2, <2>7, <2>9 DEF CountOfFind
    <2> QED BY <1>0, <1>5, <2>2, <2>9, <2>10 DEF got
  <1> QED BY <1>3, <1>4, <1>5

\* sys_getdents64
LEMMA GetDirEntsStep ==
    ASSUME HandlersInv, NEW h \in Handler, NEW room \in Nat, GetDirEnts64(h, room)
    PROVE  HandlersInv'
  <1>0. /\ obj \in Object /\ err \in Errors /\ hs \in [Handler -> Members]
        /\ listed \in [Handler -> 0..Entries] /\ kind \in Class
        /\ src \in 1..MaxLen /\ dup \in BOOLEAN /\ Entries \in Nat /\ Entries >= 2
        /\ Listing
    BY Types, HandlersConstants DEF HandlersInv
  <1>1. UNCHANGED <<kind, obj, src, err, dup>>
    BY DEF GetDirEnts64
  <1>2. call'.op = "getdents" /\ call'.h = h /\ call'.size = room /\ call'.sig = FALSE
    BY DEF GetDirEnts64, NoCall
  <1>3. ResultsHonest'
    BY <1>2 DEF ResultsHonest, ZeroMeansEnd, ReadableReads, SigpipeDeserved
  <1>4. CASE kind = "dir"
    <2> DEFINE got == DirGot(hs[h], room)
               next == DirFind(hs[h], room)
    <2>1. /\ hs' = [hs EXCEPT ![h] = next] /\ call'.ret = got
          /\ listed' = [listed EXCEPT ![h] = IF hs[h].find = 0 THEN got
                                                               ELSE listed[h] + got]
      BY <1>0, <1>4 DEF GetDirEnts64, NoCall
    <2>2. hs[h] \in Members /\ CountOfFind(hs[h]) /\ hs[h].find \in 0..Entries
          /\ (hs[h].find > 0 => listed[h] = hs[h].find)
      BY <1>0 DEF Listing, Members
    <2>3. /\ got \in 0..(Entries - hs[h].find)
          /\ next \in Members /\ CountOfFind(next)
          /\ room = 0 => next = hs[h] /\ got = 0
          /\ room > 0 /\ got = 0 => hs[h].find = Entries /\ next.find = 0
          /\ got > 0 => next.find = hs[h].find + got
      BY <2>2, DirFindMoves
    <2> HIDE DEF got, next
    <2> DEFINE now_ == IF hs[h].find = 0 THEN got ELSE listed[h] + got
    <2>4. now_ \in 0..Entries /\ now_ = hs[h].find + got
      BY <1>0, <2>2, <2>3
    <2>5. next.find > 0 => now_ = next.find
      BY <1>0, <2>2, <2>3, <2>4
    <2>6. room > 0 /\ got = 0 => now_ = Entries
      BY <1>0, <2>2, <2>3, <2>4
    <2> HIDE DEF now_
    <2>7. hs' \in [Handler -> Members] /\ listed' = [listed EXCEPT ![h] = now_]
      BY <1>0, <2>1, <2>3 DEF now_
    <2>8. listed' \in [Handler -> 0..Entries]
      BY <1>0, <2>4, <2>7
    <2>9. HandlersTypeOK'
      BY <1>0, <1>1, <2>7, <2>8 DEF HandlersTypeOK, Members, Object
    <2>10. Listing'
      <3> SUFFICES ASSUME NEW g \in Handler
                   PROVE  /\ CountOfFind(hs'[g])
                          /\ hs'[g].find > 0 => listed'[g] = hs'[g].find
        BY DEF Listing, CountOfFind
      <3>1. CASE g = h
        BY <1>0, <2>1, <2>3, <2>5, <2>7, <3>1
      <3>2. CASE g # h
        BY <1>0, <2>1, <2>7, <3>2 DEF Listing
      <3> QED BY <3>1, <3>2
    <2>11. ListsAll'
      <3>1. listed'[h] = now_
        BY <1>0, <2>7
      <3> QED BY <1>2, <2>1, <2>6, <3>1 DEF ListsAll
    <2> QED BY <1>3, <2>9, <2>10, <2>11 DEF HandlersInv
  <1>5. CASE kind = "static"
    <2> DEFINE q == hs[h].pos
               m == Min({room, hs[h].len - q})
               n == StaticGot(hs[h], room)
    <2>0. q \in -1..(MaxLen + 1) /\ hs[h].len \in 0..MaxLen
      BY <1>0 DEF Members
    <2>1. m = IF room <= hs[h].len - q THEN room ELSE hs[h].len - q
      BY <2>0, Pair, room \in Int, hs[h].len - q \in Int
    <2>2. n = Max({0, m})
      BY DEF StaticGot
    <2>3. hs' = [hs EXCEPT ![h].pos = q + n] /\ listed' = listed
      BY <1>5 DEF GetDirEnts64
    <2> HIDE DEF m, n, q
    <2>4. m \in Int
      BY <2>0, <2>1
    <2>5. n = IF 0 >= m THEN 0 ELSE m
      BY <2>2, <2>4, Pair
    <2>6. q + n \in -1..(MaxLen + 1)
      BY <2>0, <2>1, <2>5, HandlersConstants
    <2>7. /\ hs' \in [Handler -> Members]
          /\ \A g \in Handler : hs'[g].find = hs[g].find /\ hs'[g].count = hs[g].count
      BY <1>0, <2>3, <2>6 DEF Members
    <2>8. HandlersTypeOK' /\ Listing'
      BY <1>0, <1>1, <2>3, <2>7, SameListing
    <2>9. ListsAll'
      BY <1>1, <1>5 DEF ListsAll
    <2> QED BY <1>3, <2>8, <2>9 DEF HandlersInv
  <1>6. CASE kind \notin {"dir", "static"}
    <2>1. hs' = hs /\ listed' = listed
      BY <1>6 DEF GetDirEnts64
    <2>2. HandlersTypeOK' /\ Listing'
      BY <1>0, <1>1, <2>1, SameListing
    <2>3. ListsAll'
      BY <1>1, <1>6 DEF ListsAll
    <2> QED BY <1>3, <2>2, <2>3 DEF HandlersInv
  <1> QED BY <1>4, <1>5, <1>6

\* A handler that has just been made lists nothing yet.
LEMMA Fresh ==
    ASSUME NEW pos \in -1..(MaxLen + 1), NEW len \in 0..MaxLen
    PROVE  /\ New \in Members /\ Closed \in Members
           /\ New.find = 0 /\ Closed.find = 0
           /\ [New EXCEPT !.pos = pos, !.len = len] \in Members
           /\ [New EXCEPT !.pos = pos, !.len = len].find = 0
           /\ [New EXCEPT !.len = len] \in Members
           /\ [New EXCEPT !.len = len].find = 0
  <1>1. 0 \in -1..(MaxLen + 1) /\ 0 \in 0..MaxLen /\ 0 \in 0..Entries
        /\ 0 \in 0..(Entries + 1)
    BY HandlersConstants
  <1> QED BY <1>1 DEF New, Closed, Members

\* The invariant after a step that replaces a handler by one without a find.
LEMMA Replaced ==
    ASSUME HandlersInv, NEW h \in Handler, NEW m \in Members, m.find = 0,
           hs' = [hs EXCEPT ![h] = m], dup' \in BOOLEAN, call' = NoCall,
           UNCHANGED <<kind, obj, src, err, listed>>
    PROVE  HandlersInv'
  <1>0. hs \in [Handler -> Members] /\ Entries \in Nat /\ Entries >= 2
    BY Types, HandlersConstants DEF HandlersInv
  <1>1. hs' \in [Handler -> Members]
    BY <1>0
  <1>2. HandlersTypeOK'
    BY <1>1 DEF HandlersInv, HandlersTypeOK, Members
  <1>3. Listing'
    <2> SUFFICES ASSUME NEW g \in Handler
                 PROVE  /\ CountOfFind(hs'[g])
                        /\ hs'[g].find > 0 => listed'[g] = hs'[g].find
      BY DEF Listing, CountOfFind
    <2>1. CASE g = h
      BY <1>0, <2>1 DEF CountOfFind
    <2>2. CASE g # h
      BY <1>0, <2>2 DEF HandlersInv, Listing
    <2> QED BY <2>1, <2>2
  <1> QED BY <1>2, <1>3, Silent DEF HandlersInv

\* Duplicate, its loop, close and the flags.
LEMMA DuplicateStep == HandlersInv /\ Duplicate => HandlersInv'
  <1> SUFFICES ASSUME HandlersInv, Duplicate PROVE HandlersInv'
    OBVIOUS
  <1>1. hs["a"].pos \in -1..(MaxLen + 1) /\ hs["a"].len \in 0..MaxLen
    BY Types DEF HandlersInv, Members, Handler
  <1>2. dup' \in BOOLEAN
    BY DEF Duplicate
  <1>3. PICK m \in Members : m.find = 0 /\ hs' = [hs EXCEPT !["b"] = m]
    BY <1>1, Fresh DEF Duplicate
  <1> QED BY <1>2, <1>3, Replaced DEF Duplicate, Handler

LEMMA CloseHandlerStep ==
    ASSUME HandlersInv, NEW h \in Handler, CloseHandler(h)
    PROVE  HandlersInv'
  <1>0. 0 \in -1..(MaxLen + 1) /\ 0 \in 0..MaxLen
    BY HandlersConstants
  <1>1. Closed \in Members /\ Closed.find = 0
    BY <1>0, Fresh
  <1>2. dup' \in BOOLEAN
    BY Types DEF CloseHandler, HandlersInv
  <1> QED BY <1>1, <1>2, Replaced DEF CloseHandler

LEMMA RestStep ==
    ASSUME HandlersInv,
           \/ DuplicateFind \/ OtherCalls \/ OtherEnd
           \/ \E h \in Handler, nonblock \in BOOLEAN : SetFlags(h, nonblock)
    PROVE  HandlersInv'
  <1>0. /\ obj \in Object /\ err \in Errors /\ hs \in [Handler -> Members]
        /\ src \in 1..MaxLen /\ dup \in BOOLEAN /\ HandlersTypeOK
    BY Types DEF HandlersInv
  <1>1. call' = NoCall /\ UNCHANGED <<kind, listed>>
    BY DEF DuplicateFind, OtherCalls, OtherEnd, SetFlags
  <1>2. CASE DuplicateFind
    <2>1. DirFind(hs["b"], 0) = hs["b"]
      BY DEF DirFind
    <2>2. hs' = hs
      BY <1>0, <1>2, <2>1 DEF DuplicateFind, Handler
    <2>3. dup' \in BOOLEAN
      BY <1>0, <1>2 DEF DuplicateFind
    <2> QED
      BY <1>0, <1>1, <1>2, <2>2, <2>3, SameListing, Silent DEF DuplicateFind, HandlersInv
  <1>3. CASE OtherCalls
    BY <1>0, <1>1, <1>3, SameListing, Silent DEF OtherCalls, HandlersInv
  <1>4. CASE OtherEnd
    <2>1. obj' \in Object
      BY <1>0, <1>4 DEF OtherEnd, Object
    <2> QED BY <1>0, <1>1, <1>4, <2>1, SameListing, Silent DEF OtherEnd, HandlersInv
  <1>5. ASSUME NEW h \in Handler, NEW nonblock \in BOOLEAN, SetFlags(h, nonblock)
        PROVE  HandlersInv'
    <2>1. /\ hs' \in [Handler -> Members]
          /\ \A g \in Handler : hs'[g].find = hs[g].find /\ hs'[g].count = hs[g].count
      BY <1>0, <1>5 DEF SetFlags, Members
    <2> QED BY <1>0, <1>1, <1>5, <2>1, SameListing, Silent DEF SetFlags, HandlersInv
  <1> QED BY <1>2, <1>3, <1>4, <1>5

\* A handler has just been opened.
LEMMA HandlersInitInv == HandlersInit => HandlersInv
  <1> SUFFICES ASSUME HandlersInit PROVE HandlersInv
    OBVIOUS
  <1>0. src \in 1..MaxLen /\ src \in 0..MaxLen /\ MaxLen \in Nat /\ Entries \in Nat
        /\ Entries >= 2 /\ MaxPos \in Nat /\ MaxLen <= MaxPos
        /\ 0 \in -1..(MaxLen + 1) /\ 0 \in 0..MaxPos /\ 0 \in 0..Entries
        /\ 0 \in 0..MaxLen /\ MaxLen \in 0..MaxLen
    BY HandlersConstants DEF HandlersInit
  <1>1. \A h \in Handler : hs[h] \in Members /\ hs[h].find = 0
    BY <1>0, Fresh DEF HandlersInit
  <1>2. hs \in [Handler -> Members]
    BY <1>1 DEF HandlersInit
  <1>3. obj \in Object
    <2>1. PICK Bytes \in SUBSET {0, MaxLen} :
              obj \in [pos : {0}, bytes : Bytes, other : {TRUE}]
      BY DEF HandlersInit
    <2>2. Bytes \subseteq 0..MaxLen
      BY <1>0
    <2> QED BY <1>0, <2>1, <2>2 DEF Object
  <1>4. HandlersTypeOK
    <2>1. kind \in Class /\ err \in Errors /\ dup \in BOOLEAN
      BY HandlersConstants DEF HandlersInit, Errors
    <2>2. listed \in [Handler -> 0..Entries]
      BY <1>0 DEF HandlersInit
    <2> QED BY <1>0, <1>2, <1>3, <2>1, <2>2 DEF HandlersTypeOK, Members, Object
  <1>5. Listing
    BY <1>0, <1>1 DEF Listing, CountOfFind
  <1>6. ResultsHonest /\ ListsAll
    BY DEF HandlersInit, NoCall, ResultsHonest, ZeroMeansEnd, ReadableReads,
           SigpipeDeserved, ListsAll
  <1> QED BY <1>4, <1>5, <1>6 DEF HandlersInv

LEMMA HandlersStepInv == HandlersInv /\ [HandlersNext]_hvars => HandlersInv'
  <1> SUFFICES ASSUME HandlersInv, [HandlersNext]_hvars PROVE HandlersInv'
    OBVIOUS
  <1>1. CASE UNCHANGED hvars
    BY <1>1
    DEF hvars, HandlersInv, HandlersTypeOK, Listing, CountOfFind, ResultsHonest,
        ZeroMeansEnd, ReadableReads, SigpipeDeserved, ListsAll, Piped
  <1>2. ASSUME NEW h \in Handler, NEW size \in Sizes,
               Read(h, size) \/ Write(h, size) \/ GetDirEnts64(h, size)
        PROVE  HandlersInv'
    <2>1. size \in Nat
      BY DEF Sizes
    <2> QED BY <1>2, <2>1, ReadStep, WriteStep, GetDirEntsStep
  <1> QED
    BY <1>1, <1>2, LseekStep, DuplicateStep, CloseHandlerStep, RestStep DEF HandlersNext

LEMMA HandlersInvariant == HandlersSpec => []HandlersInv
  BY HandlersInitInv, HandlersStepInv, PTL DEF HandlersSpec

-----------------------------------------------------------------------------
\* The members of the handlers, their object and their results keep their
\* types.
THEOREM HandlersTypeCorrect == HandlersSpec => []HandlersTypeOK
  <1>1. HandlersInv => HandlersTypeOK
    BY DEF HandlersInv
  <1> QED BY <1>1, HandlersInvariant, PTL

\* Whatever the error that earlier calls left in the stub, a blocking read
\* answers 0 only at the end and gives data where select saw some, and a write
\* raises SIGPIPE only where nobody reads; for all sizes and lengths.
THEOREM ResultsAreHonest == HandlersSpec => []ResultsHonest
  <1>1. HandlersInv => ResultsHonest
    BY DEF HandlersInv
  <1> QED BY <1>1, HandlersInvariant, PTL

\* However getdents64 is cut, a listing that ends has returned every entry.
THEOREM ListingsAreWhole == HandlersSpec => []ListsAll
  <1>1. HandlersInv => ListsAll
    BY DEF HandlersInv
  <1> QED BY <1>1, HandlersInvariant, PTL
=============================================================================
