----------------------------- MODULE Descriptors -----------------------------
(***************************************************************************)
(* The descriptor tables of processes that share a pipe: m_OpenFiles of    *)
(* each process, and the Win32 handles its stub holds.  Each entry owns a  *)
(* handler with a handle of its own; dup, dup2, F_DUPFD and fork make new  *)
(* ones.  Win32 ends a pipe when the last handle to one of its ends closes.*)
(*                                                                         *)
(* Every test of a descriptor allows MAX_OPEN_FILES itself: that entry is  *)
(* the word after the array, which the code reads as empty until dup2      *)
(* stores a handler there.  What handlers do with data is in Handlers.     *)
(***************************************************************************)
EXTENDS Integers, FiniteSetsExt

CONSTANTS
    Parent, Child,   \* two processes; the parent forks the child
    MAX_OPEN_FILES,
    Opener,          \* bound: those of them that open files and pipes, and
                     \* set close-on-exec
    Cap              \* bytes that fit in the pipe

ASSUME DescriptorsConstants ==
    Parent # Child /\ MAX_OPEN_FILES \in Nat /\ Cap \in Nat

VARIABLES
    table,       \* m_OpenFiles and the word after it
    open,        \* how many handles to each end of the pipe each stub holds
    lost,        \* history: those of them that pipe() stored in no entry
    live,        \* the stub runs
    bytes,       \* what is in the pipe
    waits        \* the end at which a process's read or write waits

dvars == <<table, open, lost, live, bytes, waits>>

Proc == {Parent, Child}
Fd == 0..MAX_OPEN_FILES            \* what the calls accept
End == {"r", "w"}
Free == [end |-> "none", inherit |-> FALSE]

\* A handler as its constructor leaves it: m_bInheritable is true.
Handle(end) == [end |-> end, inherit |-> TRUE]
Empty == [fd \in Fd |-> Free]

\* FindFreeFD; -1 when there is none.
FindFreeFD(t) ==
    LET free == {fd \in 0..(MAX_OPEN_FILES - 1) : t[fd] = Free}
    IN  IF free = {} THEN -1 ELSE Min(free)

Opened(p, fd) == fd \in Fd /\ table[p][fd] # Free
Running(p) == live[p] /\ waits[p] = "none"

\* A descriptor of a process that runs holds that end, and a handle does.
Named(end) == \E p \in Proc, fd \in Fd : live[p] /\ table[p][fd].end = end
Held(end) == \E p \in Proc : open[p][end] > 0

\* The handles of stub p when that of entry "gone" is closed and one more for
\* the end "new" is made; files are not counted.
Swap(p, gone, new) ==
    [open EXCEPT ![p] = [e \in End |->
        @[e] - (IF gone = e THEN 1 ELSE 0) + (IF new = e THEN 1 ELSE 0)]]

\* The first process has an empty table: what StartInit opened is not shown.
DescriptorsInit ==
    /\ table = [p \in Proc |-> Empty]
    /\ open = [p \in Proc |-> [e \in End |-> 0]]
    /\ lost = [p \in Proc |-> {}]
    /\ live = [p \in Proc |-> p = Parent]
    /\ bytes = 0
    /\ waits = [p \in Proc |-> "none"]

-----------------------------------------------------------------------------
(* Calls that change the table                                             *)

\* sys_open of a file; EMFILE comes before any look at the path, and a path
\* that cannot be opened leaves the table alone.
Open(p) ==
    /\ Running(p) /\ p \in Opener
    /\ FindFreeFD(table[p]) # -1
    /\ table' = [table EXCEPT ![p][FindFreeFD(table[p])] = Handle("file")]
    /\ UNCHANGED <<open, lost, live, bytes, waits>>

\* sys_close: the destructor closes the handle.
Close(p, fd) ==
    /\ Running(p) /\ Opened(p, fd)
    /\ table' = [table EXCEPT ![p][fd] = Free]
    /\ open' = Swap(p, table[p][fd].end, "none")
    /\ UNCHANGED <<lost, live, bytes, waits>>

\* Mutant of Dup2: what was open there is not closed.
Dup2NoClose(p, old, new) ==
    /\ Running(p) /\ Opened(p, old)
    /\ new \in Fd /\ new # old
    /\ table' = [table EXCEPT ![p][new] = Handle(table[p][old].end)]
    /\ open' = Swap(p, "none", table[p][old].end)
    /\ UNCHANGED <<lost, live, bytes, waits>>

\* sys_dup2: closes what was there, then stores the duplicate.
Dup2(p, old, new) ==
    /\ Running(p) /\ Opened(p, old)
    /\ new \in Fd /\ new # old
    /\ table' = [table EXCEPT ![p][new] = Handle(table[p][old].end)]
    /\ open' = Swap(p, table[p][new].end, table[p][old].end)
    /\ UNCHANGED <<lost, live, bytes, waits>>

\* sys_dup
Dup(p, old) ==
    /\ FindFreeFD(table[p]) # -1
    /\ Dup2(p, old, FindFreeFD(table[p]))

\* m_bInheritable is kept for pipe ends; a file may or may not have it.
Flagged(end, inherit) == [end |-> end, inherit |-> inherit \/ end = "file"]

\* sys_fcntl(F_DUPFD): the copy has close-on-exec set.
FcntlDupfd(p, old, maxfd) ==
    LET new == FindFreeFD(table[p])
    IN  /\ Running(p) /\ p \in Opener /\ Opened(p, old)
        /\ new # -1 /\ new <= maxfd
        /\ table' = [table EXCEPT ![p][new] =
                         Flagged(table[p][old].end, FALSE)]
        /\ open' = Swap(p, "none", table[p][old].end)
        /\ UNCHANGED <<lost, live, bytes, waits>>

\* sys_fcntl(F_SETFD)
FcntlSetfd(p, fd, flag) ==
    /\ Running(p) /\ p \in Opener /\ Opened(p, fd)
    /\ table' = [table EXCEPT ![p][fd] = Flagged(@.end, flag = 0)]
    /\ UNCHANGED <<open, lost, live, bytes, waits>>

\* Store a new handler in a table; in m_OpenFiles[-1] nobody finds it again.
StoreHandler(t, fd, end) == IF fd = -1 THEN t ELSE [t EXCEPT ![fd] = Handle(end)]

\* sys_pipe: both results of FindFreeFD are used as they come.
Pipe(p) ==
    /\ Running(p) /\ p \in Opener
    /\ ~Held("r") /\ ~Held("w")           \* one pipe at a time
    /\ LET fd0 == FindFreeFD(table[p])
           t0 == StoreHandler(table[p], fd0, "r")
           fd1 == FindFreeFD(t0)
       IN  /\ table' = [table EXCEPT ![p] = StoreHandler(t0, fd1, "w")]
           /\ lost' = [lost EXCEPT ![p] = @ \union (IF fd0 = -1 THEN {"r"} ELSE {})
                                            \union (IF fd1 = -1 THEN {"w"} ELSE {})]
    /\ open' = [open EXCEPT ![p] = [e \in End |-> 1]]
    /\ bytes' = 0
    /\ UNCHANGED <<live, waits>>

-----------------------------------------------------------------------------
(* Processes                                                               *)

\* ForkCopyOtherProcess: duplicates of the entries below MAX_OPEN_FILES; the
\* parent's handler thread waits meanwhile.
Fork ==
    /\ Running(Parent) /\ ~live[Child]
    /\ live' = [live EXCEPT ![Child] = TRUE]
    /\ table' = [table EXCEPT ![Child] = [fd \in Fd |->
                     IF fd = MAX_OPEN_FILES \/ table[Parent][fd] = Free THEN Free
                     ELSE Handle(table[Parent][fd].end)]]
    /\ open' = [open EXCEPT ![Child] = [e \in End |->
                   Cardinality({fd \in Fd \ {MAX_OPEN_FILES} :
                                  table[Parent][fd].end = e})]]
    /\ lost' = [lost EXCEPT ![Child] = {}]
    /\ UNCHANGED <<bytes, waits>>

\* What FreeResourcesBeforeExec closes.
CloseOnExec(p, files) ==
    {fd \in 0..(MAX_OPEN_FILES - 1) :
        \/ ~table[p][fd].inherit
        \/ fd \in files /\ table[p][fd].end = "file"}

\* Mutant of Exec: entries are cleared and their handles stay open.
ExecNoClose(p) ==
    /\ Running(p)
    /\ \E files \in SUBSET Fd : table' = [table EXCEPT ![p] = [fd \in Fd |->
           IF fd \in CloseOnExec(p, files) THEN Free ELSE @[fd]]]
    /\ UNCHANGED <<open, lost, live, bytes, waits>>

\* FreeResourcesBeforeExec: the same stub goes on, with its other handles.
Exec(p) ==
    /\ Running(p)
    /\ \E files \in SUBSET Fd : table' = [table EXCEPT ![p] = [fd \in Fd |->
           IF fd \in CloseOnExec(p, files) THEN Free ELSE @[fd]]]
    /\ open' = [open EXCEPT ![p] = [e \in End |->
           @[e] - Cardinality({fd \in CloseOnExec(p, {}) : table[p][fd].end = e})]]
    /\ UNCHANGED <<lost, live, bytes, waits>>

\* Mutant of Exit: the table outlives the stub.
ExitKeepsTable(p) ==
    /\ live[p]
    /\ live' = [live EXCEPT ![p] = FALSE]
    /\ waits' = [waits EXCEPT ![p] = "none"]
    /\ open' = [open EXCEPT ![p] = [e \in End |-> 0]]
    /\ UNCHANGED <<table, lost, bytes>>

\* The stub exits or is terminated, also while it waits in ReadFile; Win32
\* closes its handles.
Exit(p) ==
    /\ live[p]
    /\ live' = [live EXCEPT ![p] = FALSE]
    /\ waits' = [waits EXCEPT ![p] = "none"]
    /\ table' = [table EXCEPT ![p] = Empty]
    /\ open' = [open EXCEPT ![p] = [e \in End |-> 0]]
    /\ lost' = [lost EXCEPT ![p] = {}]
    /\ UNCHANGED bytes

-----------------------------------------------------------------------------
(* The pipe                                                                *)

\* read or write of a descriptor: ReadFile or WriteFile runs in the stub ...
StartTransfer(p, fd) ==
    /\ Running(p) /\ Opened(p, fd)
    /\ table[p][fd].end # "file"
    /\ waits' = [waits EXCEPT ![p] = table[p][fd].end]
    /\ UNCHANGED <<table, open, lost, live, bytes>>

\* ... and returns when there is data or room, or the other end has gone.
EndTransfer(p) ==
    /\ \/ waits[p] = "r" /\ bytes > 0 /\ bytes' = bytes - 1
       \/ waits[p] = "r" /\ bytes = 0 /\ ~Held("w") /\ UNCHANGED bytes
       \/ waits[p] = "w" /\ Held("r") /\ bytes < Cap /\ bytes' = bytes + 1
       \/ waits[p] = "w" /\ ~Held("r") /\ UNCHANGED bytes
    /\ waits' = [waits EXCEPT ![p] = "none"]
    /\ UNCHANGED <<table, open, lost, live>>

DescriptorsNext ==
    \/ \E p \in Proc :
          \/ Open(p) \/ Pipe(p) \/ Exec(p) \/ Exit(p) \/ EndTransfer(p)
          \/ \E fd \in Fd : \/ Close(p, fd) \/ Dup(p, fd) \/ StartTransfer(p, fd)
                            \/ \E new \in Fd : Dup2(p, fd, new) \/ FcntlDupfd(p, fd, new)
                            \/ \E flag \in 0..1 : FcntlSetfd(p, fd, flag)
    \/ Fork

\* The stubs run: a ReadFile or WriteFile that can return does.
DescriptorsFair == \A p \in Proc : WF_dvars(EndTransfer(p))
DescriptorsSpec == DescriptorsInit /\ [][DescriptorsNext]_dvars /\ DescriptorsFair

-----------------------------------------------------------------------------
(* Properties                                                              *)

\* Entries, handles and waits have their types; nobody waits in a dead stub.
DescriptorsTypeOK ==
    /\ table \in [Proc -> [Fd -> [end : {"none", "r", "w", "file"},
                                  inherit : BOOLEAN]]]
    /\ open \in [Proc -> [End -> 0..(MAX_OPEN_FILES + 2)]]
    /\ lost \in [Proc -> SUBSET End]
    /\ live \in [Proc -> BOOLEAN]
    /\ bytes \in 0..Cap
    /\ waits \in [Proc -> {"none", "r", "w"}]
    /\ \A p \in Proc : ~live[p] => table[p] = Empty /\ waits[p] = "none"

\* A stub holds one handle for each entry of its table that names an end of
\* the pipe, through any sequence of dup2, F_DUPFD, fork, exec and close, and
\* besides only those that pipe() stored in no entry because it found fewer
\* than two free ones; they stay open until the process exits.
HandlesNamed ==
    \A p \in Proc, e \in End :
        open[p][e] = Cardinality({fd \in Fd : table[p][fd].end = e})
                     + (IF e \in lost[p] THEN 1 ELSE 0)

\* A read that waits at a pipe whose write end no descriptor names any more
\* returns, as long as nobody opens that end again; only a handle that pipe()
\* lost keeps it waiting.
WaitEnds ==
    \A p \in Proc :
        (waits[p] = "r" /\ ~Named("w"))
            ~> \/ waits[p] # "r"
               \/ Named("w")
               \/ \E q \in Proc : "w" \in lost[q]
=============================================================================
