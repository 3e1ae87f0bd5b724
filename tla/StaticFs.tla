------------------------------ MODULE StaticFs ------------------------------
(***************************************************************************)
(* Filesystems that are generated: the tree of patterns that               *)
(* FilesystemGenericStatic builds and searches, and /proc as the largest   *)
(* user of it (FilesystemProc; FilesystemDev is a flat one).               *)
(*                                                                         *)
(* A constructor adds listers and files, here in any order; then processes *)
(* come and go, open and close files, and paths are looked up.  Contents   *)
(* are abstracted to whose they are.                                       *)
(***************************************************************************)
EXTENDS Integers, Sequences, SequencesExt

CONSTANTS
    Files,       \* patterns given to AddFile, as sequences of elements
    Listers,     \* patterns given to AddLister
    PidName,         \* process ids, as strings
    FdName,      \* descriptors, as strings
    Self         \* the process that looks up paths

VARIABLES
    nodes,       \* the tree: its nodes in the order they were made
    toAdd,       \* what the constructor has still to add
    live,        \* processes in the table
    files,       \* descriptors that are open, by process
    handle       \* the handler last made for a path

svars == <<nodes, toAdd, live, files, handle>>

Wild == "*"
Node(path) == [path |-> path, file |-> FALSE, lister |-> FALSE, params |-> 0]
NoHandle == [kind |-> "none", path |-> <<>>, pid |-> "none", names |-> {}]

StaticFsInit ==
    /\ nodes = <<Node(<<>>)>>
    /\ toAdd = [file |-> Files, lister |-> Listers]
    /\ live = {Self}
    /\ files = [pid \in PidName |-> {}]
    /\ handle = NoHandle

-----------------------------------------------------------------------------
(* Building the tree                                                       *)

\* How many parameters a pattern's handler or lister is given.
Wildcards(pattern) == Len(SelectSeq(pattern, LAMBDA e : e = Wild))
IndexOf(tree, path) == {i \in DOMAIN tree : tree[i].path = path}

\* "need to add an intermediate node", for the first n elements.
WithPrefixes(tree, pattern, n) ==
    LET upto[k \in 0..n] ==
            IF k = 0 THEN tree
            ELSE LET t == upto[k - 1]
                 IN  IF IndexOf(t, SubSeq(pattern, 1, k)) # {} THEN t
                     ELSE Append(t, Node(SubSeq(pattern, 1, k)))
    IN  upto[n]

\* AddFileInternal: the last element is always a new leaf.
AddFile(pattern) ==
    /\ pattern \in toAdd.file
    /\ nodes' = Append(WithPrefixes(nodes, pattern, Len(pattern) - 1),
                       [Node(pattern) EXCEPT !.file = TRUE,
                                             !.params = Wildcards(pattern)])
    /\ toAdd' = [toAdd EXCEPT !.file = @ \ {pattern}]
    /\ UNCHANGED <<live, files, handle>>

\* AddListerInternal: the node that is there, or a new one.
AddLister(pattern) ==
    /\ pattern \in toAdd.lister
    /\ LET tree == WithPrefixes(nodes, pattern, Len(pattern))
           i == Min(IndexOf(tree, pattern))
       IN  nodes' = [tree EXCEPT ![i].lister = TRUE,
                                 ![i].params = Wildcards(pattern)]
    /\ toAdd' = [toAdd EXCEPT !.lister = @ \ {pattern}]
    /\ UNCHANGED <<live, files, handle>>

Built == toAdd.file = {} /\ toAdd.lister = {}

-----------------------------------------------------------------------------
(* Searching it                                                            *)

Children(i) ==
    {j \in DOMAIN nodes : /\ nodes[j].path # <<>>
                          /\ Front(nodes[j].path) = nodes[i].path}

Named(i, e) == {j \in Children(i) : Last(nodes[j].path) = e}

\* Mutant of Child: the first that matches is taken, wildcard or not.
ChildFirst(i, want) ==
    LET found == Named(i, want) \union Named(i, Wild)
    IN  IF found = {} THEN 0 ELSE Min(found)

\* "a specific named match has higher priority"; 0 if there is none.
Child(i, want) ==
    IF Named(i, want) # {} THEN Min(Named(i, want))
    ELSE IF Named(i, Wild) # {} THEN Max(Named(i, Wild)) ELSE 0

\* CreateIOHandler's loop: the node found and what the wildcards stand for.
SearchTree(path) ==
    LET upto[n \in 0..Len(path)] ==
            IF n = 0 THEN [node |-> 1, wild |-> <<>>]
            ELSE LET t == upto[n - 1]
                     c == IF t.node = 0 THEN 0 ELSE Child(t.node, path[n])
                 IN  IF c = 0 THEN [node |-> 0, wild |-> <<>>]
                     ELSE [node |-> c,
                           wild |-> IF Last(nodes[c].path) = Wild
                                    THEN Append(t.wild, path[n]) ELSE t.wild]
    IN  upto[Len(path)]

IsFile(i) == Children(i) = {} /\ ~nodes[i].lister

-----------------------------------------------------------------------------
(* /proc                                                                   *)

\* PidStrToProcess
Process(pid) == IF pid = "self" THEN {Self} ELSE {pid} \intersect live

\* GetPids
GetPids == live \union {"self"}

\* GetOpenFiles
GetOpenFiles(pid) == UNION {files[p] : p \in Process(pid)}

\* Get_MemInfo ... Get_LoadAvg: a new handler, generated again at each read.
SystemFile(path) == [NoHandle EXCEPT !.kind = "file", !.path = path]

\* Get_Pid_Cmdline ... Get_Pid_Status: nothing for a process that is gone.
PidFile(path, pid) ==
    IF Process(pid) = {} \/ Last(path) = "maps" THEN NoHandle
    ELSE [NoHandle EXCEPT !.kind = "file", !.path = path,
                          !.pid = CHOOSE p \in Process(pid) : TRUE]

\* Get_Pid_Fd: a duplicate of the process's handler; the entry is used
\* without a look at whether there is one.
PidFd(path, pid, fd) ==
    IF Process(pid) = {} THEN NoHandle
    ELSE [NoHandle EXCEPT !.kind = IF fd \in GetOpenFiles(pid) THEN "dup"
                                                               ELSE "fault",
                          !.path = path]

\* The names a directory's handler is filled with.
Listing(s) ==
    LET fixed == {Last(nodes[j].path) : j \in Children(s.node)} \ {Wild}
    IN  fixed \union (IF ~nodes[s.node].lister THEN {}
                      ELSE IF nodes[s.node].params = 0 THEN GetPids
                      ELSE GetOpenFiles(s.wild[1]))

\* CreateIOHandler
CreateIOHandler(path) ==
    LET s == SearchTree(path)
    IN  CASE s.node = 0 -> NoHandle
          [] s.node # 0 /\ IsFile(s.node) ->
                (CASE nodes[s.node].params = 0 -> SystemFile(path)
                   [] nodes[s.node].params = 1 -> PidFile(path, s.wild[1])
                   [] nodes[s.node].params = 2 -> PidFd(path, s.wild[1], s.wild[2]))
          [] OTHER -> [NoHandle EXCEPT !.kind = "dir", !.path = path,
                                       !.names = Listing(s)]

Paths ==
    LET first == {"stat", "self", "other"} \union PidName
    IN  {<<>>} \union {<<a>> : a \in first}
        \union {<<a, b>> : a \in first, b \in {"stat", "fd", "maps", "other"}}
        \union {<<a, "fd", f>> : a \in first, f \in FdName}

\* sys_open of a path in the filesystem
Open(path) ==
    /\ Built /\ handle.kind = "none"
    /\ handle' = CreateIOHandler(path)
    /\ UNCHANGED <<nodes, toAdd, live, files>>

\* A read of a file: RefreshData makes the handler again, and keeps the old
\* data if that fails.
ReadHandle ==
    /\ handle.kind = "file"
    /\ LET again == CreateIOHandler(handle.path)
       IN  handle' = IF again.kind = "file" THEN again ELSE handle
    /\ UNCHANGED <<nodes, toAdd, live, files>>

CloseHandle ==
    /\ handle.kind # "none"
    /\ handle' = NoHandle
    /\ UNCHANGED <<nodes, toAdd, live, files>>

\* Other processes start and exit, and files are opened and closed.
OtherProcess ==
    /\ Built
    /\ \/ \E pid \in PidName \ {Self} :
             /\ live' = IF pid \in live THEN live \ {pid} ELSE live \union {pid}
             /\ files' = [files EXCEPT ![pid] = {}]
       \/ \E pid \in live, fd \in FdName :
             /\ files' = [files EXCEPT ![pid] =
                              IF fd \in @ THEN @ \ {fd} ELSE @ \union {fd}]
             /\ UNCHANGED live
    /\ UNCHANGED <<nodes, toAdd, handle>>

StaticFsNext ==
    \/ \E pattern \in Files : AddFile(pattern)
    \/ \E pattern \in Listers : AddLister(pattern)
    \/ \E path \in Paths : Open(path)
    \/ ReadHandle \/ CloseHandle \/ OtherProcess

StaticFsSpec == StaticFsInit /\ [][StaticFsNext]_svars

-----------------------------------------------------------------------------
(* Properties                                                              *)

\* Nodes, processes, files and the handler have their types.
StaticFsTypeOK ==
    /\ \A i \in DOMAIN nodes :
          /\ nodes[i].params \in 0..2
          /\ nodes[i].file \in BOOLEAN /\ nodes[i].lister \in BOOLEAN
    /\ live \subseteq PidName /\ files \in [PidName -> SUBSET FdName]
    /\ handle.kind \in {"none", "file", "dir", "dup", "fault"}

\* The patterns that a path can still match: an element that is written out
\* comes before a wildcard, level by level, whatever was added first.
Matching(path) ==
    LET all == Files \union Listers
        upto[n \in 0..Len(path)] ==
            IF n = 0 THEN all
            ELSE LET exact == {p \in upto[n - 1] : Len(p) >= n /\ p[n] = path[n]}
                     wild == {p \in upto[n - 1] : Len(p) >= n /\ p[n] = Wild}
                 IN  IF exact # {} THEN exact ELSE wild
    IN  upto[Len(path)]

\* CreateIOHandler finds a node for exactly the paths that the patterns
\* allow, "a specific named match" first, in whatever order a constructor
\* adds its files and listers.
FindsPattern ==
    Built => \A path \in Paths :
        /\ (SearchTree(path).node = 0) = (path # <<>> /\ Matching(path) = {})
        /\ SearchTree(path).node # 0 =>
              \A p \in Matching(path) :
                  SubSeq(p, 1, Len(path)) = nodes[SearchTree(path).node].path

\* The handler or lister of the node found takes as many parameters as
\* wildcards were met on the way, so wildcards[0] and wildcards[1] exist.
ParamsFit ==
    Built => \A path \in Paths :
        LET s == SearchTree(path)
        IN  s.node # 0 /\ (IsFile(s.node) \/ nodes[s.node].lister)
                => Len(s.wild) = nodes[s.node].params

\* What a directory lists can be opened while nothing changes: the listers
\* (GetPids, GetOpenFiles) agree with the patterns and with the handlers.
\* /proc/<pid>/maps is listed and has no handler.
ListedOpens ==
    Built => \A path \in {p \in Paths : Len(p) < 3} :
        LET dir == CreateIOHandler(path)
        IN  dir.kind = "dir" =>
              \A name \in dir.names \ {"maps"} :
                  (path # <<>> /\ Len(path) = 1 /\ Process(path[1]) = {})
                      \/ CreateIOHandler(Append(path, name)).kind
                            \in {"file", "dir", "dup"}

\* The tree of patterns answers alike whether it is searched, listed or
\* opened, in whatever order it was built (FilesystemGenericStatic).
LookupsAgree == FindsPattern /\ ParamsFit /\ ListedOpens
=============================================================================
