-------------------------------- MODULE Paths --------------------------------
(***************************************************************************)
(* Paths, mount points and the calls that take paths: how a Unix path      *)
(* becomes a Win32 path (Path.cpp), mount and umount, symbolic links as    *)
(* Windows shortcuts (FilesystemKeow.cpp), and the calls of one process    *)
(* that read and change the tree.                                          *)
(*                                                                         *)
(* A Unix path is a sequence of elements and whether it begins with "/".   *)
(* A Win32 path is a sequence too: where a mount's destination is, and the *)
(* elements under it.  Win32 is external: a map from Win32 paths to what   *)
(* is there.  A symbolic link a is a shortcut file a.lnk beside a.         *)
(***************************************************************************)
EXTENDS Integers, Sequences, FiniteSetsExt

CONSTANTS
    Name,          \* names of files
    Lnk(_),        \* the name of a link's shortcut file, not in Name
    Dest,          \* Win32 directories that can be mounted
    Root,          \* the one of them that is the root's destination
    Args,          \* paths that programs pass: [abs, to]
    Place,         \* directories that are mounted on, as they are from the root
    LinkTo,        \* destinations of symbolic links: [abs, to]
    MaxDepth,      \* bound: elements of a Win32 path, with the destination
    MaxPwd,        \* bound: elements of the current directory's path
    MaxObjects,    \* bound: things on the disk besides the destinations
    MaxMounts      \* bound: mounts besides the root's

\* ".." is no name.  What a program passes has been split at "/", and ".",
\* which AppendPath ignores, has been dropped.
ASSUME PathsConstants ==
    /\ ".." \notin Name \union Dest /\ Root \in Dest
    /\ \A e \in Name : Lnk(e) # ".."
    /\ Place \subseteq Seq(Name)
    /\ Args \union LinkTo \subseteq [abs : BOOLEAN, to : Seq(Name \union {".."})]
    /\ MaxDepth \in Nat \ {0} /\ MaxMounts \in Nat

VARIABLES
    disk,          \* what there is at each Win32 path
    mounts,        \* m_MountPoints after the root's
    pwd            \* m_UnixPwd, as the Unix path that it computed

pvars == <<disk, mounts, pwd>>

Thing == [kind : {"dir", "file", "lnk"}, abs : BOOLEAN, to : Seq(Name \union {".."})]
Dir == [kind |-> "dir", abs |-> FALSE, to |-> <<>>]
File == [Dir EXCEPT !.kind = "file"]

\* arg_root, and the disk as it may be found; AutoMountDrives' mounts are
\* those of Mount.
PathsInit ==
    /\ disk = [w \in {<<d>> : d \in Dest} |-> Dir]
    /\ mounts = <<>>
    /\ pwd = <<>>

-----------------------------------------------------------------------------
(* Path                                                                    *)

Parent(path) == SubSeq(path, 1, Len(path) - 1)
LastOf(list) == list[Len(list)]
DropAt(list, i) == SubSeq(list, 1, i - 1) \o SubSeq(list, i + 1, Len(list))

\* The elements put after a list that is never cut below its first keep.
Walk(lst, elements, keep) ==
    LET upto[n \in 0..Len(elements)] ==
            IF n = 0 THEN lst
            ELSE LET l == upto[n - 1]
                 IN  IF elements[n] # ".." THEN Append(l, elements[n])
                     ELSE IF Len(l) <= keep THEN l ELSE Parent(l)
    IN  upto[Len(elements)]

\* AppendPath, for elements without "/" and ".".
AppendPath(lst, path) == Walk(IF path.abs THEN <<>> ELSE lst, path.to, 0)

\* SetUnixPath
SetUnixPath(path) == AppendPath(IF path.abs THEN <<>> ELSE pwd, path)

\* The mounts whose whole path is the first n elements (EqualsPartialPath).
MatchingMounts(stack, n) ==
    {i \in DOMAIN mounts : mounts[i].at = SubSeq(stack, 1, n)}

\* What Win32 makes of "..": it stays within the drive.
Win32(w) == Walk(<<>>, w, 1)

\* What a shortcut file describes; of any other file, nothing.
GetShortcutTarget(w) ==
    IF disk[w].kind = "lnk" THEN disk[w] ELSE File

\* GetLinkDestination of the shortcut file for an element.
GetLinkDestination(w, e) ==
    LET lnk == Append(Win32(w), Lnk(e))
    IN  IF lnk \notin DOMAIN disk THEN File ELSE GetShortcutTarget(lnk)

\* An element that is not a mount point: t holds the Win32 path and the Unix
\* path so far.  A destination that begins with "/" is not looked up in the
\* mounts again, and is under no mount's directory.
PlainElement(t, e, follow) ==
    LET link == GetLinkDestination(t.win, e)
    IN  IF link.kind # "lnk"
        THEN [win |-> Append(t.win, e), unix |-> Append(t.unix, e)]
        ELSE IF follow
        THEN [win |-> (IF link.abs THEN <<"/">> ELSE t.win) \o link.to,
              unix |-> AppendPath(t.unix, link)]
        ELSE [win |-> Append(t.win, Lnk(e)), unix |-> Append(t.unix, e)]

\* Mutant of MountElement: the first match wins.
MountElementFirst(t, e, found) ==
    [win |-> <<mounts[Min(found)].dest>>, unix |-> Append(t.unix, e)]

\* The last match wins; each match appends the element.
MountElement(t, e, found) ==
    [win |-> <<mounts[Max(found)].dest>>,
     unix |-> t.unix \o [i \in 1..Cardinality(found) |-> e]]

\* TranverseMountPoints, over the first n elements.
Traverse(stack, follow) ==
    LET upto[n \in 0..Len(stack)] ==
            IF n = 0 THEN [win |-> <<Root>>, unix |-> <<>>]
            ELSE LET found == MatchingMounts(stack, n)
                     t == upto[n - 1]
                 IN  IF found # {} THEN MountElement(t, stack[n], found)
                     ELSE PlainElement(t, stack[n], follow)
    IN  [upto[Len(stack)] EXCEPT !.win = Win32(@)]

\* GetWin32Path and GetUnixPath of an argument.
Win(path, follow) == Traverse(SetUnixPath(path), follow).win
Unix(path, follow) == Traverse(SetUnixPath(path), follow).unix

-----------------------------------------------------------------------------
(* Calls that look                                                         *)

At(w) == IF w \in DOMAIN disk THEN disk[w].kind ELSE "none"

\* sys_stat, sys_lstat, sys_stat64, sys_lstat64, sys_access (reading)
Stat(path) == At(Win(path, TRUE))
Lstat(path) == At(Win(path, FALSE))
Stat64(path) == At(Win(path, TRUE))
Lstat64(path) == At(Win(path, FALSE))
Access(path) == At(Win(path, TRUE)) # "none"

\* sys_readlink: the whole Unix path with every link followed.
Readlink(path) ==
    IF Lstat(path) # "lnk" THEN [ok |-> FALSE, path |-> <<>>]
    ELSE [ok |-> TRUE, path |-> Unix(path, TRUE)]

-----------------------------------------------------------------------------
(* Calls that change the tree                                              *)

Has(w) == w \in DOMAIN disk
Below(w) == {v \in DOMAIN disk : Len(v) > Len(w) /\ SubSeq(v, 1, Len(w)) = w}

\* Win32 makes something in a directory that exists.
CanMake(w) ==
    /\ ~Has(w) /\ Len(w) \in 2..MaxDepth
    /\ Parent(w) \in DOMAIN disk /\ disk[Parent(w)].kind = "dir"
    /\ Cardinality(DOMAIN disk) < MaxObjects + Cardinality(Dest)

Put(w, thing) == disk' = [v \in DOMAIN disk \union {w} |->
                             IF v = w THEN thing ELSE disk[v]]
Delete(ws) == disk' = [v \in DOMAIN disk \ ws |-> disk[v]]

\* sys_open with O_CREAT (IOHFile::Open), sys_mkdir
Create(path) ==
    /\ CanMake(Win(path, TRUE))
    /\ Put(Win(path, TRUE), File)
    /\ UNCHANGED <<mounts, pwd>>

Mkdir(path) ==
    /\ CanMake(Win(path, TRUE))
    /\ Put(Win(path, TRUE), Dir)
    /\ UNCHANGED <<mounts, pwd>>

\* CreateShortcut, with the destination as description.  A shortcut that the
\* shell cannot Resolve describes nothing to GetShortcutTarget, which keeps
\* the failed result ("ignore error") and gives up on it afterwards.
CreateShortcut(to, w) ==
    /\ CanMake(w)
    /\ \E shortcut \in {File, [kind |-> "lnk", abs |-> to.abs, to |-> to.to]} :
          Put(w, shortcut)

\* sys_symlink: CreateSymbolicLink appends ".lnk" to the new path.
Symlink(to, path) ==
    LET stack == SetUnixPath(path)
    IN  /\ stack # <<>>
        /\ CreateShortcut(to, Append(Traverse(Parent(stack), TRUE).win, Lnk(LastOf(stack))))
        /\ UNCHANGED <<mounts, pwd>>

\* sys_unlink of a file or a link; a directory gives EISDIR.
Unlink(path) ==
    /\ Lstat(path) \in {"file", "lnk"}
    /\ Delete({Win(path, FALSE)})
    /\ UNCHANGED <<mounts, pwd>>

\* sys_rmdir: Win32 removes an empty directory, and no drive.
Rmdir(path) ==
    LET w == Win(path, FALSE)
    IN  /\ At(w) = "dir" /\ Below(w) = {} /\ Len(w) > 1
        /\ Delete({w})
        /\ UNCHANGED <<mounts, pwd>>

\* sys_link: a second name; of a link's shortcut it is a file like another.
Link(old, new) ==
    LET w == Win(new, FALSE)
    IN  /\ Lstat(old) \in {"file", "lnk"}
        /\ CanMake(w)
        /\ Put(w, File)
        /\ UNCHANGED <<mounts, pwd>>

\* sys_rename: both paths are followed.  Win32 moves a file over a file, and
\* a directory with what is below it to a name that is free.
Rename(old, new) ==
    LET v == Win(old, TRUE)
        w == Win(new, TRUE)
        moved == {v} \union Below(v)
        To(u) == w \o SubSeq(u, Len(v) + 1, Len(u))
        From(u) == v \o SubSeq(u, Len(w) + 1, Len(u))
    IN  /\ Has(v) /\ v # w /\ Len(v) > 1 /\ Len(w) > 1
        /\ disk[v].kind = "dir" => ~Has(w)
        /\ Has(w) => disk[w].kind = "file"
        /\ Has(Parent(w)) /\ disk[Parent(w)].kind = "dir"
        /\ Parent(w) \notin moved
        /\ \A u \in moved : Len(To(u)) <= MaxDepth
        /\ disk' = [u \in (DOMAIN disk \ moved) \union {To(x) : x \in moved} |->
                       IF u \in {To(x) : x \in moved} THEN disk[From(u)] ELSE disk[u]]
        /\ UNCHANGED <<mounts, pwd>>

-----------------------------------------------------------------------------
(* The current directory and mounts                                        *)

\* sys_chdir, and sys_fchdir of a directory opened by that path.
Chdir(path) ==
    /\ Stat(path) = "dir" /\ Len(Unix(path, TRUE)) <= MaxPwd
    /\ pwd' = Unix(path, TRUE)
    /\ UNCHANGED <<disk, mounts>>

\* sys_mount on a directory, and AutoMountDrives
Mount(dest, path) ==
    /\ Len(mounts) < MaxMounts /\ SetUnixPath(path) \in Place
    /\ Lstat(path) = "dir"
    /\ mounts' = Append(mounts, [at |-> SetUnixPath(path), dest |-> dest])
    /\ UNCHANGED <<disk, pwd>>

\* Mutant of Umount: the first one found goes.
UmountFirst(path) ==
    LET found == {i \in DOMAIN mounts : mounts[i].at = SetUnixPath(path)}
    IN  /\ found # {}
        /\ mounts' = DropAt(mounts, Min(found))
        /\ UNCHANGED <<disk, pwd>>

\* sys_umount: "keep going - unmount last one found"
Umount(path) ==
    LET found == {i \in DOMAIN mounts : mounts[i].at = SetUnixPath(path)}
    IN  /\ found # {}
        /\ mounts' = DropAt(mounts, Max(found))
        /\ UNCHANGED <<disk, pwd>>

PathsNext ==
    \E path \in Args :
       \/ Create(path) \/ Mkdir(path) \/ Unlink(path) \/ Rmdir(path)
       \/ Chdir(path) \/ Umount(path)
       \/ \E to \in LinkTo : Symlink(to, path)
       \/ \E new \in Args : Link(path, new) \/ Rename(path, new)
       \/ \E dest \in Dest : Mount(dest, path)

PathsSpec == PathsInit /\ [][PathsNext]_pvars

-----------------------------------------------------------------------------
(* Properties                                                              *)

\* Mounts, the current directory and what is on the disk have their types.
PathsTypeOK ==
    /\ \A w \in DOMAIN disk : Len(w) <= MaxDepth /\ disk[w] \in Thing
    /\ \A i \in DOMAIN mounts : mounts[i].at \in Place /\ mounts[i].dest \in Dest
    /\ Len(mounts) <= MaxMounts
    /\ pwd \in Seq(Name)

\* The abstract mounts: for each place, the destinations in mount order.
StackOf(list, at) ==
    LET upto[n \in 0..Len(list)] ==
            IF n = 0 THEN <<>>
            ELSE IF list[n].at = at THEN Append(upto[n - 1], list[n].dest)
            ELSE upto[n - 1]
    IN  upto[Len(list)]

StackAt(at) == StackOf(mounts, at)

Stacks == INSTANCE MountSpec WITH mounted <- [at \in Place |-> StackAt(at)]

\* The one list of mounts that sys_mount and sys_umount keep for all places
\* behaves as a stack for each.
MountsAreStacks == Stacks!Spec

\* Where no link is involved, TranverseMountPoints finds every path in the
\* mount that covers it, the last one of the deepest place.  It starts at
\* m_pRootMountPoint: a mount on "/" itself covers nothing.
SeesTopMount ==
    (\A w \in DOMAIN disk : disk[w].kind # "lnk")
        => \A path \in Place :
              Traverse(path, TRUE).win =
                  IF Stacks!Covering(path) \subseteq {<<>>} THEN <<Root>> \o path
                  ELSE LET at == Stacks!Deepest(path)
                       IN  <<LastOf(StackAt(at))>> \o
                           SubSeq(path, Len(at) + 1, Len(path))

\* The elements before the last do not go through a link.
PlainFront(path) ==
    LET stack == SetUnixPath(path)
    IN  stack # <<>> => Traverse(Parent(stack), TRUE).win
                            = Traverse(Parent(stack), FALSE).win

\* lstat and stat ("don't resolve", "DO resolve symbolic links") agree on
\* everything that is no link itself and is not reached through one.
LstatStatAgree ==
    \A path \in Args :
        PlainFront(path) /\ Lstat(path) # "lnk"
            => /\ Stat(path) = Lstat(path) /\ Stat64(path) = Lstat64(path)
               /\ Access(path) = (Lstat64(path) # "none")
               /\ ~Readlink(path).ok

OneMountEach == \A at \in Place : Len(StackAt(at)) <= 1

\* Without stacked mounts and links, the path that a process is told as its
\* current directory is where it said it would go: relative names mean the
\* same afterwards (GetUnixPath, "build the unix path from the elements").
UnixPathKept ==
    OneMountEach /\ (\A w \in DOMAIN disk : disk[w].kind # "lnk")
        => \A path \in Args : Unix(path, TRUE) = SetUnixPath(path)

\* TranverseMountPoints resolves a path to the right place, follows links
\* only where it is told to, and keeps the Unix name.
PathsResolve == SeesTopMount /\ LstatStatAgree /\ UnixPathKept
=============================================================================
