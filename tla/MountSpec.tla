------------------------------ MODULE MountSpec ------------------------------
(***************************************************************************)
(* What mounting promises: each place of the tree has a stack of the       *)
(* filesystems mounted there, the last one mounted is seen, and umount     *)
(* brings back the one below it.                                           *)
(***************************************************************************)
EXTENDS Integers, Sequences

CONSTANTS Place, Dest

VARIABLE mounted      \* a stack for each place

Init == mounted = [at \in Place |-> <<>>]

Mount(at, dest) == mounted' = [mounted EXCEPT ![at] = Append(@, dest)]

Umount(at) ==
    /\ mounted[at] # <<>>
    /\ mounted' = [mounted EXCEPT ![at] = SubSeq(@, 1, Len(@) - 1)]

Next ==
    \E at \in Place : Umount(at) \/ \E dest \in Dest : Mount(at, dest)

Spec == Init /\ [][Next]_mounted

\* The place, in front of a path or equal to it, whose mount the path is in.
\* Without one it is in the root filesystem.
Covering(path) ==
    {at \in Place : /\ mounted[at] # <<>>
                    /\ Len(at) <= Len(path) /\ at = SubSeq(path, 1, Len(at))}

Deepest(path) == CHOOSE at \in Covering(path) :
                    \A other \in Covering(path) : Len(other) <= Len(at)
=============================================================================
