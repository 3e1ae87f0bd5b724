---------------------------- MODULE MemTransfer ----------------------------
(***************************************************************************)
(* MemoryHelper::ProcessReadWriteMemory: the copy of len bytes between a   *)
(* buffer of the kernel (local) and the memory of a process (remote), in   *)
(* pieces "to ensure that neither end (src,dest) crosses 4k".              *)
(*                                                                         *)
(* Addresses are DWORDs, 0..Top-1, and arithmetic on them is modulo Top.   *)
(* Read and write differ only in which way the bytes go.                   *)
(***************************************************************************)
EXTENDS Integers

CONSTANTS
    PageSize,   \* SIZE4k
    Pages       \* the number of pages in the address space

ASSUME PageAssumption == PageSize \in Nat \ {0} /\ Pages \in Nat /\ Pages > 1

Top == PageSize * Pages   \* 2^32

VARIABLES
    local0, remote0, len,   \* the arguments
    local, remote,          \* pLocal, pRemote
    left,                   \* dwAmountLeft
    localToCopy,            \* dwLocalToCopy
    remoteToCopy,           \* dwRemoteToCopy
    pc,                     \* "piece1", "piece2" or "done"
    moved,                  \* <<local, remote>> of every byte transferred
    skipped                 \* offsets of the pieces Win32 refused

args == <<local0, remote0, len>>
vars == <<args, local, remote, left, localToCopy, remoteToCopy, pc, moved,
          skipped>>

\* Mutant of ToNext4k: a whole page wherever p is.
WholePage(p) == PageSize

\* ((p & 0xFFFFF000) + SIZE4k) - p, in DWORDs
ToNext4k(p) == (((p - (p % PageSize) + PageSize) % Top) - p) % Top

\* Mutant of AtMost: the request's length is not looked at.
NoBound(n, bound) == n

AtMost(n, bound) == IF n > bound THEN bound ELSE n

\* The buffers the callers pass do not run over the end of the address space.
Init ==
    /\ local0 \in 0..(Top - 1) /\ remote0 \in 0..(Top - 1)
    /\ len \in 0..(Top - 1)
    /\ local0 + len <= Top /\ remote0 + len <= Top
    /\ local = local0 /\ remote = remote0 /\ left = len
    /\ localToCopy = 0 /\ remoteToCopy = 0
    /\ pc = "piece1"
    /\ moved = {} /\ skipped = {}

\* One ReadProcessMemory or WriteProcessMemory of n bytes.  When it fails the
\* code traces the error and goes on ("keep trying") behind the piece.
Xfer(n) ==
    \/ /\ moved' = moved \union {<<local + k, remote + k>> : k \in 0..(n - 1)}
       /\ UNCHANGED skipped
    \/ /\ skipped' = skipped \union ((local - local0)..(local - local0 + n - 1))
       /\ UNCHANGED moved

\* The first block of a round: up to the next local boundary, and not past
\* the next remote one.
Piece1 ==
    /\ pc = "piece1"
    /\ left # 0
    /\ localToCopy' = AtMost(ToNext4k(local), left)
    /\ LET n == AtMost(ToNext4k(remote), localToCopy')
       IN  /\ Xfer(n)
           /\ local' = (local + n) % Top
           /\ remote' = (remote + n) % Top
           /\ remoteToCopy' = localToCopy' - n
    /\ pc' = "piece2"
    /\ UNCHANGED <<args, left>>

\* Mutant of Piece2: pRemote is not moved on behind the second block.
Piece2RemoteStays ==
    /\ pc = "piece2"
    /\ \/ /\ remoteToCopy # 0
          /\ Xfer(remoteToCopy)
          /\ local' = (local + remoteToCopy) % Top
          /\ UNCHANGED remote
       \/ /\ remoteToCopy = 0
          /\ UNCHANGED <<local, remote, moved, skipped>>
    /\ left' = left - localToCopy
    /\ localToCopy' = 0 /\ remoteToCopy' = 0
    /\ pc' = "piece1"
    /\ UNCHANGED args

\* The second block: "all the rest" of the local piece, if there is any.
Piece2 ==
    /\ pc = "piece2"
    /\ \/ /\ remoteToCopy # 0
          /\ Xfer(remoteToCopy)
          /\ local' = (local + remoteToCopy) % Top
          /\ remote' = (remote + remoteToCopy) % Top
       \/ /\ remoteToCopy = 0
          /\ UNCHANGED <<local, remote, moved, skipped>>
    /\ left' = left - localToCopy
    /\ localToCopy' = 0 /\ remoteToCopy' = 0
    /\ pc' = "piece1"
    /\ UNCHANGED args

Return ==
    /\ pc = "piece1"
    /\ left = 0
    /\ pc' = "done"
    /\ UNCHANGED <<args, local, remote, left, localToCopy, remoteToCopy,
                   moved, skipped>>

Next == Piece1 \/ Piece2 \/ Return

\* The loop is one thread's, and it runs.
Spec == Init /\ [][Next]_vars

-----------------------------------------------------------------------------
TypeOK ==
    /\ local0 \in 0..(Top - 1) /\ remote0 \in 0..(Top - 1)
    /\ len \in 0..(Top - 1)
    /\ local0 + len <= Top /\ remote0 + len <= Top
    /\ local \in 0..(Top - 1) /\ remote \in 0..(Top - 1)
    /\ left \in 0..len
    /\ localToCopy \in 0..PageSize /\ remoteToCopy \in 0..PageSize
    /\ pc \in {"piece1", "piece2", "done"}
    /\ moved \subseteq (0..(Top - 1)) \X (0..(Top - 1))
    /\ skipped \subseteq 0..(len - 1)

SamePage(a, n) == a \div PageSize = (a + n - 1) \div PageSize

\* "neither end (src,dest) crosses 4k": the bytes that one call moves or
\* skips lie in one page of the local buffer and in one page of the remote
\* one, although only the first block of a round is measured against the
\* remote boundary.
NeverCrosses ==
    [][LET n == (local' - local) % Top
       IN  n > 0 => SamePage(local, n) /\ SamePage(remote, n)]_vars

\* When the routine returns, each byte of the request has been moved to its
\* own place, or was in a piece that Win32 refused, and never both; and no
\* byte outside the request was touched.
MovesEveryByte ==
    pc = "done" =>
        /\ moved = {<<local0 + k, remote0 + k>> : k \in (0..(len - 1)) \ skipped}
        /\ skipped \subseteq 0..(len - 1)
=============================================================================
