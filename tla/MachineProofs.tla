---------------------------- MODULE MachineProofs ---------------------------
(***************************************************************************)
(* Proofs about the machine below the system calls: the copies between     *)
(* kernel and process, for every page size, every size of the address      *)
(* space and every request; the calls that the kernel injects into the     *)
(* stub and the frame that restores GS, for any set of selectors; and      *)
(* select's poll loop, nanosleep and the clocks, for every period of the   *)
(* tick count, poll, lateness and timeout, and every scale of the clocks.  *)
(***************************************************************************)
EXTENDS MemTransfer, Inject, Timing, TLAPS

\* The number of bytes the routine has put behind it.
Done == len - left + (localToCopy - remoteToCopy)

Offsets(x) == 0..(x - 1)

\* Where the two pointers stand, and what is left of the current round: the
\* rest of a local piece begins at a remote boundary and ends within the
\* local page.
Position ==
    /\ localToCopy <= left
    /\ local = (local0 + Done) % Top
    /\ remote = (remote0 + Done) % Top
    /\ pc # "piece2" => localToCopy = 0 /\ remoteToCopy = 0
    /\ pc = "done" => left = 0
    /\ pc = "piece2" =>
        /\ remoteToCopy < localToCopy
        /\ remoteToCopy # 0 => /\ remote % PageSize = 0
                               /\ (local % PageSize) + remoteToCopy <= PageSize

\* Every byte behind the pointers has been moved or was refused.
Account ==
    /\ skipped \subseteq Offsets(Done)
    /\ moved = {<<local0 + x, remote0 + x>> : x \in Offsets(Done) \ skipped}

IndInv == TypeOK /\ Position /\ Account

-----------------------------------------------------------------------------
\* Division with a quotient and a remainder.
LEMMA DivMod ==
    ASSUME NEW p \in Nat, NEW d \in Nat \ {0}
    PROVE  /\ p = d * (p \div d) + (p % d)
           /\ p % d \in 0..(d - 1)
           /\ p \div d \in Nat
  OBVIOUS

\* A quotient and a remainder are the only ones.
LEMMA DivUnique ==
    ASSUME NEW d \in Nat \ {0}, NEW q \in Nat, NEW r \in 0..(d - 1)
    PROVE  /\ (d * q + r) \div d = q
           /\ (d * q + r) % d = r
  OBVIOUS

\* A number below the modulus is its own remainder.
LEMMA SmallMod ==
    ASSUME NEW d \in Nat \ {0}, NEW r \in 0..(d - 1)
    PROVE  r % d = r
  OBVIOUS

\* The address space is larger than a page.
LEMMA TopNat == Top \in Nat /\ Top > PageSize /\ PageSize \in Nat \ {0}
  BY PageAssumption DEF Top

\* The distance to the next boundary, although the boundary behind the last
\* page is address 0.
LEMMA Boundary ==
    ASSUME NEW p \in 0..(Top - 1)
    PROVE  ToNext4k(p) = PageSize - (p % PageSize)
  <1> DEFINE q == p \div PageSize
             r == p % PageSize
  <1>0. p \in Nat
    BY TopNat
  <1>1. p = PageSize * q + r /\ r \in 0..(PageSize - 1) /\ q \in Nat
    BY <1>0, DivMod, TopNat, Zenon
  <1>2. q < Pages
    BY <1>1, PageAssumption DEF Top
  <1>3. PageSize * q + PageSize <= Top
    BY <1>1, <1>2, PageAssumption DEF Top
  <1> HIDE DEF q, r
  <1>4. ToNext4k(p) = (((p - r + PageSize) % Top) - p) % Top
    BY DEF ToNext4k, r
  <1>5. p - r + PageSize \in 1..Top
    BY <1>1, <1>3, TopNat
  <1>6. CASE p - r + PageSize < Top
    <2>1. (p - r + PageSize) % Top = p - r + PageSize
      BY <1>5, <1>6, TopNat, SmallMod
    <2>2. (p - r + PageSize) - p = PageSize - r /\ PageSize - r \in 0..(Top - 1)
      BY <1>1, TopNat
    <2>3. (PageSize - r) % Top = PageSize - r
      BY <2>2, TopNat, SmallMod
    <2> QED BY <1>4, <2>1, <2>2, <2>3 DEF r
  <1>7. CASE p - r + PageSize = Top
    <2>1. Top % Top = 0
      BY TopNat
    <2>2. 0 - p = (0 - 1) * Top + (PageSize - r) /\ PageSize - r \in 0..(Top - 1)
      BY <1>1, <1>7, TopNat
    <2>3. (0 - p) % Top = PageSize - r
      BY <2>2, <1>1, TopNat
    <2> QED BY <1>4, <1>7, <2>1, <2>3 DEF r
  <1> QED BY <1>5, <1>6, <1>7, TopNat

\* Bytes that do not reach past the end of their page are in one page.
LEMMA InOnePage ==
    ASSUME NEW a \in Nat, NEW n \in Nat \ {0}, (a % PageSize) + n <= PageSize
    PROVE  SamePage(a, n)
  <1> DEFINE q == a \div PageSize
             r == a % PageSize
  <1>1. a = PageSize * q + r /\ r \in 0..(PageSize - 1) /\ q \in Nat
    BY DivMod, TopNat, Zenon
  <1>2. r + n - 1 \in 0..(PageSize - 1) /\ a + n - 1 = PageSize * q + (r + n - 1)
    BY <1>1, TopNat
  <1>3. (PageSize * q + (r + n - 1)) \div PageSize = q
    BY <1>1, <1>2, DivUnique, TopNat, Zenon
  <1> QED BY <1>2, <1>3 DEF SamePage

-----------------------------------------------------------------------------
\* The pieces of a request never leave the address space, so the pointers
\* are the plain sums while bytes are left.
LEMMA NoAddressWrap ==
    ASSUME IndInv, Done < len
    PROVE  /\ Done \in Nat
           /\ local = local0 + Done /\ remote = remote0 + Done
           /\ local \in Nat /\ remote \in Nat
  <1>1. Done \in Nat
    BY TopNat DEF IndInv, TypeOK, Position, Done
  <1> DEFINE d == Done
  <1>2. d \in Nat /\ d < len
    BY <1>1
  <1> HIDE DEF d
  <1>3. local0 + d \in 0..(Top - 1) /\ remote0 + d \in 0..(Top - 1)
    BY <1>2, TopNat DEF IndInv, TypeOK
  <1>4. (local0 + d) % Top = local0 + d /\ (remote0 + d) % Top = remote0 + d
    BY <1>3, TopNat, SmallMod
  <1>5. local = (local0 + d) % Top /\ remote = (remote0 + d) % Top
    BY DEF IndInv, Position, d
  <1> QED BY <1>1, <1>3, <1>4, <1>5, TopNat DEF d

\* A transfer of the next n bytes keeps the account.
LEMMA XferAccount ==
    ASSUME IndInv, NEW n \in Nat, n > 0, Done + n <= len, Xfer(n)
    PROVE  /\ skipped' \subseteq Offsets(Done + n)
           /\ moved' = {<<local0 + x, remote0 + x>> :
                            x \in Offsets(Done + n) \ skipped'}
           /\ skipped' \subseteq 0..(len - 1)
           /\ moved' \subseteq (0..(Top - 1)) \X (0..(Top - 1))
  <1> DEFINE d == Done
  <1>1. len \in Nat /\ local0 \in Nat /\ remote0 \in Nat
        /\ local0 + len <= Top /\ remote0 + len <= Top
    BY TopNat DEF IndInv, TypeOK
  <1>2. d \in Nat /\ local = local0 + d /\ remote = remote0 + d
    <2>1. Done < len \/ ~(Done \in Int)
      BY <1>1
    <2>2. Done \in Int
      BY TopNat DEF IndInv, TypeOK, Done
    <2> QED BY <2>1, <2>2, NoAddressWrap
  <1>3. /\ skipped \subseteq 0..(d - 1)
        /\ moved = {<<local0 + x, remote0 + x>> : x \in (0..(d - 1)) \ skipped}
    BY DEF IndInv, Account, Offsets
  <1>4. d + n <= len
    OBVIOUS
  <1> HIDE DEF d
  <1>5. /\ skipped' \subseteq 0..(d + n - 1)
        /\ moved' = {<<local0 + x, remote0 + x>> : x \in (0..(d + n - 1)) \ skipped'}
    <2>1. CASE /\ moved' = moved \union {<<local + x, remote + x>> : x \in 0..(n - 1)}
               /\ skipped' = skipped
      <3>1. {<<local + x, remote + x>> : x \in 0..(n - 1)}
              = {<<local0 + x, remote0 + x>> : x \in d..(d + n - 1)}
        <4>1. ASSUME NEW x \in 0..(n - 1)
              PROVE  /\ d + x \in d..(d + n - 1)
                     /\ <<local + x, remote + x>> = <<local0 + (d + x), remote0 + (d + x)>>
          BY <1>1, <1>2
        <4>2. ASSUME NEW x \in d..(d + n - 1)
              PROVE  /\ x - d \in 0..(n - 1)
                     /\ <<local0 + x, remote0 + x>> = <<local + (x - d), remote + (x - d)>>
          BY <1>1, <1>2
        <4> QED BY <4>1, <4>2
      <3>2. (0..(d + n - 1)) \ skipped = ((0..(d - 1)) \ skipped) \union (d..(d + n - 1))
        BY <1>2, <1>3
      <3>3. skipped \subseteq 0..(d + n - 1)
        BY <1>2, <1>3
      <3> QED BY <1>3, <2>1, <3>1, <3>2, <3>3
    <2>2. CASE /\ skipped' = skipped \union ((local - local0)..(local - local0 + n - 1))
               /\ moved' = moved
      <3>1. skipped' = skipped \union (d..(d + n - 1))
        BY <1>1, <1>2, <2>2
      <3>2. (0..(d + n - 1)) \ skipped' = (0..(d - 1)) \ skipped
        BY <1>2, <1>3, <3>1
      <3>3. skipped' \subseteq 0..(d + n - 1)
        BY <1>2, <1>3, <3>1
      <3> QED BY <1>3, <2>2, <3>2, <3>3
    <2> QED BY <2>1, <2>2 DEF Xfer
  <1>6. 0..(d + n - 1) \subseteq 0..(len - 1)
    BY <1>1, <1>2, <1>4
  <1>7. ASSUME NEW x \in 0..(len - 1)
        PROVE  local0 + x \in 0..(Top - 1) /\ remote0 + x \in 0..(Top - 1)
    BY <1>1, TopNat
  <1>8. moved' \subseteq (0..(Top - 1)) \X (0..(Top - 1))
    BY <1>5, <1>6, <1>7
  <1>9. Offsets(Done + n) = 0..(d + n - 1)
    <2>1. Done = d
      BY DEF d
    <2> QED BY <1>2, <2>1 DEF Offsets
  <1>10. skipped' \subseteq 0..(len - 1)
    BY <1>5, <1>6
  <1> QED BY <1>5, <1>8, <1>9, <1>10

LEMMA InitInv == Init => IndInv
  <1> SUFFICES ASSUME Init PROVE IndInv
    OBVIOUS
  <1>1. TypeOK
    BY TopNat DEF Init, TypeOK
  <1>2. Done = 0
    BY <1>1 DEF Init, Done, TypeOK
  <1>3. (local0 + 0) % Top = local0 /\ (remote0 + 0) % Top = remote0
    BY <1>1, TopNat, SmallMod DEF TypeOK
  <1>4. Position
    BY <1>1, <1>2, <1>3 DEF Init, Position, TypeOK
  <1>5. Account
    BY <1>2 DEF Init, Account, Offsets
  <1> QED BY <1>1, <1>4, <1>5 DEF IndInv

\* The smaller of the way to a boundary and what there is to copy.
LEMMA Least ==
    ASSUME NEW b \in 0..(PageSize - 1), NEW m \in Nat, m > 0
    PROVE  LET n == AtMost(PageSize - b, m)
           IN  /\ n \in Nat /\ n > 0 /\ n <= m /\ b + n <= PageSize
               /\ n <= PageSize
               /\ n < m => b + n = PageSize
  BY TopNat DEF AtMost

\* The sizes of the two pieces of a round.
LEMMA Piece1Sizes ==
    ASSUME IndInv, Piece1
    PROVE  \E m, n \in Nat :
              /\ n > 0 /\ n <= m /\ m <= left /\ m <= PageSize
              /\ (local % PageSize) + m <= PageSize
              /\ (remote % PageSize) + n <= PageSize
              /\ n < m => (remote % PageSize) + n = PageSize
              /\ Xfer(n)
              /\ local' = (local + n) % Top
              /\ remote' = (remote + n) % Top
              /\ localToCopy' = m /\ remoteToCopy' = m - n
              /\ Done = len - left
  <1> DEFINE a == local % PageSize
             b == remote % PageSize
             m == AtMost(ToNext4k(local), left)
             n == AtMost(ToNext4k(remote), m)
  <1>1. /\ local \in 0..(Top - 1) /\ remote \in 0..(Top - 1)
        /\ left \in Nat /\ left > 0 /\ len \in Nat
        /\ local \in Nat /\ remote \in Nat
        /\ localToCopy = 0 /\ remoteToCopy = 0
    BY TopNat DEF IndInv, TypeOK, Position, Piece1
  <1>2. a \in 0..(PageSize - 1) /\ b \in 0..(PageSize - 1)
    BY <1>1, DivMod, TopNat
  <1>3. ToNext4k(local) = PageSize - a /\ ToNext4k(remote) = PageSize - b
    BY <1>1, Boundary
  <1>4. /\ localToCopy' = m
        /\ Xfer(n)
        /\ local' = (local + n) % Top
        /\ remote' = (remote + n) % Top
        /\ remoteToCopy' = m - n
    BY DEF Piece1
  <1>5. Done = len - left
    BY <1>1 DEF Done
  <1> HIDE DEF a, b
  <1>6. /\ m \in Nat /\ m > 0 /\ m <= left
        /\ a + m <= PageSize /\ m <= PageSize
    BY <1>1, <1>2, <1>3, Least
  <1> HIDE DEF m
  <1>7. /\ n \in Nat /\ n > 0 /\ n <= m /\ b + n <= PageSize
        /\ n < m => b + n = PageSize
    BY <1>2, <1>3, <1>6, Least
  <1> HIDE DEF n
  <1> QED BY <1>4, <1>5, <1>6, <1>7 DEF a, b

\* Remainders of a pointer that moved by n, back inside the address space.
LEMMA Advance ==
    ASSUME NEW p0 \in Nat, NEW d \in Nat, NEW n \in Nat, NEW p \in Nat,
           p = p0 + d
    PROVE  (p + n) % Top = (p0 + (d + n)) % Top
  OBVIOUS

\* A pointer moved to the end of its page stands at a boundary.
LEMMA AtBoundary ==
    ASSUME NEW p \in Nat, NEW n \in Nat, (p % PageSize) + n = PageSize
    PROVE  (p + n) % PageSize = 0
  <1>1. PICK q \in Nat : p = PageSize * q + (p % PageSize)
    BY DivMod, TopNat, Zenon
  <1>2. p % PageSize \in Nat
    BY DivMod, TopNat
  <1>3. p + n = PageSize * (q + 1) + 0
    BY <1>1, <1>2, TopNat
  <1>4. 0 \in 0..(PageSize - 1) /\ q + 1 \in Nat
    BY TopNat
  <1>5. (PageSize * (q + 1) + 0) % PageSize = 0
    BY <1>4, DivUnique, TopNat
  <1> QED BY <1>3, <1>5

\* A pointer moved within its page keeps its place in it.
LEMMA InPage ==
    ASSUME NEW p \in Nat, NEW n \in Nat, (p % PageSize) + n < PageSize
    PROVE  (p + n) % PageSize = (p % PageSize) + n
  <1>1. PICK q \in Nat : p = PageSize * q + (p % PageSize)
    BY DivMod, TopNat, Zenon
  <1>2. p % PageSize \in Nat
    BY DivMod, TopNat
  <1>3. p + n = PageSize * q + ((p % PageSize) + n)
    BY <1>1, <1>2, TopNat
  <1>4. (p % PageSize) + n \in 0..(PageSize - 1)
    BY <1>2, TopNat
  <1>5. \A r \in 0..(PageSize - 1) : (PageSize * q + r) % PageSize = r
    BY DivUnique, TopNat
  <1>6. (PageSize * q + ((p % PageSize) + n)) % PageSize = (p % PageSize) + n
    BY <1>4, <1>5, Zenon
  <1> QED BY <1>3, <1>6, Zenon

LEMMA Piece1Step == IndInv /\ Piece1 => IndInv'
  <1> SUFFICES ASSUME IndInv, Piece1 PROVE IndInv'
    OBVIOUS
  <1>1. PICK m, n \in Nat :
              /\ n > 0 /\ n <= m /\ m <= left /\ m <= PageSize
              /\ (local % PageSize) + m <= PageSize
              /\ (remote % PageSize) + n <= PageSize
              /\ n < m => (remote % PageSize) + n = PageSize
              /\ Xfer(n)
              /\ local' = (local + n) % Top
              /\ remote' = (remote + n) % Top
              /\ localToCopy' = m /\ remoteToCopy' = m - n
              /\ Done = len - left
    BY Piece1Sizes
  <1>a. /\ n > 0 /\ n <= m /\ m <= left /\ m <= PageSize
        /\ localToCopy' = m /\ remoteToCopy' = m - n
        /\ Done = len - left
    BY <1>1, Zenon
  <1>2. /\ len \in Nat /\ left \in 0..len
        /\ local0 \in Nat /\ remote0 \in Nat
        /\ local0 + len <= Top /\ remote0 + len <= Top
    BY TopNat DEF IndInv, TypeOK
  <1>3. Done \in Nat /\ Done + n <= len /\ Done < len
    BY <1>a, <1>2
  <1>4. /\ local = local0 + Done /\ remote = remote0 + Done
        /\ local \in Nat /\ remote \in Nat
    BY <1>3, NoAddressWrap
  <1>5. /\ pc' = "piece2" /\ left' = left
        /\ local0' = local0 /\ remote0' = remote0 /\ len' = len
    BY DEF Piece1, args
  <1>6. Done' = Done + n
    <2>1. Done' = len' - left' + (localToCopy' - remoteToCopy')
      BY DEF Done
    <2> QED BY <1>a, <1>2, <1>5, <2>1
  <1>7. TypeOK'
    <2>1. local' \in 0..(Top - 1) /\ remote' \in 0..(Top - 1)
      <3>1. local + n \in Nat /\ remote + n \in Nat /\ Top \in Nat \ {0}
        BY <1>4, TopNat
      <3>2. (local + n) % Top \in 0..(Top - 1) /\ (remote + n) % Top \in 0..(Top - 1)
        BY <3>1, DivMod, Zenon
      <3> QED BY <1>1, <3>2, Zenon
    <2>2. /\ skipped' \subseteq 0..(len - 1)
          /\ moved' \subseteq (0..(Top - 1)) \X (0..(Top - 1))
      BY <1>1, <1>3, XferAccount
    <2>3. localToCopy' \in 0..PageSize /\ remoteToCopy' \in 0..PageSize
      BY <1>a, TopNat
    <2> QED BY <1>5, <2>1, <2>2, <2>3 DEF IndInv, TypeOK, Top
  <1>8. Position'
    <2>1. local' = (local0' + Done') % Top /\ remote' = (remote0' + Done') % Top
      BY <1>1, <1>2, <1>3, <1>4, <1>5, <1>6, Advance
    <2>2. ASSUME remoteToCopy' # 0
          PROVE  /\ remote' % PageSize = 0
                 /\ (local' % PageSize) + remoteToCopy' <= PageSize
      <3>1. n < m /\ Done + n < len
        BY <1>a, <1>2, <2>2
      <3>2. local + n \in 0..(Top - 1) /\ remote + n \in 0..(Top - 1)
        BY <1>2, <1>3, <1>4, <3>1, TopNat
      <3>3. local' = local + n /\ remote' = remote + n
        BY <1>1, <3>2, SmallMod, TopNat
      <3>4. remote' % PageSize = 0
        BY <1>1, <1>4, <3>1, <3>3, AtBoundary
      <3>5. local % PageSize \in Nat
        BY <1>4, DivMod, TopNat
      <3>6. local' % PageSize = (local % PageSize) + n
        BY <1>1, <1>4, <3>1, <3>3, <3>5, InPage, TopNat
      <3>7. (local % PageSize) + m <= PageSize
        BY <1>1, Zenon
      <3> QED BY <1>a, <3>4, <3>5, <3>6, <3>7, TopNat
    <2>3. remoteToCopy' < localToCopy' /\ localToCopy' <= left'
      BY <1>a, <1>5
    <2> QED BY <1>5, <2>1, <2>2, <2>3 DEF Position, Top
  <1>9. Account'
    BY <1>1, <1>3, <1>5, <1>6, XferAccount DEF Account
  <1> QED BY <1>7, <1>8, <1>9 DEF IndInv

LEMMA Piece2Step == IndInv /\ Piece2 => IndInv'
  <1> SUFFICES ASSUME IndInv, Piece2 PROVE IndInv'
    OBVIOUS
  <1>1. /\ len \in Nat /\ left \in 0..len
        /\ local0 \in Nat /\ remote0 \in Nat
        /\ local0 + len <= Top /\ remote0 + len <= Top
        /\ localToCopy \in 0..PageSize /\ remoteToCopy \in 0..PageSize
        /\ localToCopy <= left /\ remoteToCopy < localToCopy
    BY TopNat DEF IndInv, TypeOK, Position, Piece2
  <1>2. /\ pc' = "piece1" /\ left' = left - localToCopy
        /\ localToCopy' = 0 /\ remoteToCopy' = 0
        /\ local0' = local0 /\ remote0' = remote0 /\ len' = len
    BY DEF Piece2, args
  <1>3. Done = len - left + (localToCopy - remoteToCopy)
    BY DEF Done
  <1>4. Done \in Nat /\ Done + remoteToCopy <= len
    BY <1>1, <1>3, TopNat
  <1>5. Done' = Done + remoteToCopy
    <2>1. Done' = len - (left - localToCopy) + (0 - 0)
      BY <1>2 DEF Done
    <2> QED BY <1>1, <1>3, <2>1, TopNat
  <1>6. left - localToCopy \in 0..len
    BY <1>1, TopNat
  <1>7. CASE remoteToCopy # 0
    <2>1. /\ Xfer(remoteToCopy)
          /\ local' = (local + remoteToCopy) % Top
          /\ remote' = (remote + remoteToCopy) % Top
      BY <1>7 DEF Piece2
    <2>2. remoteToCopy \in Nat /\ remoteToCopy > 0 /\ Done < len
      BY <1>1, <1>4, <1>7, TopNat
    <2>3. /\ local = local0 + Done /\ remote = remote0 + Done
          /\ local \in Nat /\ remote \in Nat
      BY <2>2, NoAddressWrap
    <2>4. /\ skipped' \subseteq Offsets(Done + remoteToCopy)
          /\ moved' = {<<local0 + x, remote0 + x>> :
                            x \in Offsets(Done + remoteToCopy) \ skipped'}
          /\ skipped' \subseteq 0..(len - 1)
          /\ moved' \subseteq (0..(Top - 1)) \X (0..(Top - 1))
      BY <1>4, <2>1, <2>2, XferAccount
    <2>5. local' \in 0..(Top - 1) /\ remote' \in 0..(Top - 1)
      <3>1. local + remoteToCopy \in Nat /\ remote + remoteToCopy \in Nat
            /\ Top \in Nat \ {0}
        BY <2>2, <2>3, TopNat
      <3>2. /\ (local + remoteToCopy) % Top \in 0..(Top - 1)
            /\ (remote + remoteToCopy) % Top \in 0..(Top - 1)
        BY <3>1, DivMod, Zenon
      <3> QED BY <2>1, <3>2
    <2>6. TypeOK'
      BY <1>2, <1>6, <2>4, <2>5, TopNat DEF IndInv, TypeOK, Top
    <2>7. local' = (local0' + Done') % Top /\ remote' = (remote0' + Done') % Top
      BY <1>1, <1>2, <1>4, <1>5, <2>1, <2>2, <2>3, Advance
    <2>8. Position'
      BY <1>2, <1>6, <2>7 DEF Position, Top
    <2>9. Account'
      BY <1>2, <1>5, <2>4 DEF Account
    <2> QED BY <2>6, <2>8, <2>9 DEF IndInv
  <1>8. CASE remoteToCopy = 0
    <2>1. UNCHANGED <<local, remote, moved, skipped>>
      BY <1>8 DEF Piece2
    <2>2. TypeOK'
      BY <1>2, <1>6, <2>1, TopNat DEF IndInv, TypeOK, Top
    <2>3. Done' = Done
      BY <1>4, <1>5, <1>8
    <2>4. Position'
      BY <1>2, <1>6, <2>1, <2>3 DEF IndInv, Position, Top
    <2>5. Account'
      BY <1>2, <2>1, <2>3 DEF IndInv, Account
    <2> QED BY <2>2, <2>4, <2>5 DEF IndInv
  <1> QED BY <1>7, <1>8

LEMMA ReturnStep == IndInv /\ Return => IndInv'
  BY DEF IndInv, TypeOK, Position, Account, Done, Return, args, Top

LEMMA StutterStep == IndInv /\ UNCHANGED vars => IndInv'
  BY DEF IndInv, TypeOK, Position, Account, Done, vars, args, Top

LEMMA Invariance == Spec => []IndInv
  <1>1. IndInv /\ [Next]_vars => IndInv'
    BY Piece1Step, Piece2Step, ReturnStep, StutterStep DEF Next
  <1> QED BY InitInv, <1>1, PTL DEF Spec

-----------------------------------------------------------------------------
\* The pointers stay addresses and the counters stay within the request,
\* whatever the request of ProcessReadWriteMemory.
THEOREM TypeCorrect == Spec => []TypeOK
  BY Invariance, PTL DEF IndInv

\* Each byte of the request is transferred to its own place or was in a
\* piece that Win32 refused, when ProcessReadWriteMemory returns.
THEOREM EveryByteMoved == Spec => []MovesEveryByte
  <1>1. IndInv => MovesEveryByte
    <2> SUFFICES ASSUME IndInv, pc = "done"
                 PROVE  /\ moved = {<<local0 + x, remote0 + x>> :
                                        x \in (0..(len - 1)) \ skipped}
                        /\ skipped \subseteq 0..(len - 1)
      BY DEF MovesEveryByte
    <2>1. Done = len
      BY DEF IndInv, TypeOK, Position, Done
    <2> QED BY <2>1 DEF IndInv, Account, Offsets
  <1> QED BY Invariance, <1>1, PTL

\* How far a pointer moved can be read off its two values, also when it
\* reached the end of the address space.
LEMMA Distance ==
    ASSUME NEW p \in 0..(Top - 1), NEW n \in Nat, n <= PageSize, p + n <= Top
    PROVE  (((p + n) % Top) - p) % Top = n
  <1>1. p \in Nat /\ n \in 0..(Top - 1)
    BY TopNat
  <1>2. CASE p + n < Top
    <2>1. p + n \in 0..(Top - 1) /\ (p + n) - p = n
      BY <1>1, <1>2, TopNat
    <2>2. (p + n) % Top = p + n /\ n % Top = n
      BY <1>1, <2>1, SmallMod, TopNat
    <2> QED BY <2>1, <2>2
  <1>3. CASE p + n = Top
    <2>1. Top % Top = 0
      BY TopNat
    <2>2. 0 - p = (0 - 1) * Top + n
      BY <1>1, <1>3, TopNat
    <2>3. (0 - p) % Top = n
      BY <1>1, <2>2, TopNat
    <2> QED BY <1>3, <2>1, <2>3
  <1> QED BY <1>1, <1>2, <1>3, TopNat

Crossing == LET n == (local' - local) % Top
            IN  n > 0 => SamePage(local, n) /\ SamePage(remote, n)

\* "neither end (src,dest) crosses 4k": one call of ReadProcessMemory or
\* WriteProcessMemory stays within a page on both sides.
THEOREM PiecesWithinPages == Spec => NeverCrosses
  <1>1. IndInv /\ [Next]_vars => [Crossing]_vars
    <2> SUFFICES ASSUME IndInv, Next PROVE Crossing
      BY DEF Crossing
    <2>1. local \in 0..(Top - 1) /\ remote \in 0..(Top - 1)
          /\ local \in Nat /\ remote \in Nat
      BY TopNat DEF IndInv, TypeOK
    <2>2. ASSUME local' = local PROVE Crossing
      <3>1. (local' - local) % Top = 0
        <4>1. local' - local = 0
          BY <2>1, <2>2
        <4> QED BY <4>1, TopNat, SmallMod
      <3> QED BY <3>1 DEF Crossing
    <2>3. ASSUME NEW n \in Nat, n > 0, n <= PageSize, local + n <= Top,
                 local' = (local + n) % Top,
                 (local % PageSize) + n <= PageSize,
                 (remote % PageSize) + n <= PageSize
          PROVE  Crossing
      <3>1. (local' - local) % Top = n
        BY <2>1, <2>3, Distance
      <3>2. SamePage(local, n) /\ SamePage(remote, n)
        BY <2>1, <2>3, InOnePage
      <3> QED BY <3>1, <3>2 DEF Crossing
    <2>4. ASSUME NEW n \in Nat, Done < len, Done + n <= len
          PROVE  local + n <= Top
      <3>1. Done \in Nat /\ local = local0 + Done
        BY <2>4, NoAddressWrap
      <3>2. local0 \in Nat /\ len \in Nat /\ local0 + len <= Top
        BY TopNat DEF IndInv, TypeOK
      <3> QED BY <2>4, <3>1, <3>2, TopNat
    <2>5. CASE Piece1
      <3>1. PICK m, n \in Nat :
              /\ n > 0 /\ n <= m /\ m <= left /\ m <= PageSize
              /\ (local % PageSize) + m <= PageSize
              /\ (remote % PageSize) + n <= PageSize
              /\ n < m => (remote % PageSize) + n = PageSize
              /\ Xfer(n)
              /\ local' = (local + n) % Top
              /\ remote' = (remote + n) % Top
              /\ localToCopy' = m /\ remoteToCopy' = m - n
              /\ Done = len - left
        BY <2>5, Piece1Sizes
      <3>2. /\ n > 0 /\ n <= m /\ m <= left /\ m <= PageSize
            /\ Done = len - left
        BY <3>1, Zenon
      <3>3. len \in Nat /\ left \in Nat
        BY TopNat DEF IndInv, TypeOK
      <3>4. Done + n <= len /\ Done < len /\ n <= PageSize
        BY <3>2, <3>3, TopNat
      <3>5. local + n <= Top
        BY <2>4, <3>4
      <3>6. (local % PageSize) + n <= PageSize
        <4>1. local % PageSize \in Nat /\ PageSize \in Nat
          BY <2>1, DivMod, TopNat
        <4>2. (local % PageSize) + m <= PageSize
          BY <3>1, Zenon
        <4> QED BY <3>2, <4>1, <4>2
      <3>7. local' = (local + n) % Top /\ (remote % PageSize) + n <= PageSize
        BY <3>1, Zenon
      <3> QED BY <2>3, <3>2, <3>4, <3>5, <3>6, <3>7
    <2>6. CASE Piece2 /\ remoteToCopy # 0
      <3> DEFINE n == remoteToCopy
      <3>1. /\ n \in Nat /\ n > 0 /\ n <= PageSize /\ Done + n <= len /\ Done < len
        BY <2>6, TopNat DEF IndInv, TypeOK, Position, Piece2, Done
      <3>2. local' = (local + n) % Top
        BY <2>6 DEF Piece2
      <3>3. (local % PageSize) + n <= PageSize /\ remote % PageSize = 0
        BY <2>6 DEF IndInv, Position, Piece2
      <3>4. (remote % PageSize) + n <= PageSize
        BY <3>1, <3>3
      <3>5. local + n <= Top
        BY <2>4, <3>1
      <3> QED BY <2>3, <3>1, <3>2, <3>3, <3>4, <3>5
    <2>7. CASE Piece2 /\ remoteToCopy = 0
      BY <2>2, <2>7 DEF Piece2
    <2>8. CASE Return
      BY <2>2, <2>8 DEF Return
    <2> QED BY <2>5, <2>6, <2>7, <2>8 DEF Next
  <1>2. Spec => [][Crossing]_vars
    BY Invariance, <1>1, PTL DEF Spec
  <1> QED BY <1>2 DEF NeverCrosses, Crossing

-----------------------------------------------------------------------------
Places == {"stub", "prog", "frame", "func", "traced", "break"}
Context == [eip : Places, eax : Int, gs : Gs, esp : Int]

Types ==
    /\ k \in {"loop", "serve", "inject", "ended"}
    /\ regs \in Context /\ saved \in Context
    /\ segGs \in Gs /\ frame \in Gs /\ wanted \in Gs
    /\ win \in Int /\ gLastError \in Int /\ dwRet \in Int /\ value \in Int

\* Where the stub's thread is, and which events it can stop with, while the
\* handler thread is in each of its loops.
Control ==
    /\ k = "loop" => /\ ~setup /\ regs.eip \in {"prog", "frame"}
                     /\ ev \in {"none", "int80", "trap"}
                     /\ ev # "none" => regs.eip = "prog"
    /\ again \in {"none", "int80", "trap"}
    /\ k = "serve" => ev = "none" /\ (setup => regs = AtStub)
    /\ k = "inject" => /\ regs.eip \in {"func", "traced", "break"}
                       /\ ev \in {"none", "string", "break", "exit"}
                       /\ regs.eip = "break" <=> ev = "break"
    /\ k = "serve" => regs.eip \in {"stub", "prog", "break"}
    /\ k = "ended" => regs.eip \in {"func", "traced"} /\ ev = "none"

\* The context that a call or the set-up comes back to.
Kept ==
    /\ k = "inject" /\ setup => saved = AtStub
    /\ k \in {"serve", "inject"} /\ ~setup => saved.eip = "prog" /\ saved.esp = 0
    /\ regs.eip = "prog" => regs.esp = 0
    /\ regs.eip = "frame" => regs.esp = FrameSize

\* GS is the program's in the context, in the frame or in T->SegGs, whichever
\* it is taken from next.
GsInPlace ==
    lossy \/ /\ regs.eip = "prog" => regs.gs = wanted
             /\ regs.eip = "frame" => frame = wanted
             /\ k \in {"serve", "inject"} /\ ~setup => segGs = wanted

\* The value and the error of the last call, on their way to the kernel.
Results ==
    /\ win = error /\ gLastError = error
    /\ k \in {"loop", "serve"} => dwRet = value
    /\ k = "inject" /\ ev = "break" => regs.eax = value
    /\ func = "GetLastError" /\ (k \in {"loop", "serve"} \/ ev = "break")
          => value = error

InjectInv == Types /\ Control /\ Kept /\ GsInPlace /\ Results

-----------------------------------------------------------------------------
\* The initial states, where ConvertProcessToKeow begins.
LEMMA InjectInitInv == InjectInit => InjectInv
<1> SUFFICES ASSUME InjectInit PROVE InjectInv
  OBVIOUS
<1>1. AtStub \in Context
  BY InjectConstants DEF AtStub, Context, Places
<1>2. regs \in Context /\ saved \in Context
  BY <1>1 DEF InjectInit
<1>3. Types
  BY <1>2, InjectConstants DEF InjectInit, Types
<1>4. Control /\ Kept /\ GsInPlace /\ Results
  BY DEF InjectInit, AtStub, Control, Kept, GsInPlace, Results
<1>5. QED
  BY <1>3, <1>4 DEF InjectInv

\* ResumeKeowProcess leaves a context.
LEMMA ResumeType ==
    ASSUME NEW r \in Context, NEW g \in Gs, ResumeKeowProcess(r, g)
    PROVE  regs' \in Context /\ frame' \in Gs
<1>1. r.esp + FrameSize \in Int
  BY DEF FrameSize, Context
<1>2. [r EXCEPT !.eip = "frame", !.gs = 0, !.esp = r.esp + FrameSize] \in Context
  BY <1>1, InjectConstants, Zenon DEF Context, Places
<1>3. QED
  BY <1>2 DEF ResumeKeowProcess

\* Each step keeps the invariant.
LEMMA InjectStepInv == InjectInv /\ [InjectNext]_jvars => InjectInv'
<1> SUFFICES ASSUME InjectInv, [InjectNext]_jvars PROVE InjectInv'
  OBVIOUS
<1> USE DEF InjectInv
<1>1. ASSUME NEW v \in Gs, LoadGs(v) PROVE InjectInv'
  BY <1>1
  DEF LoadGs, InProgram, kernelvars, callvars, Types, Control, Kept,
      GsInPlace, Results, Context, Places
<1>2. ASSUME NEW e \in {"int80", "trap"}, Raises(e) PROVE InjectInv'
  BY <1>2
  DEF Raises, InProgram, kernelvars, callvars, Types, Control, Kept,
      GsInPlace, Results, Context, Places
<1>3. ASSUME Again PROVE InjectInv'
  BY <1>3
  DEF Again, kernelvars, callvars, Types, Control, Kept, GsInPlace, Results,
      Context, Places
<1>4. ASSUME RunFrame PROVE InjectInv'
  <2>1. regs.esp - 4 - 4 - 6 \in Int
    BY DEF Types, Context
  <2>2. Types'
    BY <1>4, <2>1, Zenon
    DEF RunFrame, FrameSize, kernelvars, callvars, Types, Context, Places
  <2>3. Control'
    BY <1>4
    DEF RunFrame, FrameSize, kernelvars, callvars, Control, Types, Kept,
        Context
  <2>4. Kept'
    BY <1>4
    DEF RunFrame, FrameSize, kernelvars, callvars, Kept, Types, Control,
        Context
  <2>5. GsInPlace'
    BY <1>4
    DEF RunFrame, FrameSize, kernelvars, callvars, GsInPlace, Types, Control,
        Kept, Context
  <2>6. Results'
    BY <1>4
    DEF RunFrame, FrameSize, kernelvars, callvars, Results, Types, Control,
        Kept, Context
  <2>7. QED
    BY <2>2, <2>3, <2>4, <2>5, <2>6
<1>5. ASSUME SendSignal PROVE InjectInv'
  BY <1>5
  DEF SendSignal, kernelvars, callvars, Types, Control, Kept, GsInPlace,
      Results, Context, Places
<1>6. ASSUME Dispatch PROVE InjectInv'
  <2>1. regs \in Context /\ segGs \in Gs
    BY <1>6 DEF Types, Context
  <2>2. Types'
    BY <1>6, <2>1, ResumeType, Zenon
    DEF Dispatch, ResumeKeowProcess, kernelvars, callvars, Types
  <2>3. Control'
    BY <1>6
    DEF Dispatch, ResumeKeowProcess, kernelvars, callvars, Control, Types,
        Kept, Context
  <2>4. Kept'
    BY <1>6
    DEF Dispatch, ResumeKeowProcess, kernelvars, callvars, Kept, Types,
        Control, Context, FrameSize
  <2>5. GsInPlace'
    BY <1>6, Zenon
    DEF Dispatch, ResumeKeowProcess, kernelvars, callvars, GsInPlace, Types,
        Control, Kept, Context
  <2>6. Results'
    BY <1>6
    DEF Dispatch, ResumeKeowProcess, kernelvars, callvars, Results, Types,
        Control, Kept, Context
  <2>7. QED
    BY <2>2, <2>3, <2>4, <2>5, <2>6
<1>7. ASSUME NEW v \in Gs, OnTrap(v) PROVE InjectInv'
  <2>1. [regs EXCEPT !.gs = v] \in Context /\ v \in Gs
    BY <1>7 DEF Types, Context
  <2>2. Types'
    BY <1>7, <2>1, ResumeType, Zenon
    DEF OnTrap, ResumeKeowProcess, kernelvars, callvars, Types
  <2>3. Control'
    BY <1>7
    DEF OnTrap, ResumeKeowProcess, kernelvars, callvars, Control, Types,
        Kept, Context
  <2>4. Kept'
    BY <1>7
    DEF OnTrap, ResumeKeowProcess, kernelvars, callvars, Kept, Types,
        Control, Context, FrameSize
  <2>5. GsInPlace'
    BY <1>7
    DEF OnTrap, ResumeKeowProcess, kernelvars, callvars, GsInPlace, Types,
        Control, Kept, Context
  <2>6. Results'
    BY <1>7
    DEF OnTrap, ResumeKeowProcess, kernelvars, callvars, Results, Types,
        Control, Kept, Context
  <2>7. QED
    BY <2>2, <2>3, <2>4, <2>5, <2>6
<1>8. ASSUME OnInt80 PROVE InjectInv'
  BY <1>8
  DEF OnInt80, kernelvars, callvars, Types, Control, Kept, GsInPlace,
      Results, Context, Places
<1>9. ASSUME NEW f \in Funcs, Inject(f) PROVE InjectInv'
  <2>2. Types'
    BY <1>9, InjectConstants
    DEF Inject, AtStub, kernelvars, callvars, Types, Control, Kept, Context,
        Places
  <2>3. Control'
    BY <1>9
    DEF Inject, AtStub, kernelvars, callvars, Control, Types, Kept, Context
  <2>4. Kept'
    BY <1>9
    DEF Inject, AtStub, kernelvars, callvars, Kept, Types, Control, Context
  <2>5. GsInPlace'
    BY <1>9
    DEF Inject, AtStub, kernelvars, callvars, GsInPlace, Types, Control,
        Kept, Context
  <2>6. Results'
    BY <1>9
    DEF Inject, AtStub, kernelvars, callvars, Results, Types, Control, Kept,
        Context
  <2>7. QED
    BY <2>2, <2>3, <2>4, <2>5, <2>6
<1>10. ASSUME FuncTraces PROVE InjectInv'
  BY <1>10
  DEF FuncTraces, kernelvars, callvars, Types, Control, Kept, GsInPlace,
      Results, Context, Places
<1>11. ASSUME NEW ok \in BOOLEAN, FuncRuns(ok) PROVE InjectInv'
  <2>1. LastError(func, ok) \in Int
    BY DEF LastError, Types
  <2>2. Types'
    <3>1. value' \in Int
      BY <1>11 DEF FuncRuns, Types
    <3>2. regs' = [regs EXCEPT !.eip = "break", !.eax = value']
      BY <1>11 DEF FuncRuns
    <3>3. regs' \in Context
      BY <3>1, <3>2, Zenon DEF Types, Context, Places
    <3>4. win' \in Int /\ gLastError' \in Int
      BY <1>11, <2>1 DEF FuncRuns, RET, Types
    <3>5. QED
      BY <1>11, <3>1, <3>3, <3>4 DEF FuncRuns, kernelvars, Types
  <2>3. Control'
    BY <1>11
    DEF FuncRuns, RET, LastError, kernelvars, callvars, Control, Types, Kept,
        Context
  <2>4. Kept'
    BY <1>11
    DEF FuncRuns, RET, LastError, kernelvars, callvars, Kept, Types, Control,
        Context
  <2>5. GsInPlace'
    BY <1>11
    DEF FuncRuns, RET, LastError, kernelvars, callvars, GsInPlace, Types,
        Control, Kept, Context
  <2>6. Results'
    BY <1>11
    DEF FuncRuns, RET, LastError, kernelvars, callvars, Results, Types,
        Control, Kept, Context
  <2>7. QED
    BY <2>2, <2>3, <2>4, <2>5, <2>6
<1>12. ASSUME FuncExits PROVE InjectInv'
  BY <1>12
  DEF FuncExits, kernelvars, callvars, Types, Control, Kept, GsInPlace,
      Results, Context, Places
<1>13. ASSUME InjectEvent PROVE InjectInv'
  <2>2. Types'
    BY <1>13, InjectConstants
    DEF InjectEvent, EndsInjection, AtStub, kernelvars, callvars, Types,
        Control, Kept, Context, Places
  <2>3. Control'
    BY <1>13
    DEF InjectEvent, EndsInjection, AtStub, kernelvars, callvars, Control,
        Types, Kept, Context
  <2>4. Kept'
    BY <1>13
    DEF InjectEvent, EndsInjection, AtStub, kernelvars, callvars, Kept,
        Types, Control, Context
  <2>5. GsInPlace'
    BY <1>13
    DEF InjectEvent, EndsInjection, AtStub, kernelvars, callvars, GsInPlace,
        Types, Control, Kept, Context
  <2>6. Results'
    BY <1>13
    DEF InjectEvent, EndsInjection, AtStub, kernelvars, callvars, Results,
        Types, Control, Kept, Context
  <2>7. QED
    BY <2>2, <2>3, <2>4, <2>5, <2>6
<1>14. ASSUME NEW v \in Gs, Converted(v) PROVE InjectInv'
  <2>2. Types'
    BY <1>14, InjectConstants, Zenon
    DEF Converted, AtStub, kernelvars, callvars, Types, Control, Kept,
        Context, Places
  <2>3. Control'
    BY <1>14
    DEF Converted, AtStub, kernelvars, callvars, Control, Types, Kept, Context
  <2>4. Kept'
    BY <1>14
    DEF Converted, AtStub, kernelvars, callvars, Kept, Types, Control, Context
  <2>5. GsInPlace'
    BY <1>14
    DEF Converted, AtStub, kernelvars, callvars, GsInPlace, Types, Control,
        Kept, Context
  <2>6. Results'
    BY <1>14
    DEF Converted, AtStub, kernelvars, callvars, Results, Types, Control,
        Kept, Context
  <2>7. QED
    BY <2>2, <2>3, <2>4, <2>5, <2>6
<1>15. ASSUME SysReturn PROVE InjectInv'
  <2>1. saved \in Context /\ segGs \in Gs
    BY <1>15 DEF Types, Context
  <2>2. Types'
    BY <1>15, <2>1, ResumeType, Zenon
    DEF SysReturn, ResumeKeowProcess, kernelvars, callvars, Types
  <2>3. Control'
    BY <1>15
    DEF SysReturn, ResumeKeowProcess, kernelvars, callvars, Control, Types,
        Kept, Context
  <2>4. Kept'
    BY <1>15
    DEF SysReturn, ResumeKeowProcess, kernelvars, callvars, Kept, Types,
        Control, Context, FrameSize
  <2>5. GsInPlace'
    BY <1>15
    DEF SysReturn, ResumeKeowProcess, kernelvars, callvars, GsInPlace, Types,
        Control, Kept, Context
  <2>6. Results'
    BY <1>15
    DEF SysReturn, ResumeKeowProcess, kernelvars, callvars, Results, Types,
        Control, Kept, Context
  <2>7. QED
    BY <2>2, <2>3, <2>4, <2>5, <2>6
<1>16. CASE UNCHANGED jvars
  BY <1>16 DEF jvars, Types, Control, Kept, GsInPlace, Results
<1>17. QED
  BY <1>1, <1>2, <1>3, <1>4, <1>5, <1>6, <1>7, <1>8, <1>9, <1>10, <1>11,
      <1>12, <1>13, <1>14, <1>15, <1>16
  DEF InjectNext

\* The invariant holds in every reachable state.
THEOREM InjectInvariance == InjectSpec => []InjectInv
<1>1. QED
  BY InjectInitInv, InjectStepInv, PTL DEF InjectSpec

\* The handler thread and the stub's context keep their types.
THEOREM InjectTypeCorrect == InjectSpec => []InjectTypeOK
<1>1. InjectInv => InjectTypeOK
  BY DEF InjectInv, InjectTypeOK, Types, Control, Context, Places
<1>2. QED
  BY <1>1, InjectInvariance, PTL

\* Calls injected while the stub is set up give it back its own context, and
\* the frames of ResumeKeowProcess leave nothing on the program's stack, for
\* any sequence of injected calls, traps and signals.
THEOREM StackIsKept == InjectSpec => []StackKept
<1>1. InjectInv => StackKept
  BY DEF InjectInv, StackKept, Control, Kept
<1>2. QED
  BY <1>1, InjectInvariance, PTL

\* The program finds GS as it set it, for any set of selectors, unless a
\* signal was dispatched after a load that no exception showed to the kernel.
THEOREM GsIsKept == InjectSpec => []GsKept
<1>1. InjectInv => GsKept
  BY DEF InjectInv, GsKept, GsInPlace
<1>2. QED
  BY <1>1, InjectInvariance, PTL

\* InjectFunctionCall returns what the injected function returned.
THEOREM CallReturns == InjectSpec => []ReturnsOfCall
<1>1. InjectInv => ReturnsOfCall
  BY DEF InjectInv, ReturnsOfCall, Results
<1>2. QED
  BY <1>1, InjectInvariance, PTL

\* GetLastError of the stub gives the error of the call before it, the one
\* that RET saved.
THEOREM ErrorReturns == InjectSpec => []ErrorOfCall
<1>1. InjectInv => ErrorOfCall
  BY DEF InjectInv, ErrorOfCall, Results
<1>2. QED
  BY <1>1, InjectInvariance, PTL

\* Together: a program goes on with its own stack and its own GS, whatever the
\* kernel ran in its stub.
THEOREM ContextIsKept == InjectSpec => []ContextKept
  BY StackIsKept, GsIsKept, PTL DEF ContextKept

\* Together: InjectFunctionCall gives the kernel the result and the error of
\* the call it made.
THEOREM ResultsAreTheCalls == InjectSpec => []CallResults
  BY CallReturns, ErrorReturns, PTL DEF CallResults

-----------------------------------------------------------------------------
\* A wait began in the past and its deadline is counted from there.
Began ==
    /\ start <= now
    /\ place \in {"poll", "sleep"} => dwEnd = ((start % Ticks) + wait) % Ticks

\* How long a sleep has lasted.
Asleep ==
    /\ place = "sleep" => slept <= Poll + Late /\ slept <= now - start
    /\ place = "nanosleep" => slept <= wait + Late /\ slept = now - start

\* A round of select's loop begins before the deadline.
RoundInTime ==
    place \in {"poll", "sleep"} /\ ~Wraps(start, start + wait + Poll + Late)
        => now - (IF place = "sleep" THEN slept ELSE 0) - start <= wait

ClockPast == clock.at \in 0..now

TimingInv ==
    /\ TimingTypeOK /\ Began /\ Asleep /\ RoundInTime /\ ClockPast
    /\ SelectNotEarly /\ RemExact

-----------------------------------------------------------------------------
(* Arithmetic of the tick count                                            *)

\* Division with a quotient and a remainder.
LEMMA Quotient ==
    ASSUME NEW t \in Nat, NEW d \in Nat \ {0}
    PROVE  /\ t = d * (t \div d) + (t % d)
           /\ t % d \in 0..(d - 1)
           /\ t \div d \in Nat
  OBVIOUS

\* A number below the modulus is its own remainder.
LEMMA Below ==
    ASSUME NEW d \in Nat \ {0}, NEW r \in 0..(d - 1)
    PROVE  r % d = r
  OBVIOUS

\* A product grows with its factor.
LEMMA Grows ==
    ASSUME NEW scale \in Nat, NEW m \in Nat, NEW n \in Nat, m <= n
    PROVE  /\ scale * m <= scale * n /\ m * scale <= n * scale
           /\ scale * m \in Nat /\ m * scale \in Nat
  <1>1. PICK e \in Nat : n = m + e
    BY n - m \in Nat
  <1>2. scale * n = scale * m + scale * e /\ n * scale = m * scale + e * scale
    BY <1>1
  <1>3. scale * e \in Nat /\ e * scale \in Nat /\ scale * m \in Nat /\ m * scale \in Nat
    OBVIOUS
  <1> QED BY <1>2, <1>3

\* Quotients do not go down.
LEMMA DivGrows ==
    ASSUME NEW d \in Nat \ {0}, NEW a \in Nat, NEW b \in Nat, a <= b
    PROVE  a \div d <= b \div d
  <1> DEFINE q == a \div d
             p == b \div d
  <1>1. /\ a = d * q + (a % d) /\ a % d \in 0..(d - 1) /\ q \in Nat
        /\ b = d * p + (b % d) /\ b % d \in 0..(d - 1) /\ p \in Nat
    BY Quotient, Zenon
  <1> SUFFICES ASSUME p + 1 <= q PROVE FALSE
    BY <1>1
  <1> HIDE DEF p, q
  <1>2. d * (p + 1) <= d * q
    BY <1>1, Grows
  <1>3. d * (p + 1) = d * p + d
    BY <1>1
  <1> QED BY <1>1, <1>2, <1>3

\* While the tick count does not wrap, ticks differ as times do.
LEMMA NoWrap ==
    ASSUME NEW a \in Nat, NEW b \in Nat, NEW c \in Nat,
           a <= c, c <= b, ~Wraps(a, b)
    PROVE  c % Ticks = (a % Ticks) + (c - a) /\ ~Wraps(a, c)
  <1>0. Ticks \in Nat \ {0}
    BY TimingConstants
  <1>1. a \div Ticks = c \div Ticks
    <2>1. a \div Ticks <= c \div Ticks /\ c \div Ticks <= b \div Ticks
      BY <1>0, DivGrows
    <2>2. a \div Ticks \in Nat /\ b \div Ticks \in Nat /\ c \div Ticks \in Nat
      BY <1>0, Quotient, Zenon
    <2> QED BY <2>1, <2>2 DEF Wraps
  <1>2. /\ a = Ticks * (a \div Ticks) + (a % Ticks)
        /\ a % Ticks \in 0..(Ticks - 1) /\ a \div Ticks \in Nat
    BY <1>0, Quotient, Zenon
  <1>3. /\ c = Ticks * (c \div Ticks) + (c % Ticks)
        /\ c % Ticks \in 0..(Ticks - 1)
    BY <1>0, Quotient
  <1> QED BY <1>0, <1>1, <1>2, <1>3 DEF Wraps

\* A deadline that the tick count reaches without wrapping is the tick plus
\* the timeout.
LEMMA DeadlineTick ==
    ASSUME NEW a \in Nat, NEW w \in Nat, ~Wraps(a, a + w)
    PROVE  ((a % Ticks) + w) % Ticks = (a % Ticks) + w
  <1>0. Ticks \in Nat \ {0}
    BY TimingConstants
  <1>1. (a + w) % Ticks = (a % Ticks) + w
    BY NoWrap, a + w \in Nat, (a + w) - a = w
  <1>2. (a + w) % Ticks \in 0..(Ticks - 1)
    BY <1>0, Quotient
  <1> QED BY <1>0, <1>1, <1>2, Below

\* The difference nanosleep computes is the time that passed, also over a
\* wrap, as long as it is less than a period of the tick count.
LEMMA ElapsedExact ==
    ASSUME NEW a \in Nat, NEW b \in Nat, a <= b, b - a < Ticks
    PROVE  Elapsed(a % Ticks, b % Ticks) = b - a
  <1> DEFINE T == Ticks
             q == a \div T
             p == b \div T
             r == a % T
             s == b % T
  <1>0. T \in Nat \ {0}
    BY TimingConstants
  <1>1. /\ a = T * q + r /\ r \in 0..(T - 1) /\ q \in Nat
        /\ b = T * p + s /\ s \in 0..(T - 1) /\ p \in Nat
    BY <1>0, Quotient, Zenon
  <1>2. q <= p
    BY <1>0, DivGrows
  <1>3. Elapsed(r, s) =
          IF s < r THEN ((T - 1) - ((r - (s + 1)) % T)) % T ELSE s - r
    BY DEF Elapsed
  <1>a. b - a < T
    OBVIOUS
  <1> HIDE DEF T, q, p, r, s
  <1>4. p = q \/ p = q + 1
    <2> SUFFICES ASSUME q + 2 <= p PROVE FALSE
      BY <1>1, <1>2
    <2>1. T * (q + 2) <= T * p
      BY <1>0, <1>1, Grows
    <2>2. T * (q + 2) = T * q + 2 * T
      BY <1>0, <1>1
    <2> QED BY <1>0, <1>1, <1>a, <2>1, <2>2
  <1>5. CASE p = q
    <2>1. s - r = b - a
      BY <1>0, <1>1, <1>5
    <2> QED BY <1>1, <1>3, <2>1 DEF r, s, T
  <1>6. CASE p = q + 1
    <2>1. T * p = T * q + T
      BY <1>0, <1>1, <1>6
    <2>2. s + T - r = b - a /\ s < r
      BY <1>0, <1>1, <1>a, <2>1
    <2>3. r - (s + 1) \in 0..(T - 1)
      BY <1>0, <1>1, <2>2
    <2>4. (r - (s + 1)) % T = r - (s + 1)
      BY <1>0, <2>3, Below
    <2>5. (T - 1) - (r - (s + 1)) = b - a /\ b - a \in 0..(T - 1)
      BY <1>0, <1>1, <1>a, <2>2
    <2>6. (b - a) % T = b - a
      BY <1>0, <2>5, Below
    <2> QED BY <1>3, <2>2, <2>4, <2>5, <2>6 DEF r, s, T
  <1> QED BY <1>4, <1>5, <1>6

\* A clock's seconds and fraction go up with the count they are split from.
LEMMA SplitGrows ==
    ASSUME NEW d \in Nat \ {0}, NEW a \in Nat, NEW b \in Nat, a <= b
    PROVE  \/ a \div d < b \div d
           \/ a \div d = b \div d /\ a % d <= b % d
  <1>1. a = d * (a \div d) + (a % d) /\ a % d \in 0..(d - 1) /\ a \div d \in Nat
    BY Quotient, Zenon
  <1>2. b = d * (b \div d) + (b % d) /\ b % d \in 0..(d - 1) /\ b \div d \in Nat
    BY Quotient, Zenon
  <1>3. a \div d <= b \div d
    BY DivGrows
  <1> QED BY <1>1, <1>2, <1>3

\* The same with the fraction scaled to nanoseconds.
LEMMA ScaledGrows ==
    ASSUME NEW d \in Nat \ {0}, NEW scale \in Nat,
           NEW a \in Nat, NEW b \in Nat, a <= b
    PROVE  Before(<<a \div d, (a % d) * scale>>, <<b \div d, (b % d) * scale>>)
  <1>1. a % d \in 0..(d - 1) /\ b % d \in 0..(d - 1)
    BY Quotient
  <1>2. a % d <= b % d => (a % d) * scale <= (b % d) * scale
    BY <1>1, Grows
  <1> QED BY <1>2, SplitGrows DEF Before

\* No clock goes back between two times, except CLOCK_MONOTONIC over a wrap.
LEMMA ClockGrows ==
    ASSUME NEW id \in ClockId, NEW a \in Nat, NEW b \in Nat, a <= b,
           id = "MONOTONIC" => ~Wraps(a, b)
    PROVE  Before(ClockValue(id, a), ClockValue(id, b))
  <1>1. /\ PerSec \in Nat \ {0} /\ NsPerSec \in Nat \ {0}
        /\ Freq \in Nat \ {0} /\ Ticks \in Nat \ {0}
    BY TimingConstants
  <1>2. NsPerMs \in Nat /\ NsPerSec \div Freq \in Nat
    BY <1>1, Quotient, Zenon DEF NsPerMs
  <1>3. CASE id = "gettimeofday"
    BY <1>1, <1>3, SplitGrows DEF ClockValue, SystemTime, Before
  <1>4. CASE id = "REALTIME"
    BY <1>1, <1>2, <1>4, ScaledGrows DEF ClockValue, SystemTime
  <1>5. CASE id = "MONOTONIC"
    <2>1. b % Ticks = (a % Ticks) + (b - a)
      BY <1>5, NoWrap
    <2>2. a % Ticks \in 0..(Ticks - 1) /\ b % Ticks \in 0..(Ticks - 1)
      BY <1>1, Quotient
    <2>3. a % Ticks \in Nat /\ b % Ticks \in Nat /\ a % Ticks <= b % Ticks
      BY <2>1, <2>2
    <2> QED
      BY <1>1, <1>2, <1>5, <2>3, ScaledGrows DEF ClockValue, GetTickCount
  <1>6. CASE id = "MONOTONIC_RAW"
    <2> DEFINE m == (a * Freq) \div PerSec
               n == (b * Freq) \div PerSec
    <2>1. a * Freq \in Nat /\ b * Freq \in Nat /\ a * Freq <= b * Freq
      BY <1>1, Grows
    <2>2. m \in Nat /\ n \in Nat
      BY <1>1, <2>1, Quotient, Zenon
    <2>3. m <= n
      BY <1>1, <2>1, DivGrows
    <2>4. /\ ClockValue(id, a) = <<m \div Freq, (m % Freq) * (NsPerSec \div Freq)>>
          /\ ClockValue(id, b) = <<n \div Freq, (n % Freq) * (NsPerSec \div Freq)>>
      BY <1>6 DEF ClockValue
    <2> HIDE DEF m, n
    <2> QED BY <1>1, <1>2, <2>2, <2>3, <2>4, ScaledGrows
  <1>7. CASE id = "time"
    <2>1. a \div PerSec <= b \div PerSec
      BY <1>1, DivGrows
    <2>2. a \div PerSec \in Nat /\ b \div PerSec \in Nat
      BY <1>1, Quotient
    <2> QED BY <1>7, <2>1, <2>2 DEF ClockValue, SystemTime, Before
  <1> QED BY <1>3, <1>4, <1>5, <1>6, <1>7 DEF ClockId

-----------------------------------------------------------------------------
(* The waits                                                               *)

\* What the constants say of the timeouts.
LEMMA WaitNat ==
    /\ Ticks \in Nat \ {0} /\ Poll \in Nat /\ Poll <= Ticks /\ Late \in Nat
    /\ MaxTime \in Nat /\ Ticks - 1 <= MaxTime
    /\ INFINITE \in 0..(Ticks - 1)
    /\ Waits \union {0, INFINITE} \subseteq 0..(Ticks - 1)
  BY TimingConstants DEF INFINITE

\* A remainder of the tick count is a tick.
LEMMA IsTick ==
    ASSUME NEW x \in Int
    PROVE  x % Ticks \in 0..(Ticks - 1)
  BY WaitNat

\* The invariant holds before the first call.
LEMMA TimingInitInv == TimingInit => TimingInv
  <1> SUFFICES ASSUME TimingInit PROVE TimingInv
    OBVIOUS
  <1> USE WaitNat DEF TimingInit, NoRet, NoClock
  <1>0. now \in 0..MaxTime /\ 0 \in 0..(Ticks - 1) /\ 0 \in 0..MaxTime
    OBVIOUS
  <1>1. TimingTypeOK
    <2>1. ret.took = 0 /\ ret.rem = 0 /\ clock.id = "none"
      OBVIOUS
    <2>2. 0 \in 0..(Ticks + Late)
      OBVIOUS
    <2> QED BY <1>0, <2>1, <2>2 DEF TimingTypeOK
  <1>2. Began /\ Asleep /\ RoundInTime /\ ClockPast
    BY DEF Began, Asleep, RoundInTime, ClockPast
  <1>3. SelectNotEarly /\ RemExact
    BY DEF SelectNotEarly, RemExact
  <1> QED BY <1>1, <1>2, <1>3 DEF TimingInv

\* A step that reports nothing.
LEMMA NothingTold ==
    ASSUME ret' = NoRet
    PROVE  /\ SelectNotEarly' /\ RemExact'
           /\ ret'.took \in 0..MaxTime /\ ret'.rem \in 0..(Ticks - 1)
  BY WaitNat DEF SelectNotEarly, RemExact, NoRet

\* Time passes.
LEMMA TickStep == TimingInv /\ Tick => TimingInv'
  <1> SUFFICES ASSUME TimingInv, Tick PROVE TimingInv'
    OBVIOUS
  <1> USE WaitNat DEF TimingInv
  <1>1. wait \in 0..(Ticks - 1)
    BY DEF TimingTypeOK
  <1>2. TimingTypeOK'
    BY <1>1, NothingTold DEF TimingTypeOK, Tick, Asked, Asleep
  <1>3. Began' /\ ClockPast'
    BY <1>1 DEF Began, Tick, ClockPast, TimingTypeOK
  <1>4. Asleep'
    BY <1>1 DEF Tick, Asleep, Asked, TimingTypeOK, Began
  <1>5. RoundInTime'
    BY <1>1 DEF RoundInTime, Tick, TimingTypeOK, Wraps
  <1> QED BY <1>2, <1>3, <1>4, <1>5, NothingTold DEF Tick

\* A descriptor becomes ready, or no longer is.
LEMMA ReadyStep == TimingInv /\ Ready => TimingInv'
  <1> SUFFICES ASSUME TimingInv, Ready PROVE TimingInv'
    OBVIOUS
  <1> USE DEF TimingInv, Ready
  <1>1. TimingTypeOK'
    BY NothingTold DEF TimingTypeOK
  <1>2. Began' /\ Asleep' /\ RoundInTime' /\ ClockPast'
    BY DEF Began, Asleep, RoundInTime, ClockPast, Wraps
  <1> QED BY <1>1, <1>2, NothingTold

\* select computes its deadline.
LEMMA SelectStep ==
    ASSUME NEW w \in 0..(Ticks - 1), w \in Waits \union {0, INFINITE},
           TimingInv, Select(w)
    PROVE  TimingInv'
  <1> USE WaitNat DEF TimingInv
  <1>0. now \in Int
    BY DEF TimingTypeOK
  <1>1. now % Ticks \in 0..(Ticks - 1)
    BY <1>0, IsTick
  <1>2. dwEnd' = ((now % Ticks) + w) % Ticks /\ dwEnd' \in 0..(Ticks - 1)
    BY <1>1, IsTick DEF Select, Deadline, GetTickCount
  <1>3. TimingTypeOK'
    BY <1>2, NothingTold DEF TimingTypeOK, Select, NoClock
  <1>a. /\ place' = "poll" /\ start' = now /\ now' = now /\ wait' = w /\ now \in 0..MaxTime
        /\ clock'.at = 0
    BY DEF Select, TimingTypeOK, NoClock
  <1>4. Began' /\ Asleep' /\ ClockPast'
    BY <1>0, <1>2, <1>a DEF Began, Asleep, ClockPast
  <1>5. RoundInTime'
    BY <1>0, <1>a DEF RoundInTime
  <1> QED BY <1>3, <1>4, <1>5, NothingTold DEF Select

\* nanosleep begins.
LEMMA NanosleepStep ==
    ASSUME NEW w \in 0..(Ticks - 1), w \in Waits \union {0, INFINITE},
           TimingInv, Nanosleep(w)
    PROVE  TimingInv'
  <1> USE WaitNat DEF TimingInv, Nanosleep
  <1>1. TimingTypeOK'
    BY NothingTold DEF TimingTypeOK, NoClock
  <1>2. Began' /\ Asleep' /\ RoundInTime' /\ ClockPast'
    BY DEF TimingTypeOK, Began, Asleep, RoundInTime, ClockPast, NoClock
  <1> QED BY <1>1, <1>2, NothingTold

\* A clock is read.
LEMMA ReadClockStep ==
    ASSUME NEW id \in ClockId, TimingInv, ReadClock(id)
    PROVE  TimingInv'
  <1> USE DEF TimingInv, ReadClock
  <1>1. TimingTypeOK'
    BY NothingTold DEF TimingTypeOK
  <1>2. Began' /\ Asleep' /\ RoundInTime' /\ ClockPast'
    BY DEF TimingTypeOK, Began, Asleep, RoundInTime, ClockPast, Wraps
  <1> QED BY <1>1, <1>2, NothingTold

\* The end of a call, when what it returns is in range.
LEMMA IdleStep ==
    ASSUME TimingInv, Idle, UNCHANGED <<now, ready, clock>>,
           ret'.took \in 0..MaxTime, ret'.rem \in 0..(Ticks - 1)
    PROVE  TimingTypeOK' /\ Began' /\ Asleep' /\ RoundInTime' /\ ClockPast'
  <1> USE WaitNat DEF TimingInv, Idle
  <1>1. TimingTypeOK'
    BY DEF TimingTypeOK
  <1> QED
    BY <1>1 DEF TimingTypeOK, Began, Asleep, RoundInTime, ClockPast

\* A step that reports nothing and ends no call, of select's loop.
LEMMA LoopStep ==
    ASSUME TimingInv, ret' = NoRet, slept' = 0, UNCHANGED <<now, ready, clock>>,
           place \in {"poll", "sleep"}, place' \in {"poll", "sleep"},
           UNCHANGED <<wait, start, dwEnd>>,
           ~Wraps(start, start + wait + Poll + Late) => now - start <= wait
    PROVE  TimingInv'
  <1> USE WaitNat DEF TimingInv
  <1>1. TimingTypeOK'
    BY NothingTold DEF TimingTypeOK
  <1>2. Began' /\ ClockPast'
    BY DEF Began, ClockPast
  <1>3. Asleep'
    BY DEF Asleep, Began, TimingTypeOK
  <1>4. RoundInTime'
    BY DEF RoundInTime, Wraps, TimingTypeOK
  <1> QED BY <1>1, <1>2, <1>3, <1>4, NothingTold

\* The times of a call that ends.
LEMMA Took ==
    ASSUME TimingInv
    PROVE  /\ now \in Nat /\ start \in Nat /\ start <= now
           /\ wait \in 0..(Ticks - 1) /\ now - start \in 0..MaxTime
  BY WaitNat DEF TimingInv, TimingTypeOK, Began

\* A round of the loop finds data, ends a zero timeout, or sleeps.
LEMMA PollStep == TimingInv /\ SelectPoll => TimingInv'
  <1> SUFFICES ASSUME TimingInv, SelectPoll PROVE TimingInv'
    OBVIOUS
  <1>1. UNCHANGED <<now, ready, clock>> /\ place = "poll"
    BY DEF SelectPoll
  <1>2. CASE EndWait("found")
    <2>1. ret'.took \in 0..MaxTime /\ ret'.rem \in 0..(Ticks - 1) /\ ret'.op = "found"
      BY <1>2, Took, WaitNat DEF EndWait
    <2>2. SelectNotEarly' /\ RemExact'
      BY <2>1 DEF SelectNotEarly, RemExact
    <2> QED BY <1>1, <1>2, <2>1, <2>2, IdleStep DEF EndWait, TimingInv
  <1>3. CASE wait = 0 /\ EndWait("timeout")
    <2>1. /\ ret'.took \in 0..MaxTime /\ ret'.rem \in 0..(Ticks - 1)
          /\ ret'.op = "timeout" /\ ret'.wait = 0
      BY <1>3, Took, WaitNat DEF EndWait
    <2>2. SelectNotEarly' /\ RemExact'
      BY <2>1 DEF SelectNotEarly, RemExact
    <2> QED BY <1>1, <1>3, <2>1, <2>2, IdleStep DEF EndWait, TimingInv
  <1>4. CASE /\ place' = "sleep" /\ slept' = 0 /\ ret' = NoRet
             /\ UNCHANGED <<wait, start, dwEnd>>
    <2>1. ~Wraps(start, start + wait + Poll + Late) => now - start <= wait
      BY <1>1, Took DEF TimingInv, RoundInTime
    <2> QED BY <1>1, <1>4, <2>1, LoopStep
  <1> QED BY <1>2, <1>3, <1>4 DEF SelectPoll

\* After its sleep, the loop goes on only before its deadline and ends only
\* after it, unless the tick count wrapped.
LEMMA WakeTick ==
    ASSUME TimingInv, place = "sleep"
    PROVE  /\ GoOn /\ ~Wraps(start, start + wait + Poll + Late) => now - start <= wait
           /\ ~GoOn /\ ~Wraps(start, start + wait) => now - start >= wait
  <1> DEFINE limit == start + wait + Poll + Late
  <1>0. /\ now \in Nat /\ start \in Nat /\ wait \in Nat /\ start <= now
        /\ start + wait \in Nat /\ limit \in Nat
        /\ start <= start + wait /\ start + wait <= limit
    BY Took, WaitNat
  <1>1. dwEnd = ((start % Ticks) + wait) % Ticks
    BY DEF TimingInv, Began
  <1>2. start % Ticks \in Nat /\ now % Ticks \in Nat
    BY <1>0, WaitNat, Quotient
  <1>3. ASSUME GoOn, ~Wraps(start, limit) PROVE now - start <= wait
    <2>1. now - slept - start <= wait /\ slept <= Poll + Late /\ slept \in Nat
      BY <1>3, WaitNat DEF TimingInv, RoundInTime, Asleep, TimingTypeOK
    <2>2. now <= limit
      BY <1>0, <2>1, WaitNat
    <2>3. now % Ticks = (start % Ticks) + (now - start)
      BY <1>0, <1>3, <2>2, NoWrap
    <2>4. ~Wraps(start, start + wait)
      BY <1>0, <1>3, NoWrap
    <2>5. dwEnd = (start % Ticks) + wait
      BY <1>0, <1>1, <2>4, DeadlineTick
    <2> QED BY <1>0, <1>2, <1>3, <2>3, <2>5 DEF GoOn, GetTickCount
  <1>4. ASSUME ~GoOn, ~Wraps(start, start + wait), now - start < wait PROVE FALSE
    <2>1. now % Ticks = (start % Ticks) + (now - start)
      BY <1>0, <1>4, NoWrap
    <2>2. dwEnd = (start % Ticks) + wait
      BY <1>0, <1>1, <1>4, DeadlineTick
    <2> QED BY <1>0, <1>2, <1>4, <2>1, <2>2 DEF GoOn, GetTickCount
  <1> QED BY <1>0, <1>3, <1>4

\* select's sleep is over.
LEMMA WakeStep == TimingInv /\ SelectWake => TimingInv'
  <1> SUFFICES ASSUME TimingInv, SelectWake PROVE TimingInv'
    OBVIOUS
  <1>1. UNCHANGED <<now, ready, clock>> /\ place = "sleep"
    BY DEF SelectWake
  <1>2. CASE /\ GoOn /\ place' = "poll" /\ slept' = 0 /\ ret' = NoRet
             /\ UNCHANGED <<wait, start, dwEnd>>
    BY <1>1, <1>2, LoopStep, WakeTick
  <1>3. CASE ~GoOn /\ EndWait("timeout")
    <2>1. /\ ret'.took = now - start /\ ret'.rem = 0
          /\ ret'.op = "timeout" /\ ret'.wait = wait /\ ret'.start = start
      BY <1>3 DEF EndWait
    <2>2. SelectNotEarly' /\ RemExact'
      BY <1>1, <1>3, <2>1, WakeTick DEF SelectNotEarly, RemExact, Wraps
    <2>3. ret'.took \in 0..MaxTime /\ ret'.rem \in 0..(Ticks - 1)
      BY <2>1, Took, WaitNat
    <2> QED BY <1>1, <1>3, <2>2, <2>3, IdleStep DEF EndWait, TimingInv
  <1> QED BY <1>2, <1>3 DEF SelectWake

\* nanosleep returns what is left.
LEMMA NanosleepEndStep == TimingInv /\ NanosleepEnd => TimingInv'
  <1> SUFFICES ASSUME TimingInv, NanosleepEnd PROVE TimingInv'
    OBVIOUS
  <1> DEFINE told == Elapsed(start % Ticks, now % Ticks)
  <1>1. Idle /\ UNCHANGED <<now, ready, clock>>
    BY DEF NanosleepEnd
  <1>2. /\ ret'.op \in {"EINTR", "slept"} /\ ret'.wait = wait
        /\ ret'.took = now - start /\ ret'.rem = (wait - told) % Ticks
    BY DEF NanosleepEnd, GetTickCount
  <1>3. start % Ticks \in 0..(Ticks - 1) /\ now % Ticks \in 0..(Ticks - 1)
    BY Took, IsTick
  <1>4. told \in Int
    <2>1. \A x \in Int : x % Ticks \in Int
      BY IsTick
    <2> QED BY <1>3, <2>1, WaitNat DEF Elapsed
  <1>5. ret'.took \in 0..MaxTime /\ ret'.rem \in 0..(Ticks - 1)
    <2>1. wait - told \in Int
      BY <1>4, Took
    <2> HIDE DEF told
    <2> QED BY <1>2, <2>1, Took, IsTick
  <1>6. ASSUME now - start <= wait PROVE (wait - told) % Ticks = wait - (now - start)
    <2>1. told = now - start
      BY <1>6, Took, ElapsedExact, WaitNat
    <2>2. wait - (now - start) \in 0..(Ticks - 1)
      BY <1>6, Took, WaitNat
    <2> HIDE DEF told
    <2> QED BY <2>1, <2>2, Below, WaitNat
  <1> HIDE DEF told
  <1>7. SelectNotEarly' /\ RemExact'
    BY <1>2, <1>6 DEF SelectNotEarly, RemExact
  <1> QED BY <1>1, <1>5, <1>7, IdleStep DEF TimingInv

\* Every step keeps the invariant.
LEMMA TimingStepInv == TimingInv /\ [TimingNext]_tvars => TimingInv'
  <1> SUFFICES ASSUME TimingInv, [TimingNext]_tvars PROVE TimingInv'
    OBVIOUS
  <1>1. CASE UNCHANGED tvars
    <2>1. TimingTypeOK' /\ Began' /\ Asleep' /\ ClockPast'
      BY <1>1 DEF tvars, TimingInv, TimingTypeOK, Began, Asleep, ClockPast
    <2>2. RoundInTime' /\ SelectNotEarly' /\ RemExact'
      BY <1>1 DEF tvars, TimingInv, RoundInTime, SelectNotEarly, RemExact, Wraps
    <2> QED BY <2>1, <2>2 DEF TimingInv
  <1>2. ASSUME NEW w \in Waits, Select(w) \/ Nanosleep(w) PROVE TimingInv'
    BY <1>2, SelectStep, NanosleepStep, WaitNat
  <1>3. CASE Select(INFINITE)
    BY <1>3, SelectStep, WaitNat
  <1> QED
    BY <1>1, <1>2, <1>3, TickStep, ReadyStep, PollStep, WakeStep,
       NanosleepEndStep, ReadClockStep DEF TimingNext

\* A wait that is under way is not longer than its rounds and sleeps.
LEMMA OnTime == TimingInv => SelectOnTime
  <1> SUFFICES ASSUME TimingInv PROVE SelectOnTime
    OBVIOUS
  <1> QED BY Took, WaitNat
          DEF TimingInv, RoundInTime, Asleep, SelectOnTime, TimingTypeOK

LEMMA TimingInvariance == TimingSpec => []TimingInv
  BY TimingInitInv, TimingStepInv, PTL DEF TimingSpec

-----------------------------------------------------------------------------
\* The times, ticks and timeouts of select, nanosleep and the clocks stay in
\* range.
THEOREM TimingTypeCorrect == TimingSpec => []TimingTypeOK
  <1>1. TimingInv => TimingTypeOK
    BY DEF TimingInv
  <1> QED BY <1>1, TimingInvariance, PTL

\* A timeout of select is not early, its loop is not more than a poll late,
\* and what an interrupted nanosleep leaves is exact over a wrap of the tick
\* count, for every period of the tick count and every timeout.
THEOREM WaitsAreTold == TimingSpec => []WaitsTold
  <1>1. TimingInv => WaitsTold
    BY OnTime DEF TimingInv, WaitsTold
  <1> QED BY <1>1, TimingInvariance, PTL

\* No clock that gettimeofday, time and clock_gettime read goes back, except
\* CLOCK_MONOTONIC when the tick count wraps, for every scale of the clocks
\* and every performance counter frequency.
THEOREM ClocksGoOn == TimingSpec => ClockOrdered
  <1> DEFINE Ordered ==
        clock'.id = clock.id /\ clock.id # "none"
          /\ (clock.id = "MONOTONIC" => ~Wraps(clock.at, clock'.at))
          => Before(ClockValue(clock.id, clock.at),
                    ClockValue(clock.id, clock'.at))
  <1>1. ASSUME TimingInv, TimingNext PROVE Ordered
    <2> SUFFICES ASSUME clock'.id = clock.id, clock.id # "none",
                        clock.id = "MONOTONIC" => ~Wraps(clock.at, clock'.at)
                 PROVE  Before(ClockValue(clock.id, clock.at),
                               ClockValue(clock.id, clock'.at))
      OBVIOUS
    <2>1. clock.id \in ClockId /\ clock.at \in Nat /\ clock.at <= now /\ now \in Nat
      BY <1>1, Took DEF TimingInv, TimingTypeOK, ClockPast
    <2>2. clock' = clock \/ clock'.at = now
      <3>1. CASE Tick \/ Ready \/ SelectPoll \/ SelectWake \/ NanosleepEnd
        BY <3>1 DEF Tick, Ready, SelectPoll, SelectWake, NanosleepEnd
      <3>2. CASE \E w \in Waits \union {INFINITE} : Select(w) \/ Nanosleep(w)
        BY <3>2 DEF Select, Nanosleep, NoClock
      <3>3. CASE \E id \in ClockId : ReadClock(id)
        BY <3>3 DEF ReadClock
      <3> QED BY <1>1, <3>1, <3>2, <3>3 DEF TimingNext
    <2>3. clock'.at \in Nat /\ clock.at <= clock'.at
      BY <2>1, <2>2
    <2> QED BY <2>1, <2>3, ClockGrows
  <1>2. TimingInv /\ [TimingNext]_tvars => [Ordered]_tvars
    BY <1>1
  <1> QED BY <1>2, TimingInvariance, PTL DEF TimingSpec, ClockOrdered
=============================================================================
