----------------------------- MODULE PathsProofs ----------------------------
(***************************************************************************)
(* Proofs about paths and mounts (Paths), for any names, places, arguments *)
(* and bounds: the list of mounts is a stack for each place, what is on    *)
(* the disk has its type, and TranverseMountPoints resolves every path as  *)
(* PathsResolve says.  Walk, StackOf and Traverse are loops: what they     *)
(* compute is proved by induction on the number of turns (UpToAll).        *)
(***************************************************************************)
EXTENDS Paths, SequenceTheorems, FiniteSetTheorems, WellFoundedInduction, TLAPS

(* Functions that are computed from their last value                       *)

\* What holds of 0 and of each number after one it holds of, holds of all.
LEMMA UpToAll ==
    ASSUME NEW N \in Nat, NEW G, 0 \in G,
           \A n \in 1..N : n - 1 \in G => n \in G
    PROVE  \A n \in 0..N : n \in G
<1> DEFINE B == {n \in Nat : n \in 0..N /\ n \notin G}
<1>1. SUFFICES ASSUME B # {} PROVE FALSE
  OBVIOUS
<1>2. PICK m \in B : \A y \in B : ~(<<y, m>> \in OpToRel(<, Nat))
  BY <1>1, NatLessThanWellFounded, WFMin, Zenon
<1>3. m \in Nat /\ m \in 0..N /\ m \notin G /\ \A y \in B : ~(y < m)
  BY <1>2, Zenon DEF OpToRel
<1>4. m \in 1..N /\ m - 1 \in Nat /\ m - 1 \in 0..N /\ m - 1 < m
  BY <1>3
<1>5. m - 1 \in G
  BY <1>3, <1>4
<1> QED
  BY <1>3, <1>4, <1>5

\* The n-th value is in the n-th set of I: the first is, and each step leads
\* from one of them to the next.
Closed(N, I, a, step) ==
    /\ N \in Nat /\ a \in I[0]
    /\ \A n \in 1..N : \A t \in I[n - 1] : step[n][t] \in I[n]

Run(N, I, a, step, f) ==
    /\ f = [n \in 0..N |-> IF n = 0 THEN a ELSE step[n][f[n - 1]]]
    /\ \A n \in 0..N : f[n] \in I[n]

\* Such a function exists.
LEMMA RunExists ==
    ASSUME NEW N, NEW I, NEW a, NEW step, Closed(N, I, a, step)
    PROVE  \E f : Run(N, I, a, step, f)
<1> DEFINE G == {m \in 0..N : \E f : Run(m, I, a, step, f)}
<1>1. N \in Nat
  BY DEF Closed
<1>2. 0 \in G
  <2> DEFINE f == [n \in 0..0 |-> a]
  <2>1. f = [n \in 0..0 |-> IF n = 0 THEN a ELSE step[n][f[n - 1]]]
    OBVIOUS
  <2>2. \A n \in 0..0 : f[n] \in I[n]
    BY DEF Closed
  <2> HIDE DEF f
  <2>3. \E g : Run(0, I, a, step, g)
    BY <2>1, <2>2 DEF Run
  <2> QED
    BY <1>1, <2>3
<1>3. ASSUME NEW m \in 1..N, m - 1 \in G PROVE m \in G
  <2>1. PICK f : Run(m - 1, I, a, step, f)
    BY <1>3
  <2> DEFINE g == [n \in 0..m |-> IF n = m THEN step[m][f[m - 1]] ELSE f[n]]
  <2>2. \A n \in 0..m : g[n] = IF n = 0 THEN a ELSE step[n][g[n - 1]]
    <3> TAKE n \in 0..m
    <3>1. CASE n = m
      BY <1>1, <3>1
    <3>2. CASE n # m
      <4>1. n \in 0..(m - 1) /\ n \in 0..m /\ (n # 0 => n - 1 \in 0..m /\ n - 1 # m)
        BY <1>1, <3>2
      <4>2. f[n] = IF n = 0 THEN a ELSE step[n][f[n - 1]]
        BY <2>1, <4>1 DEF Run
      <4> QED
        BY <3>2, <4>1, <4>2
    <3> QED
      BY <3>1, <3>2
  <2>3. \A n \in 0..m : g[n] \in I[n]
    BY <1>1, <2>1 DEF Run, Closed
  <2>4. g = [n \in 0..m |-> g[n]]
    OBVIOUS
  <2> HIDE DEF g
  <2>5. Run(m, I, a, step, g)
    BY <2>2, <2>3, <2>4, Zenon DEF Run
  <2> QED
    BY <2>5
<1>4. N \in G
  <2> HIDE DEF G
  <2>1. \A n \in 0..N : n \in G
    BY <1>1, <1>2, <1>3, UpToAll
  <2> QED
    BY <1>1, <2>1
<1> QED
  BY <1>4

\* And any function that starts and steps like it stays in the sets.
LEMMA RunStays ==
    ASSUME NEW N, NEW I, NEW a, NEW step, Closed(N, I, a, step),
           NEW u, u[0] = a,
           \A n \in 1..N : u[n - 1] \in I[n - 1] => u[n] = step[n][u[n - 1]]
    PROVE  \A n \in 0..N : u[n] \in I[n]
<1> DEFINE G == {n \in 0..N : u[n] \in I[n]}
<1>1. N \in Nat /\ 0 \in G
  BY DEF Closed
<1>2. ASSUME NEW n \in 1..N, n - 1 \in G PROVE n \in G
  BY <1>2, <1>1 DEF Closed
<1>3. \A n \in 0..N : n \in G
  <2> HIDE DEF G
  <2> QED
    BY <1>1, <1>2, UpToAll
<1> QED
  BY <1>3

\* The largest of some positions.
LEMMA MaxOf ==
    ASSUME NEW N \in Nat, NEW S, S \subseteq 1..N, S # {}
    PROVE  Max(S) \in S /\ \A y \in S : y <= Max(S)
<1> DEFINE B == {n \in Nat : N - n \in S}
<1>1. B # {} /\ B \subseteq Nat
  <2>1. PICK x \in S : TRUE
    OBVIOUS
  <2>2. N - x \in Nat /\ N - (N - x) = x
    OBVIOUS
  <2> QED
    BY <2>2, Zenon
<1>2. PICK m \in B : \A y \in B : ~(<<y, m>> \in OpToRel(<, Nat))
  BY <1>1, NatLessThanWellFounded, WFMin, Zenon
<1>3. m \in Nat /\ N - m \in S /\ \A y \in B : ~(y < m)
  BY <1>2, Zenon DEF OpToRel
<1>4. ASSUME NEW y \in S PROVE N - m >= y
  <2>1. N - y \in Nat /\ N - (N - y) = y
    OBVIOUS
  <2>2. N - y \in B
    BY <2>1
  <2>3. ~(N - y < m)
    BY <1>3, <2>2
  <2> QED
    BY <1>3, <2>1, <2>3
<1> HIDE DEF B
<1>5. \E x \in S : \A y \in S : x >= y
  BY <1>3, <1>4
<1>6. Max(S) \in S /\ \A y \in S : Max(S) >= y
  BY <1>5, Zenon DEF Max
<1> QED
  BY <1>6

\* An entry of the list of mounts.
MountPoint == [at : Place, dest : Dest]

StackUpto(list, at) ==
    CHOOSE upto : upto = [n \in 0..Len(list) |->
            IF n = 0 THEN <<>>
            ELSE IF list[n].at = at THEN Append(upto[n - 1], list[n].dest)
            ELSE upto[n - 1]]

\* The stack of a place, entry by entry of the list.
Stacking(list, at, u) ==
    /\ u[0] = <<>>
    /\ \A n \in 1..Len(list) :
          u[n] = IF list[n].at = at THEN Append(u[n - 1], list[n].dest) ELSE u[n - 1]
    /\ \A n \in 0..Len(list) : u[n] \in Seq(Dest)
    /\ StackOf(list, at) = u[Len(list)]

\* StackOf goes through the list entry by entry.
LEMMA StackIs ==
    ASSUME NEW list \in Seq(MountPoint), NEW at
    PROVE  Stacking(list, at, StackUpto(list, at))
<1> DEFINE N == Len(list)
           I == [n \in 0..N |-> Seq(Dest)]
           step == [n \in 1..N |-> [s \in Seq(Dest) |->
                       IF list[n].at = at THEN Append(s, list[n].dest) ELSE s]]
           u == StackUpto(list, at)
<1>1. N \in Nat
  OBVIOUS
<1>2. Closed(N, I, <<>>, step)
  <2>1. <<>> \in I[0]
    OBVIOUS
  <2>2. ASSUME NEW n \in 1..N, NEW s \in I[n - 1] PROVE step[n][s] \in I[n]
    <3>1. s \in Seq(Dest) /\ I[n] = Seq(Dest)
      BY <1>1
    <3>2. list[n].dest \in Dest
      <4>1. list[n] \in MountPoint
        BY <1>1
      <4> HIDE DEF I, step
      <4> QED
        BY <4>1 DEF MountPoint
    <3>3. Append(s, list[n].dest) \in Seq(Dest)
      BY <3>1, <3>2
    <3>4. step[n][s] \in Seq(Dest)
      BY <3>1, <3>3
    <3> QED
      BY <3>1, <3>4, Zenon
  <2> HIDE DEF I, step
  <2> QED
    BY <1>1, <2>1, <2>2 DEF Closed
<1>3. PICK f : Run(N, I, <<>>, step, f)
  <2> HIDE DEF I, step
  <2> QED
    BY <1>2, RunExists
<1>4. ASSUME NEW n \in 0..N
      PROVE  f[n] = IF n = 0 THEN <<>>
                    ELSE IF list[n].at = at THEN Append(f[n - 1], list[n].dest)
                    ELSE f[n - 1]
  <2>1. f[n] = IF n = 0 THEN <<>> ELSE step[n][f[n - 1]]
    <3> HIDE DEF step
    <3> QED
      BY <1>3 DEF Run
  <2>2. CASE n = 0
    BY <2>1, <2>2
  <2>3. CASE n # 0
    <3>1. n \in 1..N /\ n - 1 \in 0..N
      BY <1>1, <2>3
    <3>2. f[n - 1] \in Seq(Dest)
      BY <1>3, <3>1, Zenon DEF Run
    <3> QED
      BY <2>1, <2>3, <3>1, <3>2
  <2> QED
    BY <2>2, <2>3
<1>5. f = [n \in 0..N |-> f[n]]
  <2> HIDE DEF I, step
  <2> QED
    BY <1>3 DEF Run
<1>6. f = [n \in 0..Len(list) |->
            IF n = 0 THEN <<>>
            ELSE IF list[n].at = at THEN Append(f[n - 1], list[n].dest)
            ELSE f[n - 1]]
  <2> HIDE DEF I, step
  <2> QED
    BY <1>4, <1>5
<1>7. u = [n \in 0..Len(list) |->
            IF n = 0 THEN <<>>
            ELSE IF list[n].at = at THEN Append(u[n - 1], list[n].dest)
            ELSE u[n - 1]]
  <2> HIDE DEF I, step
  <2> QED
    BY <1>6, Zenon DEF StackUpto
<1>8. StackOf(list, at) = u[N]
  BY DEF StackOf, StackUpto
<1> HIDE DEF u
<1>9. /\ u[0] = <<>>
      /\ \A n \in 1..N :
            u[n] = IF list[n].at = at THEN Append(u[n - 1], list[n].dest) ELSE u[n - 1]
  <2>1. 0 \in 0..N /\ \A n \in 1..N : n \in 0..N /\ n # 0
    BY <1>1
  <2> HIDE DEF I, step
  <2> QED
    BY <1>7, <2>1, Zenon
<1>10. \A n \in 0..N : u[n] \in I[n]
  <2>1. ASSUME NEW n \in 1..N, u[n - 1] \in I[n - 1] PROVE u[n] = step[n][u[n - 1]]
    <3>1. u[n - 1] \in Seq(Dest)
      BY <1>1, <2>1
    <3> QED
      BY <1>9, <3>1
  <2> HIDE DEF I, step
  <2> QED
    BY <1>2, <1>9, <2>1, RunStays
<1>11. \A n \in 0..N : u[n] \in Seq(Dest)
  BY <1>10
<1> HIDE DEF I, step
<1>12. Stacking(list, at, u)
  BY <1>8, <1>9, <1>11 DEF Stacking
<1> QED
  BY <1>12 DEF u

\* Lists with the same first m entries have the same stacks there.
LEMMA StackPrefix ==
    ASSUME NEW l \in Seq(MountPoint), NEW r \in Seq(MountPoint), NEW at, NEW u, NEW v,
           Stacking(l, at, u), Stacking(r, at, v),
           NEW m \in Nat, m <= Len(l), m <= Len(r), \A j \in 1..m : l[j] = r[j]
    PROVE  u[m] = v[m]
<1> DEFINE G == {n \in 0..m : u[n] = v[n]}
<1>1. 0 \in G
  BY DEF Stacking
<1>2. ASSUME NEW n \in 1..m, n - 1 \in G PROVE n \in G
  <2>1. n \in 1..Len(l) /\ n \in 1..Len(r) /\ n \in 0..m
    OBVIOUS
  <2>2. /\ u[n] = IF l[n].at = at THEN Append(u[n - 1], l[n].dest) ELSE u[n - 1]
        /\ v[n] = IF r[n].at = at THEN Append(v[n - 1], r[n].dest) ELSE v[n - 1]
    BY <2>1, Zenon DEF Stacking
  <2>3. u[n - 1] = v[n - 1] /\ l[n] = r[n]
    BY <1>2
  <2>4. u[n] = v[n]
    BY <2>2, <2>3, Zenon
  <2> QED
    BY <2>1, <2>4
<1>3. \A n \in 0..m : n \in G
  <2> HIDE DEF G
  <2> QED
    BY <1>1, <1>2, UpToAll, Zenon
<1> QED
  BY <1>3

\* A mount is put on the stack of its place.
LEMMA StackGrows ==
    ASSUME NEW l \in Seq(MountPoint), NEW p \in MountPoint, NEW at
    PROVE  /\ StackOf(l, at) \in Seq(Dest)
           /\ StackOf(Append(l, p), at)
                 = IF p.at = at THEN Append(StackOf(l, at), p.dest) ELSE StackOf(l, at)
<1> DEFINE r == Append(l, p)
           m == Len(l)
<1>1. /\ r \in Seq(MountPoint) /\ m \in Nat /\ Len(r) = m + 1 /\ r[m + 1] = p
      /\ \A j \in 1..m : l[j] = r[j]
  OBVIOUS
<1>a. m = Len(l)
  OBVIOUS
<1> HIDE DEF r, m
<1>2. PICK u, v : Stacking(l, at, u) /\ Stacking(r, at, v)
  BY <1>1, StackIs, Zenon
<1>3. u[m] = v[m]
  <2>1. m <= Len(l) /\ m <= Len(r)
    BY <1>1, <1>a
  <2> QED
    BY <1>1, <1>2, <2>1, StackPrefix
<1>4. m + 1 \in 1..Len(r) /\ m + 1 - 1 = m /\ m \in 0..Len(l)
  BY <1>1, <1>a
<1>5. v[m + 1] = IF r[m + 1].at = at THEN Append(v[m], r[m + 1].dest) ELSE v[m]
  <2> DEFINE x == m + 1
  <2>1. x \in 1..Len(r) /\ x - 1 = m
    BY <1>4
  <2> HIDE DEF x
  <2>2. v[x] = IF r[x].at = at THEN Append(v[x - 1], r[x].dest) ELSE v[x - 1]
    BY <1>2, <2>1, Zenon DEF Stacking
  <2> QED
    BY <2>1, <2>2, Zenon DEF x
<1>6. StackOf(l, at) = u[m] /\ StackOf(r, at) = v[m + 1] /\ u[m] \in Seq(Dest)
  BY <1>1, <1>a, <1>2, <1>4, Zenon DEF Stacking
<1> QED
  BY <1>1, <1>3, <1>5, <1>6 DEF r

\* A list without its i-th entry.
Without(l, i, r) ==
    /\ r \in Seq(MountPoint) /\ Len(r) = Len(l) - 1
    /\ \A j \in 1..(i - 1) : r[j] = l[j]
    /\ \A j \in i..Len(r) : r[j] = l[j + 1]

\* RemoveAt takes out one entry and moves the later ones up.
LEMMA RemoveAtIs ==
    ASSUME NEW l \in Seq(MountPoint), NEW i \in 1..Len(l)
    PROVE  Without(l, i, DropAt(l, i))
<1> DEFINE a == SubSeq(l, 1, i - 1)
           b == SubSeq(l, i + 1, Len(l))
           r == a \o b
<1>1. DropAt(l, i) = r
  BY DEF DropAt
<1>2. /\ a \in Seq(MountPoint) /\ Len(a) = i - 1 /\ \A j \in 1..(i - 1) : a[j] = l[j]
      /\ b \in Seq(MountPoint) /\ Len(b) = Len(l) - i
      /\ \A j \in 1..(Len(l) - i) : b[j] = l[i + j]
  BY SubSeqProperties
<1> HIDE DEF a, b
<1>3. /\ r \in Seq(MountPoint) /\ Len(r) = Len(l) - 1
      /\ \A j \in 1..Len(r) : r[j] = IF j <= i - 1 THEN a[j] ELSE b[j - (i - 1)]
  <2>1. /\ r \in Seq(MountPoint) /\ Len(r) = Len(a) + Len(b)
        /\ \A j \in 1..Len(a) + Len(b) : r[j] = IF j <= Len(a) THEN a[j] ELSE b[j - Len(a)]
    BY <1>2, ConcatProperties, Zenon
  <2>2. Len(a) + Len(b) = Len(l) - 1
    BY <1>2
  <2> HIDE DEF r
  <2> QED
    BY <1>2, <2>1, <2>2, Zenon
<1> HIDE DEF r
<1>4. ASSUME NEW j \in 1..(i - 1) PROVE r[j] = l[j]
  <2>1. j \in 1..Len(r) /\ j <= i - 1
    BY <1>3
  <2> QED
    BY <1>2, <1>3, <2>1, Zenon
<1>5. ASSUME NEW j \in i..Len(r) PROVE r[j] = l[j + 1]
  <2>1. j \in 1..Len(r) /\ ~(j <= i - 1) /\ j - (i - 1) \in 1..(Len(l) - i)
        /\ i + (j - (i - 1)) = j + 1
    BY <1>3
  <2> QED
    BY <1>2, <1>3, <2>1
<1> QED
  BY <1>1, <1>3, <1>4, <1>5 DEF Without

\* The last mount of a place is taken off its stack, and no other stack changes.
LEMMA StackShrinks ==
    ASSUME NEW l \in Seq(MountPoint), NEW i \in 1..Len(l),
           \A j \in 1..Len(l) : l[j].at = l[i].at => j <= i,
           NEW r, Without(l, i, r), NEW at
    PROVE  IF l[i].at = at
           THEN \E s \in Seq(Dest) : /\ StackOf(l, at) = Append(s, l[i].dest)
                                     /\ StackOf(r, at) = s
           ELSE StackOf(r, at) = StackOf(l, at)
<1>1. /\ r \in Seq(MountPoint) /\ Len(r) = Len(l) - 1 /\ Len(l) \in Nat
      /\ i \in Nat /\ i >= 1
      /\ \A j \in 1..(i - 1) : r[j] = l[j]
      /\ \A j \in i..Len(r) : r[j] = l[j + 1]
  BY DEF Without
<1>2. PICK u, v : Stacking(l, at, u) /\ Stacking(r, at, v)
  BY <1>1, StackIs, Zenon
<1>3. u[i - 1] = v[i - 1] /\ u[i - 1] \in Seq(Dest)
  <2>1. i - 1 \in Nat /\ i - 1 <= Len(l) /\ i - 1 <= Len(r) /\ i - 1 \in 0..Len(l)
    BY <1>1
  <2>2. u[i - 1] = v[i - 1]
    <3>1. \A j \in 1..(i - 1) : l[j] = r[j]
      BY <1>1, Zenon
    <3> QED
      BY <1>1, <1>2, <2>1, <3>1, StackPrefix
  <2> QED
    BY <1>2, <2>1, <2>2, Zenon DEF Stacking
<1>4. u[i] = IF l[i].at = at THEN Append(u[i - 1], l[i].dest) ELSE u[i - 1]
  BY <1>2, Zenon DEF Stacking
<1> DEFINE K == Len(l) - i
<1>5. K \in Nat /\ i + K = Len(l) /\ (i - 1) + K = Len(r)
  BY <1>1
<1> HIDE DEF K
<1>6. ASSUME NEW n \in 1..K
      PROVE  /\ u[i + n] = IF l[i + n].at = at THEN Append(u[i + (n - 1)], l[i + n].dest)
                           ELSE u[i + (n - 1)]
             /\ v[(i - 1) + n] = IF l[i + n].at = at
                                 THEN Append(v[(i - 1) + (n - 1)], l[i + n].dest)
                                 ELSE v[(i - 1) + (n - 1)]
             /\ l[i + n].at # l[i].at
  <2>1. /\ i + n \in 1..Len(l) /\ (i + n) - 1 = i + (n - 1) /\ ~(i + n <= i)
        /\ (i - 1) + n \in 1..Len(r) /\ ((i - 1) + n) - 1 = (i - 1) + (n - 1)
        /\ (i - 1) + n \in i..Len(r) /\ ((i - 1) + n) + 1 = i + n
    <3> DEFINE a == Len(l)
               b == Len(r)
    <3>1. i + K = a /\ (i - 1) + K = b /\ K \in Nat /\ i \in Nat /\ i >= 1
      BY <1>1, <1>5, Zenon
    <3> HIDE DEF a, b
    <3>2. /\ i + n \in 1..a /\ (i + n) - 1 = i + (n - 1) /\ ~(i + n <= i)
          /\ (i - 1) + n \in 1..b /\ ((i - 1) + n) - 1 = (i - 1) + (n - 1)
          /\ (i - 1) + n \in i..b /\ ((i - 1) + n) + 1 = i + n
      BY <3>1
    <3> QED
      BY <3>2 DEF a, b
  <2> DEFINE x == i + n
             y == (i - 1) + n
  <2>2. u[x] = IF l[x].at = at THEN Append(u[x - 1], l[x].dest) ELSE u[x - 1]
    BY <1>2, <2>1, Zenon DEF Stacking
  <2>3. v[y] = IF r[y].at = at THEN Append(v[y - 1], r[y].dest) ELSE v[y - 1]
    BY <1>2, <2>1, Zenon DEF Stacking
  <2>4. r[y] = l[x] /\ l[x].at # l[i].at
    BY <1>1, <2>1
  <2> QED
    BY <2>1, <2>2, <2>3, <2>4
<1> HIDE DEF K
<1>7. StackOf(l, at) = u[i + K] /\ StackOf(r, at) = v[(i - 1) + K]
  BY <1>2, <1>5, Zenon DEF Stacking
<1>8. CASE l[i].at = at
  <2> DEFINE G == {n \in 0..K : /\ v[(i - 1) + n] = u[i - 1]
                                /\ u[i + n] = Append(u[i - 1], l[i].dest)}
  <2>1. 0 \in G
    BY <1>1, <1>3, <1>4, <1>5, <1>8
  <2>2. ASSUME NEW n \in 1..K, n - 1 \in G PROVE n \in G
    <3>1. u[i + n] = u[i + (n - 1)] /\ v[(i - 1) + n] = v[(i - 1) + (n - 1)]
      BY <1>6, <1>8
    <3>2. v[(i - 1) + (n - 1)] = u[i - 1] /\ u[i + (n - 1)] = Append(u[i - 1], l[i].dest)
      BY <2>2
    <3>3. n \in 0..K
      BY <1>5
    <3> QED
      BY <3>1, <3>2, <3>3, Zenon
  <2>3. K \in G
    <3> HIDE DEF G
    <3>1. \A n \in 0..K : n \in G
      BY <1>5, <2>1, <2>2, UpToAll, Zenon
    <3> QED
      BY <1>5, <3>1
  <2>4. StackOf(l, at) = Append(u[i - 1], l[i].dest) /\ StackOf(r, at) = u[i - 1]
    BY <1>7, <2>3
  <2> QED
    BY <1>3, <1>8, <2>4, Zenon
<1>9. CASE l[i].at # at
  <2> DEFINE G == {n \in 0..K : v[(i - 1) + n] = u[i + n]}
  <2>1. 0 \in G
    BY <1>1, <1>3, <1>4, <1>5, <1>9
  <2>2. ASSUME NEW n \in 1..K, n - 1 \in G PROVE n \in G
    <3>1. v[(i - 1) + (n - 1)] = u[i + (n - 1)]
      BY <2>2
    <3>2. v[(i - 1) + n] = u[i + n]
      BY <1>6, <3>1, Zenon
    <3> QED
      BY <1>5, <3>2
  <2>3. K \in G
    <3> HIDE DEF G
    <3>1. \A n \in 0..K : n \in G
      BY <1>5, <2>1, <2>2, UpToAll, Zenon
    <3> QED
      BY <1>5, <3>1
  <2> QED
    BY <1>7, <1>9, <2>3
<1> QED
  BY <1>8, <1>9

\* The entries of the list of mounts are mounts.
MountsOK == mounts \in Seq(MountPoint)

\* What umount looks for.
FoundAt(at) == {i \in DOMAIN mounts : mounts[i].at = at}

\* At the start nothing is mounted.
LEMMA MountsOKInit == PathsInit => MountsOK
BY DEF PathsInit, MountsOK

\* umount takes away the last mount of a place.
LEMMA UmountTakes ==
    ASSUME MountsOK, NEW at, FoundAt(at) # {}
    PROVE  /\ Max(FoundAt(at)) \in 1..Len(mounts) /\ mounts[Max(FoundAt(at))].at = at
           /\ \A j \in 1..Len(mounts) : mounts[j].at = at => j <= Max(FoundAt(at))
           /\ at \in Place
           /\ Without(mounts, Max(FoundAt(at)), DropAt(mounts, Max(FoundAt(at))))
<1> DEFINE S == FoundAt(at)
<1>1. mounts \in Seq(MountPoint) /\ Len(mounts) \in Nat /\ DOMAIN mounts = 1..Len(mounts)
  BY DEF MountsOK
<1>2. S \subseteq 1..Len(mounts) /\ \A i \in 1..Len(mounts) : i \in S <=> mounts[i].at = at
  BY <1>1 DEF FoundAt
<1> HIDE DEF S
<1>3. Max(S) \in S /\ \A y \in S : y <= Max(S)
  <2>1. S # {}
    BY DEF S
  <2> QED
    BY <1>1, <1>2, <2>1, MaxOf, Zenon
<1> DEFINE i == Max(S)
<1> HIDE DEF i
<1>4. i \in 1..Len(mounts) /\ mounts[i].at = at
  BY <1>2, <1>3, Zenon DEF i
<1>5. \A j \in 1..Len(mounts) : mounts[j].at = at => j <= i
  BY <1>2, <1>3, Zenon DEF i
<1>6. at \in Place
  <2>1. mounts[i] \in MountPoint
    BY <1>1, <1>4
  <2> QED
    BY <1>4, <2>1 DEF MountPoint
<1>7. Without(mounts, i, DropAt(mounts, i))
  BY <1>1, <1>4, RemoveAtIs
<1> QED
  BY <1>4, <1>5, <1>6, <1>7 DEF i, S

\* A step mounts, takes a mount away, or leaves the mounts alone.
MountStep ==
    \/ UNCHANGED mounts
    \/ \E at \in Place, dest \in Dest : mounts' = Append(mounts, [at |-> at, dest |-> dest])
    \/ \E at : FoundAt(at) # {} /\ mounts' = DropAt(mounts, Max(FoundAt(at)))

\* No other call touches the list of mounts.
LEMMA StepsMount == [PathsNext]_pvars => MountStep
<1> SUFFICES ASSUME [PathsNext]_pvars PROVE MountStep
  OBVIOUS
<1>1. CASE UNCHANGED pvars
  BY <1>1 DEF pvars, MountStep
<1>2. CASE PathsNext
  <2>1. PICK path \in Args :
           \/ Create(path) \/ Mkdir(path) \/ Unlink(path) \/ Rmdir(path)
           \/ Chdir(path) \/ Umount(path)
           \/ \E to \in LinkTo : Symlink(to, path)
           \/ \E new \in Args : Link(path, new) \/ Rename(path, new)
           \/ \E dest \in Dest : Mount(dest, path)
    BY <1>2 DEF PathsNext
  <2>2. CASE Create(path) \/ Mkdir(path) \/ Unlink(path) \/ Rmdir(path) \/ Chdir(path)
    BY <2>2, Zenon DEF Create, Mkdir, Unlink, Rmdir, Chdir, MountStep
  <2>3. CASE Umount(path)
    BY <2>3, Zenon DEF Umount, FoundAt, MountStep
  <2>4. CASE \E to \in LinkTo : Symlink(to, path)
    BY <2>4 DEF Symlink, MountStep
  <2>5. CASE \E new \in Args : Link(path, new) \/ Rename(path, new)
    BY <2>5, Zenon DEF Link, Rename, MountStep
  <2>6. CASE \E dest \in Dest : Mount(dest, path)
    BY <2>6, Zenon DEF Mount, MountStep
  <2> QED
    BY <2>1, <2>2, <2>3, <2>4, <2>5, <2>6
<1> QED
  BY <1>1, <1>2

\* Mounting and unmounting keep the list one of mounts.
LEMMA MountsOKStep == MountsOK /\ MountStep => MountsOK'
<1> SUFFICES ASSUME MountsOK, MountStep PROVE MountsOK'
  OBVIOUS
<1>1. CASE UNCHANGED mounts
  BY <1>1 DEF MountsOK
<1>2. ASSUME NEW at \in Place, NEW dest \in Dest,
             mounts' = Append(mounts, [at |-> at, dest |-> dest])
      PROVE  MountsOK'
  <2>1. [at |-> at, dest |-> dest] \in MountPoint
    BY DEF MountPoint
  <2> QED
    BY <1>2, <2>1 DEF MountsOK
<1>3. ASSUME NEW at, FoundAt(at) # {}, mounts' = DropAt(mounts, Max(FoundAt(at)))
      PROVE  MountsOK'
  <2>1. Without(mounts, Max(FoundAt(at)), DropAt(mounts, Max(FoundAt(at))))
    BY <1>3, UmountTakes
  <2> QED
    BY <1>3, <2>1 DEF Without, MountsOK
<1> QED
  BY <1>1, <1>2, <1>3, Zenon DEF MountStep

\* The list of mounts always is one.
LEMMA MountsOKHolds == PathsSpec => []MountsOK
BY MountsOKInit, StepsMount, MountsOKStep, PTL DEF PathsSpec

\* Mounting, on the one list, pushes on the stack of the place.
LEMMA MountPushes ==
    ASSUME MountsOK, NEW at \in Place, NEW dest \in Dest,
           mounts' = Append(mounts, [at |-> at, dest |-> dest])
    PROVE  Stacks!Mount(at, dest)
<1> DEFINE p == [at |-> at, dest |-> dest]
<1>1. p \in MountPoint /\ p.at = at /\ p.dest = dest /\ mounts' = Append(mounts, p)
  BY DEF MountPoint
<1> HIDE DEF p
<1>2. mounts \in Seq(MountPoint)
  BY DEF MountsOK
<1>3. \A x \in Place : StackOf(mounts', x) = IF at = x THEN Append(StackOf(mounts, x), dest)
                                            ELSE StackOf(mounts, x)
  BY <1>1, <1>2, StackGrows
<1> QED
  BY <1>3, Zenon DEF Stacks!Mount, StackAt

\* The last of a sequence that is taken off.
LEMMA PopOf ==
    ASSUME NEW s \in Seq(Dest), NEW d \in Dest
    PROVE  /\ Append(s, d) # <<>> /\ Append(s, d) \in Seq(Dest)
           /\ SubSeq(Append(s, d), 1, Len(Append(s, d)) - 1) = s
           /\ LastOf(Append(s, d)) = d
<1> DEFINE a == Append(s, d)
<1>1. a \in Seq(Dest) /\ Len(a) = Len(s) + 1 /\ a # <<>> /\ \A j \in 1..Len(s) : a[j] = s[j]
      /\ a[Len(s) + 1] = d
  OBVIOUS
<1> HIDE DEF a
<1>2. Len(a) - 1 = Len(s)
  BY <1>1
<1> DEFINE b == SubSeq(a, 1, Len(s))
<1>3. b \in Seq(Dest) /\ Len(b) = Len(s) /\ \A j \in 1..Len(s) : b[j] = a[j]
  BY <1>1
<1> HIDE DEF b
<1>4. b = s
  BY <1>1, <1>3, SeqEqual
<1>5. LastOf(a) = d
  BY <1>1 DEF LastOf, a
<1> QED
  BY <1>1, <1>2, <1>4, <1>5 DEF a, b

\* umount, on the one list, pops the stack of the place.
LEMMA UmountPops ==
    ASSUME MountsOK, NEW at, FoundAt(at) # {}, mounts' = DropAt(mounts, Max(FoundAt(at)))
    PROVE  at \in Place /\ Stacks!Umount(at)
<1> DEFINE i == Max(FoundAt(at))
<1>1. /\ i \in 1..Len(mounts) /\ mounts[i].at = at /\ at \in Place
      /\ \A j \in 1..Len(mounts) : mounts[j].at = at => j <= i
      /\ Without(mounts, i, mounts') /\ mounts \in Seq(MountPoint)
  BY UmountTakes DEF MountsOK
<1> HIDE DEF i
<1>2. mounts[i].dest \in Dest
  <2>1. mounts[i] \in MountPoint
    BY <1>1
  <2> QED
    BY <2>1 DEF MountPoint
<1>3. ASSUME NEW x \in Place
      PROVE  IF at = x THEN \E s \in Seq(Dest) : /\ StackOf(mounts, x) = Append(s, mounts[i].dest)
                                               /\ StackOf(mounts', x) = s
             ELSE StackOf(mounts', x) = StackOf(mounts, x)
  BY <1>1, StackShrinks
<1>4. /\ StackOf(mounts, at) # <<>>
      /\ StackOf(mounts', at) = SubSeq(StackOf(mounts, at), 1, Len(StackOf(mounts, at)) - 1)
  <2>1. PICK s \in Seq(Dest) : /\ StackOf(mounts, at) = Append(s, mounts[i].dest)
                               /\ StackOf(mounts', at) = s
    BY <1>1, <1>3
  <2> QED
    BY <1>2, <2>1, PopOf
<1>5. \A x \in Place : x # at => StackOf(mounts', x) = StackOf(mounts, x)
  BY <1>3
<1> QED
  BY <1>1, <1>4, <1>5, Zenon DEF Stacks!Umount, StackAt

\* The one list that sys_mount appends to, and from which sys_umount takes the
\* last mount of a place, implements a stack for each place, whatever is mounted
\* where and in which order it goes.
THEOREM MountsRefine == PathsSpec => MountsAreStacks
<1>1. PathsInit => Stacks!Init
  <2> SUFFICES ASSUME PathsInit PROVE Stacks!Init
    OBVIOUS
  <2>1. ASSUME NEW at PROVE StackOf(mounts, at) = <<>>
    <3>1. mounts \in Seq(MountPoint) /\ Len(mounts) = 0
      BY DEF PathsInit
    <3>2. Stacking(mounts, at, StackUpto(mounts, at))
      BY <3>1, StackIs, Zenon
    <3> QED
      BY <3>1, <3>2 DEF Stacking
  <2> QED
    BY <2>1 DEF Stacks!Init, StackAt
<1>2. MountsOK /\ MountStep => [Stacks!Next]_([at \in Place |-> StackAt(at)])
  <2> SUFFICES ASSUME MountsOK, MountStep
               PROVE  Stacks!Next \/ UNCHANGED [at \in Place |-> StackAt(at)]
    OBVIOUS
  <2>1. CASE UNCHANGED mounts
    BY <2>1 DEF StackAt
  <2>2. ASSUME NEW at \in Place, NEW dest \in Dest,
               mounts' = Append(mounts, [at |-> at, dest |-> dest])
        PROVE  Stacks!Next
    BY <2>2, MountPushes DEF Stacks!Next
  <2>3. ASSUME NEW at, FoundAt(at) # {}, mounts' = DropAt(mounts, Max(FoundAt(at)))
        PROVE  Stacks!Next
    BY <2>3, UmountPops DEF Stacks!Next
  <2> QED
    BY <2>1, <2>2, <2>3, Zenon DEF MountStep
<1> QED
  BY <1>1, <1>2, StepsMount, MountsOKHolds, PTL DEF PathsSpec, MountsAreStacks, Stacks!Spec

(* Walk                                                                    *)

WalkUpto(lst, elements, keep) ==
    CHOOSE upto : upto = [n \in 0..Len(elements) |->
            IF n = 0 THEN lst
            ELSE LET l == upto[n - 1]
                 IN  IF elements[n] # ".." THEN Append(l, elements[n])
                     ELSE IF Len(l) <= keep THEN l ELSE Parent(l)]

\* What one element does to a list.
OneMore(l, e, keep) ==
    IF e # ".." THEN Append(l, e) ELSE IF Len(l) <= keep THEN l ELSE Parent(l)

\* The lists of a walk, element by element.
Walking(S, lst, elements, keep, u) ==
    /\ u[0] = lst
    /\ \A n \in 1..Len(elements) : u[n] = OneMore(u[n - 1], elements[n], keep)
    /\ \A n \in 0..Len(elements) : u[n] \in Seq(S)
    /\ Walk(lst, elements, keep) = u[Len(elements)]

\* A list without its last element.
LEMMA FrontOf ==
    ASSUME NEW S, NEW l \in Seq(S), NEW k \in Nat, ~(Len(l) <= k)
    PROVE  /\ Parent(l) \in Seq(S) /\ Len(Parent(l)) = Len(l) - 1
           /\ \A i \in 1..(Len(l) - 1) : Parent(l)[i] = l[i]
<1> DEFINE m == Len(l) - 1
           b == SubSeq(l, 1, m)
<1>1. m \in Nat /\ m \in Int /\ \A i \in 1..m : l[i] \in S
  OBVIOUS
<1> HIDE DEF m
<1>2. /\ b \in Seq(S) /\ Len(b) = IF 1 <= m THEN m - 1 + 1 ELSE 0
      /\ \A i \in 1..(m - 1 + 1) : b[i] = l[1 + i - 1]
  BY <1>1, SubSeqProperties
<1> HIDE DEF b
<1>3. Len(b) = m /\ \A i \in 1..m : b[i] = l[i]
  BY <1>1, <1>2
<1> QED
  BY <1>2, <1>3 DEF Parent, m, b

\* An element leaves a list one of names.
LEMMA OneMoreIn ==
    ASSUME NEW S, NEW l \in Seq(S), NEW e \in S \cup {".."}, NEW keep \in Nat
    PROVE  OneMore(l, e, keep) \in Seq(S)
BY FrontOf DEF OneMore

\* Walk goes through the elements one by one.
LEMMA WalkIs ==
    ASSUME NEW S, NEW lst \in Seq(S), NEW elements \in Seq(S \cup {".."}), NEW keep \in Nat
    PROVE  Walking(S, lst, elements, keep, WalkUpto(lst, elements, keep))
<1> DEFINE N == Len(elements)
           I == [n \in 0..N |-> Seq(S)]
           step == [n \in 1..N |-> [l \in Seq(S) |-> OneMore(l, elements[n], keep)]]
           u == WalkUpto(lst, elements, keep)
<1>1. N \in Nat /\ \A n \in 1..N : elements[n] \in S \cup {".."}
  OBVIOUS
<1>2. Closed(N, I, lst, step)
  <2>1. lst \in I[0]
    BY <1>1
  <2>2. ASSUME NEW n \in 1..N, NEW l \in I[n - 1] PROVE step[n][l] \in I[n]
    <3>1. l \in Seq(S) /\ I[n] = Seq(S)
      BY <1>1
    <3>2. OneMore(l, elements[n], keep) \in Seq(S)
      BY <1>1, <3>1, OneMoreIn, Zenon
    <3>3. step[n][l] \in Seq(S)
      BY <3>1, <3>2
    <3> QED
      BY <3>1, <3>3
  <2> HIDE DEF I, step
  <2> QED
    BY <1>1, <2>1, <2>2 DEF Closed
<1>3. PICK f : Run(N, I, lst, step, f)
  <2> HIDE DEF I, step
  <2> QED
    BY <1>2, RunExists
<1>4. ASSUME NEW n \in 0..N
      PROVE  f[n] = IF n = 0 THEN lst ELSE OneMore(f[n - 1], elements[n], keep)
  <2>1. f[n] = IF n = 0 THEN lst ELSE step[n][f[n - 1]]
    <3> HIDE DEF step
    <3> QED
      BY <1>3 DEF Run
  <2>2. CASE n = 0
    BY <2>1, <2>2
  <2>3. CASE n # 0
    <3>1. n \in 1..N /\ n - 1 \in 0..N
      BY <1>1, <2>3
    <3>2. f[n - 1] \in Seq(S)
      BY <1>3, <3>1, Zenon DEF Run
    <3> QED
      BY <2>1, <2>3, <3>1, <3>2
  <2> QED
    BY <2>2, <2>3
<1>5. f = [n \in 0..N |-> f[n]]
  <2> HIDE DEF I, step
  <2> QED
    BY <1>3 DEF Run
<1>6. f = [n \in 0..N |-> IF n = 0 THEN lst ELSE OneMore(f[n - 1], elements[n], keep)]
  <2> HIDE DEF I, step
  <2> QED
    BY <1>4, <1>5, Zenon
<1>a. u = CHOOSE x : x = [n \in 0..N |-> IF n = 0 THEN lst
                                        ELSE OneMore(x[n - 1], elements[n], keep)]
  BY Zenon DEF WalkUpto, OneMore
<1>7. u = [n \in 0..N |-> IF n = 0 THEN lst ELSE OneMore(u[n - 1], elements[n], keep)]
  <2> HIDE DEF I, step, N, u
  <2> QED
    BY <1>6, <1>a, Zenon
<1>8. Walk(lst, elements, keep) = u[N]
  BY DEF Walk, WalkUpto
<1> HIDE DEF u
<1>9. u[0] = lst /\ \A n \in 1..N : u[n] = OneMore(u[n - 1], elements[n], keep)
  <2>1. 0 \in 0..N /\ \A n \in 1..N : n \in 0..N /\ n # 0
    BY <1>1
  <2> HIDE DEF I, step
  <2> QED
    BY <1>7, <2>1
<1>10. \A n \in 0..N : u[n] \in I[n]
  <2>1. ASSUME NEW n \in 1..N, u[n - 1] \in I[n - 1] PROVE u[n] = step[n][u[n - 1]]
    <3>1. u[n - 1] \in Seq(S)
      BY <1>1, <2>1
    <3> QED
      BY <1>9, <3>1
  <2> HIDE DEF I, step
  <2> QED
    BY <1>2, <1>9, <2>1, RunStays
<1>11. \A n \in 0..N : u[n] \in Seq(S)
  BY <1>10
<1> HIDE DEF I, step
<1>12. Walking(S, lst, elements, keep, u)
  BY <1>8, <1>9, <1>11 DEF Walking
<1> QED
  BY <1>12 DEF u

\* A walk ends with a list of names without "..".
LEMMA WalkType ==
    ASSUME NEW S, NEW lst \in Seq(S), NEW elements \in Seq(S \cup {".."}), NEW keep \in Nat
    PROVE  Walk(lst, elements, keep) \in Seq(S)
<1>1. PICK u : Walking(S, lst, elements, keep, u)
  BY WalkIs
<1>2. Len(elements) \in 0..Len(elements)
  OBVIOUS
<1> QED
  BY <1>1, <1>2, Zenon DEF Walking

\* One element more is one more step of the walk.
LEMMA WalkAppend ==
    ASSUME NEW S, NEW lst \in Seq(S), NEW l \in Seq(S \cup {".."}), NEW keep \in Nat,
           NEW e \in S \cup {".."}
    PROVE  Walk(lst, Append(l, e), keep) = OneMore(Walk(lst, l, keep), e, keep)
<1> DEFINE r == Append(l, e)
           m == Len(l)
<1>1. /\ r \in Seq(S \cup {".."}) /\ m \in Nat /\ Len(r) = m + 1 /\ r[m + 1] = e
      /\ \A j \in 1..m : l[j] = r[j]
  OBVIOUS
<1>a. m = Len(l)
  OBVIOUS
<1> HIDE DEF r, m
<1>2. PICK u, v : Walking(S, lst, l, keep, u) /\ Walking(S, lst, r, keep, v)
  BY <1>1, WalkIs
<1> DEFINE G == {n \in 0..m : u[n] = v[n]}
<1>3. 0 \in G
  BY <1>1, <1>2 DEF Walking
<1>4. ASSUME NEW n \in 1..m, n - 1 \in G PROVE n \in G
  <2>1. n \in 1..Len(l) /\ n \in 1..Len(r) /\ n \in 0..m
    BY <1>1, <1>a
  <2>2. u[n] = OneMore(u[n - 1], l[n], keep) /\ v[n] = OneMore(v[n - 1], r[n], keep)
    BY <1>2, <2>1, Zenon DEF Walking
  <2>3. u[n - 1] = v[n - 1] /\ l[n] = r[n]
    BY <1>1, <1>4
  <2> QED
    BY <2>1, <2>2, <2>3, Zenon
<1>5. u[m] = v[m]
  <2>1. \A n \in 0..m : n \in G
    <3> HIDE DEF G
    <3> QED
      BY <1>1, <1>3, <1>4, UpToAll, Zenon
  <2>2. m \in 0..m
    BY <1>1
  <2> QED
    BY <2>1, <2>2, Zenon
<1> DEFINE x == m + 1
<1>6. x \in 1..Len(r) /\ x - 1 = m /\ x = Len(r)
  BY <1>1
<1>7. r[x] = e
  BY <1>1
<1> HIDE DEF x, G
<1>8. v[x] = OneMore(v[x - 1], r[x], keep)
  BY <1>2, <1>6, Zenon DEF Walking
<1>9. Walk(lst, l, keep) = u[m] /\ Walk(lst, r, keep) = v[x]
  BY <1>2, <1>6, <1>a, Zenon DEF Walking
<1>10. Walk(lst, r, keep) = OneMore(Walk(lst, l, keep), e, keep)
  BY <1>5, <1>6, <1>7, <1>8, <1>9, Zenon
<1> QED
  BY <1>10 DEF r

\* Without ".." Win32 takes a path as it is.
LEMMA WalkPlain ==
    ASSUME NEW S, ".." \notin S, NEW w \in Seq(S), NEW keep \in Nat
    PROVE  Walk(<<>>, w, keep) = w
<1>1. w \in Seq(S \cup {".."}) /\ <<>> \in Seq(S) /\ Len(w) \in Nat
  OBVIOUS
<1>2. PICK u : Walking(S, <<>>, w, keep, u)
  BY <1>1, WalkIs, Zenon
<1> DEFINE G == {n \in 0..Len(w) : Len(u[n]) = n /\ \A i \in 1..n : u[n][i] = w[i]}
<1>3. 0 \in G
  <2>1. u[0] = <<>>
    BY <1>2 DEF Walking
  <2> QED
    BY <1>1, <2>1
<1>4. ASSUME NEW n \in 1..Len(w), n - 1 \in G PROVE n \in G
  <2> DEFINE s == u[n - 1]
  <2>1. n - 1 \in 0..Len(w) /\ n \in 0..Len(w) /\ w[n] \in S /\ n \in Nat
    BY <1>1
  <2>2. s \in Seq(S) /\ u[n] = OneMore(s, w[n], keep)
    BY <1>2, <2>1, Zenon DEF Walking
  <2>3. Len(s) = n - 1 /\ \A i \in 1..(n - 1) : s[i] = w[i]
    BY <1>4
  <2> HIDE DEF s
  <2>4. u[n] = Append(s, w[n])
    BY <2>1, <2>2 DEF OneMore
  <2>5. Len(u[n]) = n /\ u[n][n] = w[n] /\ \A i \in 1..(n - 1) : u[n][i] = s[i]
    BY <2>1, <2>2, <2>3, <2>4
  <2>6. \A i \in 1..n : u[n][i] = w[i]
    BY <2>1, <2>3, <2>5
  <2> QED
    BY <2>1, <2>5, <2>6
<1>5. Len(w) \in G
  <2>1. \A n \in 0..Len(w) : n \in G
    <3> HIDE DEF G
    <3> QED
      BY <1>1, <1>3, <1>4, UpToAll, Zenon
  <2> QED
    BY <1>1, <2>1
<1>6. Walk(<<>>, w, keep) = u[Len(w)] /\ u[Len(w)] \in Seq(S)
  <2>1. Len(w) \in 0..Len(w)
    BY <1>1
  <2> QED
    BY <1>2, <2>1, Zenon DEF Walking
<1> QED
  BY <1>5, <1>6, SeqEqual

(* Traverse                                                                *)

\* An element of a Win32 path.
Part == Name \cup Dest \cup {"/"} \cup {Lnk(e) : e \in Name}

\* How far TranverseMountPoints has come.
Spot == [win : Seq(Part \cup {".."}), unix : Seq(Name)]

\* The disk has things at Win32 paths.
DiskOK == DOMAIN disk \subseteq Seq(Part) /\ \A w \in DOMAIN disk : disk[w] \in Thing

\* ".." is an element of no resolved path.
LEMMA NoDots == ".." \notin Part /\ ".." \notin Name
BY PathsConstants DEF Part

\* What Win32 makes of a path has no "..".
LEMMA Win32Type ==
    ASSUME NEW w \in Seq(Part \cup {".."})
    PROVE  Win32(w) \in Seq(Part)
<1>1. <<>> \in Seq(Part) /\ 1 \in Nat
  OBVIOUS
<1> QED
  BY <1>1, WalkType, Zenon DEF Win32

\* An element that is not ".." stays at the end.
LEMMA Win32Append ==
    ASSUME NEW w \in Seq(Part \cup {".."}), NEW e \in Part
    PROVE  Win32(Append(w, e)) = Append(Win32(w), e)
<1>1. Walk(<<>>, Append(w, e), 1) = OneMore(Walk(<<>>, w, 1), e, 1)
  <2>1. <<>> \in Seq(Part) /\ 1 \in Nat /\ e \in Part \cup {".."}
    OBVIOUS
  <2> QED
    BY <2>1, WalkAppend, Zenon
<1> QED
  BY <1>1, NoDots DEF Win32, OneMore

\* A new file and a new directory are things on the disk.
LEMMA ThingFields ==
    /\ File \in Thing /\ Dir \in Thing /\ File.kind = "file" /\ Dir.kind = "dir"
    /\ \A x \in Thing : x.to \in Seq(Name \cup {".."})
<1>1. <<>> \in Seq(Name \cup {".."})
  OBVIOUS
<1>2. Dir \in Thing /\ Dir.kind = "dir"
  BY <1>1 DEF Dir, Thing
<1>3. File \in Thing /\ File.kind = "file"
  BY <1>1, Zenon DEF File, Dir, Thing
<1> QED
  BY <1>2, <1>3 DEF Thing

\* GetLinkDestination answers with something that is on the disk, or a file.
LEMMA LinkThing ==
    ASSUME DiskOK, NEW w, NEW e
    PROVE  GetLinkDestination(w, e) \in Thing
BY ThingFields DEF GetLinkDestination, GetShortcutTarget, DiskOK

\* AppendPath makes names of a path.
LEMMA AppendPathType ==
    ASSUME NEW l \in Seq(Name), NEW path, path.to \in Seq(Name \cup {".."})
    PROVE  AppendPath(l, path) \in Seq(Name)
<1>1. <<>> \in Seq(Name) /\ (IF path.abs THEN <<>> ELSE l) \in Seq(Name)
  OBVIOUS
<1> QED
  BY <1>1, WalkType, Zenon DEF AppendPath

\* An element that is not mounted on leads to a path.
LEMMA PlainSpot ==
    ASSUME DiskOK, NEW t \in Spot, NEW e \in Name, NEW follow
    PROVE  PlainElement(t, e, follow) \in Spot
<1> DEFINE link == GetLinkDestination(t.win, e)
           W == Seq(Part \cup {".."})
<1>1. t.win \in W /\ t.unix \in Seq(Name)
  BY DEF Spot
<1>2. link.to \in Seq(Name \cup {".."})
  BY LinkThing, ThingFields
<1>3. e \in Part \cup {".."} /\ Lnk(e) \in Part \cup {".."} /\ "/" \in Part \cup {".."}
  BY DEF Part
<1> HIDE DEF link
<1>4. link.to \in W
  <2>1. Name \cup {".."} \subseteq Part \cup {".."}
    BY DEF Part
  <2> QED
    BY <1>2, <2>1
<1>5. ((IF link.abs THEN <<"/">> ELSE t.win) \o link.to) \in W
  <2>1. <<"/">> \in W
    BY <1>3
  <2> HIDE DEF W
  <2>2. (IF link.abs THEN <<"/">> ELSE t.win) \in W
    BY <1>1, <2>1
  <2> QED
    BY <1>4, <2>2, ConcatProperties DEF W
<1>6. Append(t.win, e) \in W /\ Append(t.win, Lnk(e)) \in W /\ Append(t.unix, e) \in Seq(Name)
  BY <1>1, <1>3
<1>7. AppendPath(t.unix, link) \in Seq(Name)
  BY <1>1, <1>2, AppendPathType
<1> HIDE DEF W
<1>8. \A x \in W, y \in Seq(Name) : [win |-> x, unix |-> y] \in Spot
  BY DEF Spot, W
<1>9. PlainElement(t, e, follow) =
        IF link.kind # "lnk"
        THEN [win |-> Append(t.win, e), unix |-> Append(t.unix, e)]
        ELSE IF follow
        THEN [win |-> (IF link.abs THEN <<"/">> ELSE t.win) \o link.to,
              unix |-> AppendPath(t.unix, link)]
        ELSE [win |-> Append(t.win, Lnk(e)), unix |-> Append(t.unix, e)]
  BY DEF PlainElement, link
<1> QED
  BY <1>5, <1>6, <1>7, <1>8, <1>9, Zenon

\* An element that is mounted on leads to the last mount's destination.
LEMMA MountSpot ==
    ASSUME MountsOK, NEW t \in Spot, NEW e \in Name, NEW found,
           found \subseteq DOMAIN mounts, found # {}
    PROVE  /\ MountElement(t, e, found) \in Spot
           /\ Max(found) \in found /\ Max(found) \in 1..Len(mounts)
           /\ mounts[Max(found)].dest \in Dest
           /\ Cardinality(found) \in Nat /\ IsFiniteSet(found)
<1>1. mounts \in Seq(MountPoint) /\ Len(mounts) \in Nat /\ DOMAIN mounts = 1..Len(mounts)
  BY DEF MountsOK
<1>2. Max(found) \in found
  BY <1>1, MaxOf
<1>3. mounts[Max(found)] \in MountPoint /\ Max(found) \in 1..Len(mounts)
  BY <1>1, <1>2
<1>4. mounts[Max(found)].dest \in Dest
  BY <1>3 DEF MountPoint
<1>5. IsFiniteSet(found) /\ Cardinality(found) \in Nat
  <2>1. IsFiniteSet(1..Len(mounts))
    BY <1>1, FS_Interval
  <2> QED
    BY <1>1, <2>1, FS_Subset, FS_CardinalityType
<1> DEFINE c == Cardinality(found)
           d == mounts[Max(found)].dest
           es == [i \in 1..c |-> e]
<1>6. es \in Seq(Name)
  BY <1>5
<1>7. t.unix \in Seq(Name)
  BY DEF Spot
<1> HIDE DEF es
<1>8. t.unix \o es \in Seq(Name)
  BY <1>6, <1>7, ConcatProperties
<1> HIDE DEF d
<1>9. <<d>> \in Seq(Part \cup {".."})
  <2>1. d \in Part \cup {".."}
    BY <1>4 DEF Part, d
  <2> QED
    BY <2>1
<1>10. [win |-> <<d>>, unix |-> t.unix \o es] \in Spot
  BY <1>8, <1>9 DEF Spot
<1>11. MountElement(t, e, found) \in Spot
  BY <1>10 DEF MountElement, d, es
<1> QED
  BY <1>2, <1>3, <1>4, <1>5, <1>11

\* One turn of the loop.
OneElement(stack, follow, n, t) ==
    IF MatchingMounts(stack, n) # {}
    THEN MountElement(t, stack[n], MatchingMounts(stack, n))
    ELSE PlainElement(t, stack[n], follow)

TraverseUpto(stack, follow) ==
    CHOOSE upto : upto = [n \in 0..Len(stack) |->
            IF n = 0 THEN [win |-> <<Root>>, unix |-> <<>>]
            ELSE LET found == MatchingMounts(stack, n)
                     t == upto[n - 1]
                 IN  IF found # {} THEN MountElement(t, stack[n], found)
                     ELSE PlainElement(t, stack[n], follow)]

\* The loop, element by element.
Traversing(stack, follow, u) ==
    /\ u[0] = [win |-> <<Root>>, unix |-> <<>>]
    /\ \A n \in 1..Len(stack) : u[n] = OneElement(stack, follow, n, u[n - 1])
    /\ \A n \in 0..Len(stack) : u[n] \in Spot
    /\ Traverse(stack, follow) = [u[Len(stack)] EXCEPT !.win = Win32(@)]

\* Each turn of the loop leads to a path.
LEMMA OneElementIn ==
    ASSUME DiskOK, MountsOK, NEW stack \in Seq(Name), NEW follow, NEW n \in 1..Len(stack),
           NEW t \in Spot
    PROVE  OneElement(stack, follow, n, t) \in Spot
<1>1. stack[n] \in Name
  OBVIOUS
<1>2. MatchingMounts(stack, n) \subseteq DOMAIN mounts
  BY DEF MatchingMounts
<1> QED
  BY <1>1, <1>2, PlainSpot, MountSpot DEF OneElement

\* The loop starts with a path.
LEMMA RootSpot == [win |-> <<Root>>, unix |-> <<>>] \in Spot
<1>1. Root \in Part
  BY PathsConstants DEF Part
<1>2. <<Root>> \in Seq(Part \cup {".."}) /\ <<>> \in Seq(Name)
  BY <1>1
<1> QED
  BY <1>2 DEF Spot

\* Traverse goes through the elements one by one.
LEMMA TraverseIs ==
    ASSUME DiskOK, MountsOK, NEW stack \in Seq(Name), NEW follow
    PROVE  Traversing(stack, follow, TraverseUpto(stack, follow))
<1> DEFINE N == Len(stack)
           r == [win |-> <<Root>>, unix |-> <<>>]
           I == [n \in 0..N |-> Spot]
           step == [n \in 1..N |-> [t \in Spot |-> OneElement(stack, follow, n, t)]]
           u == TraverseUpto(stack, follow)
<1>1. N \in Nat /\ r \in Spot
  BY RootSpot
<1>a. r = [win |-> <<Root>>, unix |-> <<>>]
  OBVIOUS
<1> HIDE DEF r
<1>2. Closed(N, I, r, step)
  <2>1. r \in I[0]
    BY <1>1
  <2>2. ASSUME NEW n \in 1..N, NEW t \in I[n - 1] PROVE step[n][t] \in I[n]
    <3>1. t \in Spot /\ I[n] = Spot
      BY <1>1
    <3>2. OneElement(stack, follow, n, t) \in Spot
      BY <3>1, OneElementIn
    <3>3. step[n][t] \in Spot
      BY <3>1, <3>2
    <3> QED
      BY <3>1, <3>3
  <2> HIDE DEF I, step
  <2> QED
    BY <1>1, <2>1, <2>2 DEF Closed
<1>3. PICK f : Run(N, I, r, step, f)
  <2> HIDE DEF I, step
  <2> QED
    BY <1>2, RunExists
<1>4. ASSUME NEW n \in 0..N
      PROVE  f[n] = IF n = 0 THEN r ELSE OneElement(stack, follow, n, f[n - 1])
  <2>1. f[n] = IF n = 0 THEN r ELSE step[n][f[n - 1]]
    <3> HIDE DEF step
    <3> QED
      BY <1>3 DEF Run
  <2>2. CASE n = 0
    BY <2>1, <2>2
  <2>3. CASE n # 0
    <3>1. n \in 1..N /\ n - 1 \in 0..N
      BY <1>1, <2>3
    <3>2. f[n - 1] \in Spot
      BY <1>3, <3>1 DEF Run
    <3> QED
      BY <2>1, <2>3, <3>1, <3>2
  <2> QED
    BY <2>2, <2>3
<1>5. f = [n \in 0..N |-> f[n]]
  <2> HIDE DEF I, step
  <2> QED
    BY <1>3 DEF Run
<1>6. f = [n \in 0..N |-> IF n = 0 THEN r ELSE OneElement(stack, follow, n, f[n - 1])]
  <2> HIDE DEF I, step
  <2> QED
    BY <1>4, <1>5
<1>7. u = [n \in 0..N |-> IF n = 0 THEN r ELSE OneElement(stack, follow, n, u[n - 1])]
  <2>1. u = CHOOSE x : x = [n \in 0..N |-> IF n = 0 THEN r
                                          ELSE OneElement(stack, follow, n, x[n - 1])]
    BY Zenon DEF TraverseUpto, OneElement, r
  <2> HIDE DEF I, step, N, u
  <2> QED
    BY <1>6, <2>1, Zenon
<1>8. Traverse(stack, follow) = [u[N] EXCEPT !.win = Win32(@)]
  BY DEF Traverse, TraverseUpto
<1> HIDE DEF u
<1>9. u[0] = r /\ \A n \in 1..N : u[n] = OneElement(stack, follow, n, u[n - 1])
  <2>1. 0 \in 0..N /\ \A n \in 1..N : n \in 0..N /\ n # 0
    BY <1>1
  <2> HIDE DEF I, step
  <2> QED
    BY <1>7, <2>1
<1>10. \A n \in 0..N : u[n] \in I[n]
  <2>1. ASSUME NEW n \in 1..N, u[n - 1] \in I[n - 1] PROVE u[n] = step[n][u[n - 1]]
    <3>1. u[n - 1] \in Spot
      BY <1>1, <2>1
    <3> QED
      BY <1>9, <3>1
  <2> HIDE DEF I, step
  <2> QED
    BY <1>2, <1>9, <2>1, RunStays
<1>11. \A n \in 0..N : u[n] \in Spot
  BY <1>10
<1> HIDE DEF I, step
<1>12. Traversing(stack, follow, u)
  BY <1>a, <1>8, <1>9, <1>11 DEF Traversing
<1> QED
  BY <1>12 DEF u

\* Where a path leads.
LEMMA TraverseType ==
    ASSUME DiskOK, MountsOK, NEW stack \in Seq(Name), NEW follow
    PROVE  Traverse(stack, follow).win \in Seq(Part) /\ Traverse(stack, follow).unix \in Seq(Name)
<1>1. PICK u : Traversing(stack, follow, u)
  BY TraverseIs
<1>2. Len(stack) \in 0..Len(stack)
  OBVIOUS
<1> DEFINE t == u[Len(stack)]
<1>3. t \in Spot /\ Traverse(stack, follow) = [t EXCEPT !.win = Win32(@)]
  BY <1>1, <1>2, Zenon DEF Traversing
<1> HIDE DEF t
<1>4. t.win \in Seq(Part \cup {".."}) /\ t.unix \in Seq(Name) /\ Win32(t.win) \in Seq(Part)
  BY <1>3, Win32Type DEF Spot
<1>5. [t EXCEPT !.win = Win32(@)].win = Win32(t.win) /\ [t EXCEPT !.win = Win32(@)].unix = t.unix
  BY <1>3 DEF Spot
<1> QED
  BY <1>3, <1>4, <1>5, Zenon

(* The inductive invariant                                                 *)

\* The disk has things at Win32 paths, none of them too deep.
DiskInv == DiskOK /\ \A w \in DOMAIN disk : Len(w) <= MaxDepth

PathsInv == DiskInv /\ MountsOK /\ Len(mounts) <= MaxMounts /\ pwd \in Seq(Name)

\* The invariant says that everything has its type.
LEMMA PathsInvTypes == PathsInv => PathsTypeOK
<1> SUFFICES ASSUME PathsInv PROVE PathsTypeOK
  OBVIOUS
<1>1. \A i \in DOMAIN mounts : mounts[i].at \in Place /\ mounts[i].dest \in Dest
  <2> TAKE i \in DOMAIN mounts
  <2>1. mounts[i] \in MountPoint
    BY DEF PathsInv, MountsOK
  <2> QED
    BY <2>1 DEF MountPoint
<1> QED
  BY <1>1 DEF PathsTypeOK, PathsInv, DiskInv, DiskOK

\* At the start only the destinations are on the disk.
LEMMA PathsInvInit == PathsInit => PathsInv
<1> SUFFICES ASSUME PathsInit PROVE PathsInv
  OBVIOUS
<1>1. MountsOK /\ Len(mounts) <= MaxMounts /\ pwd \in Seq(Name)
  BY PathsConstants DEF PathsInit, MountsOK
<1>2. ASSUME NEW w \in DOMAIN disk
      PROVE  w \in Seq(Part) /\ Len(w) <= MaxDepth /\ disk[w] \in Thing
  <2>1. DOMAIN disk = {<<d>> : d \in Dest} /\ disk[w] = Dir
    BY DEF PathsInit
  <2>2. PICK d \in Dest : w = <<d>>
    BY <2>1
  <2>3. d \in Part
    BY DEF Part
  <2>4. w \in Seq(Part) /\ Len(w) = 1
    BY <2>2, <2>3
  <2> QED
    BY <2>1, <2>4, ThingFields, PathsConstants
<1> QED
  BY <1>1, <1>2 DEF PathsInv, DiskInv, DiskOK

\* Arguments are paths.
LEMMA ArgTo ==
    ASSUME NEW path \in Args \cup LinkTo
    PROVE  path.abs \in BOOLEAN /\ path.to \in Seq(Name \cup {".."})
BY PathsConstants

\* An argument, after the current directory, is a list of names.
LEMMA SetUnixPathType ==
    ASSUME PathsInv, NEW path \in Args
    PROVE  SetUnixPath(path) \in Seq(Name)
<1>1. path.to \in Seq(Name \cup {".."})
  BY ArgTo
<1>2. (IF path.abs THEN <<>> ELSE pwd) \in Seq(Name)
  BY DEF PathsInv
<1> QED
  BY <1>1, <1>2, AppendPathType, Zenon DEF SetUnixPath

\* Every argument leads to a Win32 path and has a Unix name.
LEMMA WinType ==
    ASSUME PathsInv, NEW path \in Args, NEW follow
    PROVE  Win(path, follow) \in Seq(Part) /\ Unix(path, follow) \in Seq(Name)
BY SetUnixPathType, TraverseType DEF Win, Unix, PathsInv, DiskInv

\* Something new on the disk.
LEMMA PutKeeps ==
    ASSUME DiskInv, NEW w \in Seq(Part), NEW thing \in Thing, CanMake(w), Put(w, thing)
    PROVE  DiskInv'
<1>1. Len(w) <= MaxDepth
  BY PathsConstants DEF CanMake
<1>2. DOMAIN disk' = DOMAIN disk \cup {w}
  BY DEF Put
<1>3. ASSUME NEW x \in DOMAIN disk'
      PROVE  x \in Seq(Part) /\ disk'[x] \in Thing /\ Len(x) <= MaxDepth
  <2>1. disk'[x] = IF x = w THEN thing ELSE disk[x]
    BY <1>3 DEF Put
  <2> QED
    BY <1>1, <1>2, <2>1 DEF DiskInv, DiskOK
<1> QED
  BY <1>3 DEF DiskInv, DiskOK

\* What is left on the disk after a deletion was there.
LEMMA DeleteKeeps ==
    ASSUME DiskInv, NEW ws, Delete(ws)
    PROVE  DiskInv'
<1>1. /\ DOMAIN disk' = DOMAIN disk \ ws
      /\ \A x \in DOMAIN disk' : disk'[x] = disk[x] /\ x \in DOMAIN disk
  BY DEF Delete
<1> QED
  BY <1>1 DEF DiskInv, DiskOK

\* A path with its front v replaced by w.
Moved(v, w, x) == w \o SubSeq(x, Len(v) + 1, Len(x))

IsMoved(S, v, w, x, m) ==
    /\ m \in Seq(S) /\ Len(m) = Len(w) + (Len(x) - Len(v))
    /\ \A i \in 1..Len(w) : m[i] = w[i]
    /\ \A i \in 1..(Len(x) - Len(v)) : m[Len(w) + i] = x[Len(v) + i]

\* The elements of a path whose front is replaced.
LEMMA MovedIs ==
    ASSUME NEW S, NEW v \in Seq(S), NEW w \in Seq(S), NEW x \in Seq(S), Len(v) <= Len(x)
    PROVE  IsMoved(S, v, w, x, Moved(v, w, x))
<1> DEFINE a == Len(v)
           b == Len(x)
           c == Len(w)
           t == SubSeq(x, a + 1, b)
           m == w \o t
<1>1. a \in Nat /\ b \in Nat /\ c \in Nat /\ a <= b /\ \A i \in 1..b : x[i] \in S
  OBVIOUS
<1>c. c = Len(w)
  OBVIOUS
<1>2. t \in Seq(S) /\ Len(t) = b - a /\ \A i \in 1..(b - a) : t[i] = x[a + i]
  <2> HIDE DEF a, b
  <2>1. a + 1 \in Int /\ b \in Int /\ \A i \in (a + 1)..b : x[i] \in S
    BY <1>1
  <2>2. /\ t \in Seq(S) /\ Len(t) = IF a + 1 <= b THEN b - (a + 1) + 1 ELSE 0
        /\ \A i \in 1..(b - (a + 1) + 1) : t[i] = x[(a + 1) + i - 1]
    BY <2>1, SubSeqProperties
  <2> HIDE DEF t
  <2>3. ASSUME NEW i \in 1..(b - a) PROVE t[i] = x[a + i]
    <3>1. i \in 1..(b - (a + 1) + 1) /\ (a + 1) + i - 1 = a + i
      BY <1>1
    <3> QED
      BY <2>2, <3>1
  <2> QED
    BY <1>1, <2>2, <2>3
<1> HIDE DEF t
<1>3. /\ m \in Seq(S) /\ Len(m) = Len(w) + Len(t)
      /\ \A i \in 1..Len(w) + Len(t) : m[i] = IF i <= Len(w) THEN w[i] ELSE t[i - Len(w)]
  BY <1>2, ConcatProperties, Zenon
<1> HIDE DEF a, b, c, m
<1>4. /\ Len(m) = c + (b - a)
      /\ \A i \in 1..(c + (b - a)) : m[i] = IF i <= c THEN w[i] ELSE t[i - c]
  BY <1>2, <1>3, <1>c, Zenon
<1>5. ASSUME NEW i \in 1..c PROVE m[i] = w[i]
  <2>1. i \in 1..(c + (b - a)) /\ i <= c
    BY <1>1
  <2> QED
    BY <1>4, <2>1, Zenon
<1>6. ASSUME NEW i \in 1..(b - a) PROVE m[c + i] = x[a + i]
  <2>1. c + i \in 1..(c + (b - a)) /\ ~(c + i <= c) /\ (c + i) - c = i
    BY <1>1
  <2> QED
    BY <1>2, <1>4, <2>1, Zenon
<1>7. Moved(v, w, x) = m
  BY DEF Moved, m, t, a, b
<1> QED
  BY <1>3, <1>4, <1>5, <1>6, <1>7, Zenon DEF IsMoved, a, b, c

\* Putting the front back gives the path again: sys_rename moves every path
\* below a directory to a path of its own.
LEMMA MovedBack ==
    ASSUME NEW S, NEW v \in Seq(S), NEW w \in Seq(S), NEW x \in Seq(S), Len(v) <= Len(x),
           \A i \in 1..Len(v) : x[i] = v[i]
    PROVE  Moved(w, v, Moved(v, w, x)) = x
<1> DEFINE y == Moved(v, w, x)
           z == Moved(w, v, y)
           a == Len(v)
           b == Len(x)
           c == Len(w)
<1>0. IsMoved(S, v, w, x, y)
  BY MovedIs
<1>2. a \in Nat /\ b \in Nat /\ c \in Nat /\ a <= b /\ \A i \in 1..a : x[i] = v[i]
  OBVIOUS
<1>a. c = Len(w) /\ a = Len(v) /\ b = Len(x)
  OBVIOUS
<1> HIDE DEF y, a, b, c
<1>1. /\ y \in Seq(S) /\ Len(y) = c + (b - a)
      /\ \A i \in 1..(b - a) : y[c + i] = x[a + i]
  BY <1>0, <1>a, Zenon DEF IsMoved
<1>3. c <= Len(y) /\ Len(y) - c = b - a
  BY <1>1, <1>2
<1>4. /\ z \in Seq(S) /\ Len(z) = a + (Len(y) - c)
      /\ \A i \in 1..a : z[i] = v[i]
      /\ \A i \in 1..(Len(y) - c) : z[a + i] = y[c + i]
  <2>1. Len(w) <= Len(y)
    BY <1>3, <1>a, Zenon
  <2>2. IsMoved(S, w, v, y, z)
    BY <1>1, <2>1, MovedIs
  <2> HIDE DEF z
  <2> QED
    BY <1>a, <2>2, Zenon DEF IsMoved
<1> HIDE DEF z
<1>5. Len(z) = b
  BY <1>2, <1>3, <1>4
<1>6. ASSUME NEW i \in 1..b PROVE z[i] = x[i]
  <2>1. CASE i <= a
    BY <1>2, <1>4, <2>1
  <2>2. CASE ~(i <= a)
    <3> DEFINE j == i - a
    <3>1. j \in 1..(b - a) /\ a + j = i
      BY <1>2, <2>2
    <3> HIDE DEF j
    <3>2. z[a + j] = y[c + j] /\ y[c + j] = x[a + j]
      BY <1>1, <1>3, <1>4, <3>1, Zenon
    <3> QED
      BY <3>1, <3>2, Zenon
  <2> QED
    BY <2>1, <2>2
<1>7. z = x
  <2>1. \A i \in 1..Len(z) : z[i] = x[i]
    BY <1>5, <1>6, Zenon
  <2> QED
    BY <1>4, <1>5, <1>a, <2>1, SeqEqual
<1> QED
  BY <1>7 DEF z, y

\* The paths that move with v are v and those it is the front of.
LEMMA MovingPaths ==
    ASSUME DiskInv, NEW v \in Seq(Part), Has(v), NEW x \in {v} \cup Below(v)
    PROVE  /\ x \in DOMAIN disk /\ x \in Seq(Part) /\ Len(v) <= Len(x)
           /\ \A i \in 1..Len(v) : x[i] = v[i]
<1>1. x \in DOMAIN disk /\ x \in Seq(Part)
  BY DEF Has, Below, DiskInv, DiskOK
<1>2. CASE x = v
  BY <1>1, <1>2
<1>3. CASE x # v
  <2>1. Len(x) > Len(v) /\ SubSeq(x, 1, Len(v)) = v
    BY <1>3 DEF Below
  <2> DEFINE a == Len(v)
  <2>2. a \in Nat /\ a \in Int /\ Len(v) <= Len(x) /\ \A i \in 1..a : x[i] \in Part
    BY <1>1, <2>1
  <2>3. \A i \in 1..(a - 1 + 1) : SubSeq(x, 1, a)[i] = x[1 + i - 1]
    <3> HIDE DEF a
    <3> QED
      BY <2>2, SubSeqProperties
  <2>4. v = SubSeq(x, 1, a)
    BY <2>1
  <2> HIDE DEF a
  <2>5. \A i \in 1..a : v[i] = x[i]
    <3> TAKE i \in 1..a
    <3>1. i \in 1..(a - 1 + 1) /\ 1 + i - 1 = i
      BY <2>2
    <3> QED
      BY <2>3, <2>4, <3>1, Zenon
  <2> QED
    BY <1>1, <2>2, <2>5 DEF a
<1> QED
  BY <1>2, <1>3

\* After sys_rename everything that moved is what it was.
LEMMA RenameKeeps ==
    ASSUME PathsInv, NEW old \in Args, NEW new \in Args, Rename(old, new)
    PROVE  DiskInv'
<1> DEFINE v == Win(old, TRUE)
           w == Win(new, TRUE)
           moved == {v} \cup Below(v)
           T == {Moved(v, w, x) : x \in moved}
<1>1. DiskInv /\ v \in Seq(Part) /\ w \in Seq(Part)
  BY WinType, Zenon DEF PathsInv
<1>2. /\ Has(v) /\ \A u \in moved : Len(Moved(v, w, u)) <= MaxDepth
      /\ disk' = [u \in (DOMAIN disk \ moved) \cup T |->
                     IF u \in T THEN disk[Moved(w, v, u)] ELSE disk[u]]
  BY Zenon DEF Rename, Moved
<1> HIDE DEF v, w
<1>3. ASSUME NEW x \in moved
      PROVE  /\ Moved(v, w, x) \in Seq(Part) /\ Len(Moved(v, w, x)) <= MaxDepth
             /\ disk[Moved(w, v, Moved(v, w, x))] \in Thing
  <2>1. /\ x \in DOMAIN disk /\ x \in Seq(Part) /\ Len(v) <= Len(x)
        /\ \A i \in 1..Len(v) : x[i] = v[i]
    BY <1>1, <1>2, MovingPaths
  <2>2. IsMoved(Part, v, w, x, Moved(v, w, x))
    BY <1>1, <2>1, MovedIs
  <2>3. Moved(w, v, Moved(v, w, x)) = x
    BY <1>1, <2>1, MovedBack
  <2>4. disk[x] \in Thing
    BY <1>1, <2>1 DEF DiskInv, DiskOK
  <2> QED
    BY <1>2, <2>2, <2>3, <2>4, Zenon DEF IsMoved
<1> HIDE DEF moved
<1>4. ASSUME NEW u \in DOMAIN disk'
      PROVE  u \in Seq(Part) /\ disk'[u] \in Thing /\ Len(u) <= MaxDepth
  <2>1. u \in (DOMAIN disk \ moved) \cup T
        /\ disk'[u] = IF u \in T THEN disk[Moved(w, v, u)] ELSE disk[u]
    <3> HIDE DEF T
    <3> QED
      BY <1>2, <1>4
  <2>2. CASE u \in T
    <3>1. PICK x \in moved : u = Moved(v, w, x)
      BY <2>2
    <3> HIDE DEF T
    <3> QED
      BY <1>3, <2>1, <2>2, <3>1, Zenon
  <2>3. CASE u \notin T
    <3> HIDE DEF T
    <3>1. u \in DOMAIN disk /\ disk'[u] = disk[u]
      BY <2>1, <2>3, Zenon
    <3> QED
      BY <1>1, <3>1, Zenon DEF DiskInv, DiskOK
  <2> QED
    BY <2>2, <2>3
<1> QED
  BY <1>4 DEF DiskInv, DiskOK

\* The last element of a path and those before it.
LEMMA FrontLast ==
    ASSUME NEW S, NEW l \in Seq(S), l # <<>>
    PROVE  /\ Parent(l) \in Seq(S) /\ LastOf(l) \in S /\ LastOf(l) = l[Len(l)]
           /\ Len(l) \in Nat /\ Len(l) >= 1 /\ Len(Parent(l)) = Len(l) - 1
           /\ \A i \in 1..(Len(l) - 1) : Parent(l)[i] = l[i]
<1>1. Len(l) \in Nat /\ Len(l) >= 1 /\ ~(Len(l) <= 0) /\ 0 \in Nat
  OBVIOUS
<1>2. LastOf(l) = l[Len(l)] /\ l[Len(l)] \in S
  BY <1>1 DEF LastOf
<1> QED
  BY <1>1, <1>2, FrontOf

\* sys_symlink puts a shortcut or a file on the disk.
LEMMA SymlinkKeeps ==
    ASSUME PathsInv, NEW to \in LinkTo, NEW path \in Args, Symlink(to, path)
    PROVE  DiskInv'
<1> DEFINE stack == SetUnixPath(path)
           w == Append(Traverse(Parent(stack), TRUE).win, Lnk(LastOf(stack)))
<1>1. stack \in Seq(Name) /\ stack # <<>>
  BY SetUnixPathType DEF Symlink
<1>2. CreateShortcut(to, w)
  BY Zenon DEF Symlink
<1> HIDE DEF stack
<1>3. Parent(stack) \in Seq(Name) /\ LastOf(stack) \in Name
  BY <1>1, FrontLast
<1>4. w \in Seq(Part)
  <2> DEFINE t == Traverse(Parent(stack), TRUE).win
             e == Lnk(LastOf(stack))
  <2>1. t \in Seq(Part)
    BY <1>3, TraverseType, Zenon DEF PathsInv, DiskInv
  <2>2. e \in Part
    BY <1>3 DEF Part
  <2> HIDE DEF t, e
  <2>3. Append(t, e) \in Seq(Part)
    BY <2>1, <2>2
  <2> QED
    BY <2>3, Zenon DEF t, e
<1> HIDE DEF w
<1>5. PICK shortcut \in {File, [kind |-> "lnk", abs |-> to.abs, to |-> to.to]} :
         Put(w, shortcut)
  BY <1>2 DEF CreateShortcut
<1>6. shortcut \in Thing
  <2>1. to.abs \in BOOLEAN /\ to.to \in Seq(Name \cup {".."})
    BY ArgTo
  <2>2. [kind |-> "lnk", abs |-> to.abs, to |-> to.to] \in Thing
    BY <2>1 DEF Thing
  <2> QED
    BY <1>5, <2>2, ThingFields
<1>7. CanMake(w)
  BY <1>2 DEF CreateShortcut
<1> QED
  BY <1>4, <1>5, <1>6, <1>7, PutKeeps DEF PathsInv

\* Every call keeps the invariant.
LEMMA PathsInvStep == PathsInv /\ [PathsNext]_pvars => PathsInv'
<1> SUFFICES ASSUME PathsInv, [PathsNext]_pvars PROVE PathsInv'
  OBVIOUS
<1>1. MountsOK'
  BY StepsMount, MountsOKStep DEF PathsInv
<1> DEFINE Rest == DiskInv' /\ Len(mounts') <= MaxMounts /\ pwd' \in Seq(Name)
<1>2. CASE UNCHANGED pvars
  BY <1>2 DEF pvars, PathsInv, DiskInv, DiskOK, MountsOK
<1>3. CASE PathsNext
  <2>1. PICK path \in Args :
           \/ Create(path) \/ Mkdir(path) \/ Unlink(path) \/ Rmdir(path)
           \/ Chdir(path) \/ Umount(path)
           \/ \E to \in LinkTo : Symlink(to, path)
           \/ \E new \in Args : Link(path, new) \/ Rename(path, new)
           \/ \E dest \in Dest : Mount(dest, path)
    BY <1>3 DEF PathsNext
  <2>a. ASSUME UNCHANGED <<mounts, pwd>>, DiskInv' PROVE Rest
    BY <2>a DEF PathsInv
  <2>b. ASSUME UNCHANGED disk PROVE DiskInv'
    BY <2>b DEF PathsInv, DiskInv, DiskOK
  <2>c. File \in Thing /\ Dir \in Thing /\ DiskInv
    BY ThingFields DEF PathsInv
  <2>d. \A p \in Args : Win(p, TRUE) \in Seq(Part) /\ Win(p, FALSE) \in Seq(Part)
                        /\ Unix(p, TRUE) \in Seq(Name)
    BY WinType, Zenon
  <2>2. ASSUME Create(path) PROVE Rest
    BY <2>2, <2>a, <2>c, <2>d, PutKeeps, Zenon DEF Create
  <2>3. ASSUME Mkdir(path) PROVE Rest
    BY <2>3, <2>a, <2>c, <2>d, PutKeeps, Zenon DEF Mkdir
  <2>4. ASSUME Unlink(path) PROVE Rest
    BY <2>4, <2>a, <2>c, DeleteKeeps DEF Unlink
  <2>5. ASSUME Rmdir(path) PROVE Rest
    BY <2>5, <2>a, <2>c, DeleteKeeps DEF Rmdir
  <2>6. ASSUME Chdir(path) PROVE Rest
    BY <2>6, <2>b, <2>d, Zenon DEF Chdir, PathsInv
  <2>7. ASSUME Umount(path) PROVE Rest
    <3>1. /\ FoundAt(SetUnixPath(path)) # {} /\ UNCHANGED <<disk, pwd>>
          /\ mounts' = DropAt(mounts, Max(FoundAt(SetUnixPath(path))))
      BY <2>7, Zenon DEF Umount, FoundAt
    <3>2. Without(mounts, Max(FoundAt(SetUnixPath(path))), mounts')
      BY <3>1, UmountTakes DEF PathsInv
    <3>3. Len(mounts') = Len(mounts) - 1 /\ Len(mounts) \in Nat
      BY <3>2 DEF Without, PathsInv, MountsOK
    <3> QED
      BY <2>b, <3>1, <3>3, PathsConstants DEF PathsInv
  <2>8. ASSUME NEW to \in LinkTo, Symlink(to, path) PROVE Rest
    BY <2>8, <2>a, SymlinkKeeps, Zenon DEF Symlink
  <2>9. ASSUME NEW new \in Args, Link(path, new) PROVE Rest
    BY <2>9, <2>a, <2>c, <2>d, PutKeeps, Zenon DEF Link
  <2>10. ASSUME NEW new \in Args, Rename(path, new) PROVE Rest
    BY <2>10, <2>a, RenameKeeps, Zenon DEF Rename
  <2>11. ASSUME NEW dest \in Dest, Mount(dest, path) PROVE Rest
    <3>1. Len(mounts) < MaxMounts /\ Len(mounts) \in Nat /\ Len(mounts') = Len(mounts) + 1
      <4> DEFINE p == [at |-> SetUnixPath(path), dest |-> dest]
      <4>1. Len(mounts) < MaxMounts /\ mounts' = Append(mounts, p)
        BY <2>11 DEF Mount
      <4> HIDE DEF p
      <4> QED
        BY <4>1 DEF PathsInv, MountsOK
    <3>2. UNCHANGED <<disk, pwd>>
      BY <2>11 DEF Mount
    <3> QED
      BY <2>b, <3>1, <3>2, PathsConstants DEF PathsInv
  <2>12. Rest
    <3> HIDE DEF Rest
    <3> QED
      BY <2>1, <2>2, <2>3, <2>4, <2>5, <2>6, <2>7, <2>8, <2>9, <2>10, <2>11
  <2> QED
    BY <1>1, <2>12 DEF PathsInv
<1> QED
  BY <1>2, <1>3

\* The disk, the mounts and the current directory are always as PathsInv says,
\* whatever the calls: in particular every path that sys_chdir stores is one
\* of names, without "..".
THEOREM PathsInvariant == PathsSpec => []PathsInv
BY PathsInvInit, PathsInvStep, PTL DEF PathsSpec

\* Mounts, the current directory and the disk keep their types and bounds
\* through every sequence of calls.
THEOREM PathsTypes == PathsSpec => []PathsTypeOK
BY PathsInvariant, PathsInvTypes, PTL

(* lstat and stat                                                          *)

\* Paths that begin alike have the same first elements.
LEMMA SamePrefix ==
    ASSUME NEW S, NEW l \in Seq(S), NEW r \in Seq(S), NEW m \in Nat,
           m <= Len(l), m <= Len(r), \A j \in 1..m : l[j] = r[j],
           NEW n \in 0..m
    PROVE  SubSeq(l, 1, n) = SubSeq(r, 1, n)
<1> DEFINE a == SubSeq(l, 1, n)
           b == SubSeq(r, 1, n)
<1>1. /\ n \in Int /\ n - 1 + 1 = n
      /\ \A i \in 1..n : l[i] \in S /\ r[i] \in S /\ l[i] = r[i] /\ 1 + i - 1 = i
  OBVIOUS
<1>2. /\ a \in Seq(S) /\ Len(a) = IF 1 <= n THEN n - 1 + 1 ELSE 0
      /\ \A i \in 1..(n - 1 + 1) : a[i] = l[1 + i - 1]
  BY <1>1, SubSeqProperties
<1>3. /\ b \in Seq(S) /\ Len(b) = IF 1 <= n THEN n - 1 + 1 ELSE 0
      /\ \A i \in 1..(n - 1 + 1) : b[i] = r[1 + i - 1]
  BY <1>1, SubSeqProperties
<1> HIDE DEF a, b
<1>4. Len(a) = n /\ Len(b) = n
  BY <1>1, <1>2, <1>3
<1>5. \A i \in 1..n : a[i] = b[i]
  BY <1>1, <1>2, <1>3, Zenon
<1>6. a = b
  BY <1>2, <1>3, <1>4, <1>5, SeqEqual
<1> QED
  BY <1>6 DEF a, b

\* Paths with the same first m elements lead the same way so far.
LEMMA TraversePrefix ==
    ASSUME NEW l \in Seq(Name), NEW r \in Seq(Name), NEW follow, NEW u, NEW v,
           Traversing(l, follow, u), Traversing(r, follow, v),
           NEW m \in Nat, m <= Len(l), m <= Len(r), \A j \in 1..m : l[j] = r[j]
    PROVE  u[m] = v[m]
<1> DEFINE G == {n \in 0..m : u[n] = v[n]}
<1>1. 0 \in G
  BY DEF Traversing
<1>2. ASSUME NEW n \in 1..m, n - 1 \in G PROVE n \in G
  <2>1. n \in 1..Len(l) /\ n \in 1..Len(r) /\ n \in 0..m
    OBVIOUS
  <2>2. u[n] = OneElement(l, follow, n, u[n - 1]) /\ v[n] = OneElement(r, follow, n, v[n - 1])
    BY <2>1, Zenon DEF Traversing
  <2>3. u[n - 1] = v[n - 1] /\ l[n] = r[n]
    BY <1>2
  <2>4. MatchingMounts(l, n) = MatchingMounts(r, n)
    <3>1. SubSeq(l, 1, n) = SubSeq(r, 1, n)
      BY <2>1, SamePrefix
    <3> QED
      BY <3>1, Zenon DEF MatchingMounts
  <2>5. u[n] = v[n]
    BY <2>2, <2>3, <2>4, Zenon DEF OneElement
  <2> QED
    BY <2>1, <2>5
<1>3. \A n \in 0..m : n \in G
  <2> HIDE DEF G
  <2> QED
    BY <1>1, <1>2, UpToAll, Zenon
<1> QED
  BY <1>3

\* Where the loop ends is where the path leads.
LEMMA EndsAt ==
    ASSUME NEW stack, NEW follow, NEW u, Traversing(stack, follow, u), Len(stack) \in Nat
    PROVE  /\ Traverse(stack, follow).win = Win32(u[Len(stack)].win)
           /\ Traverse(stack, follow).unix = u[Len(stack)].unix
           /\ u[Len(stack)] \in Spot
<1> DEFINE t == u[Len(stack)]
<1>1. Len(stack) \in 0..Len(stack)
  OBVIOUS
<1>2. t \in Spot /\ Traverse(stack, follow) = [t EXCEPT !.win = Win32(@)]
  BY <1>1, Zenon DEF Traversing
<1> HIDE DEF t
<1>3. [t EXCEPT !.win = Win32(@)].win = Win32(t.win) /\ [t EXCEPT !.win = Win32(@)].unix = t.unix
  BY <1>2 DEF Spot
<1>4. t \in Spot /\ Traverse(stack, follow).win = Win32(t.win)
      /\ Traverse(stack, follow).unix = t.unix
  BY <1>2, <1>3, Zenon
<1> QED
  BY <1>4 DEF t

\* The last element is looked at from where the ones before it lead.
LEMMA LastElement ==
    ASSUME DiskOK, MountsOK, NEW stack \in Seq(Name), stack # <<>>, NEW follow
    PROVE  \E t \in Spot :
              /\ Traverse(Parent(stack), follow).win = Win32(t.win)
              /\ Traverse(stack, follow).win
                    = Win32(OneElement(stack, follow, Len(stack), t).win)
<1> DEFINE f == Parent(stack)
           N == Len(stack)
           m == N - 1
<1>1. /\ f \in Seq(Name) /\ N \in Nat /\ N >= 1 /\ Len(f) = m
      /\ \A j \in 1..m : f[j] = stack[j]
  BY FrontLast
<1>a. N = Len(stack)
  OBVIOUS
<1> HIDE DEF f, N
<1>2. m \in Nat /\ m <= Len(f) /\ m <= Len(stack) /\ N \in 1..Len(stack) /\ Len(f) \in Nat
  BY <1>1, <1>a
<1> HIDE DEF m
<1>3. PICK u, v : Traversing(stack, follow, u) /\ Traversing(f, follow, v)
  BY <1>1, TraverseIs
<1>4. u[m] = v[m]
  <2>1. \A j \in 1..m : stack[j] = f[j]
    BY <1>1, Zenon
  <2> QED
    BY <1>1, <1>2, <1>3, <2>1, TraversePrefix
<1>5. Traverse(f, follow).win = Win32(v[m].win) /\ v[m] \in Spot
  <2>1. Traverse(f, follow).win = Win32(v[Len(f)].win) /\ v[Len(f)] \in Spot
    BY <1>2, <1>3, EndsAt
  <2> QED
    BY <1>1, <2>1, Zenon
<1>6. Traverse(stack, follow).win = Win32(u[N].win)
  BY <1>1, <1>3, <1>a, EndsAt
<1>7. u[N] = OneElement(stack, follow, N, u[m])
  BY <1>2, <1>3, Zenon DEF Traversing, m
<1> QED
  BY <1>4, <1>5, <1>6, <1>7, Zenon DEF f, N

\* Where a link that is not followed is, the shortcut is.
LEMMA ElementNotFollowed ==
    ASSUME DiskOK, NEW t \in Spot, NEW e \in Name
    PROVE  LET p == PlainElement(t, e, FALSE)
               lnk == Append(Win32(t.win), Lnk(e))
           IN  IF GetLinkDestination(t.win, e).kind = "lnk"
               THEN Win32(p.win) = lnk /\ lnk \in DOMAIN disk /\ disk[lnk].kind = "lnk"
               ELSE Win32(p.win) = Append(Win32(t.win), e)
<1> DEFINE link == GetLinkDestination(t.win, e)
           lnk == Append(Win32(t.win), Lnk(e))
           p == PlainElement(t, e, FALSE)
<1>1. t.win \in Seq(Part \cup {".."}) /\ e \in Part /\ Lnk(e) \in Part
  BY DEF Spot, Part
<1>2. Win32(Append(t.win, Lnk(e))) = lnk /\ Win32(Append(t.win, e)) = Append(Win32(t.win), e)
  BY <1>1, Win32Append
<1>3. link = IF lnk \notin DOMAIN disk THEN File
             ELSE IF disk[lnk].kind = "lnk" THEN disk[lnk] ELSE File
  BY DEF GetLinkDestination, GetShortcutTarget
<1>4. p.win = IF link.kind # "lnk" THEN Append(t.win, e) ELSE Append(t.win, Lnk(e))
  BY DEF PlainElement
<1> HIDE DEF p, link, lnk
<1>5. File.kind # "lnk"
  BY ThingFields
<1>6. IF link.kind = "lnk"
      THEN Win32(p.win) = lnk /\ lnk \in DOMAIN disk /\ disk[lnk].kind = "lnk"
      ELSE Win32(p.win) = Append(Win32(t.win), e)
  BY <1>2, <1>3, <1>4, <1>5, Zenon
<1> QED
  BY <1>6, Zenon DEF p, link, lnk

\* Followed or not, an element that is no link leads to the same place.
LEMMA ElementAgrees ==
    ASSUME DiskOK, NEW t \in Spot, NEW s \in Spot, Win32(t.win) = Win32(s.win), NEW e \in Name,
           At(Win32(PlainElement(s, e, FALSE).win)) # "lnk"
    PROVE  Win32(PlainElement(t, e, TRUE).win) = Win32(PlainElement(s, e, FALSE).win)
<1>1. GetLinkDestination(t.win, e) = GetLinkDestination(s.win, e)
  BY DEF GetLinkDestination
<1>2. GetLinkDestination(s.win, e).kind # "lnk"
  BY ElementNotFollowed, Zenon DEF At
<1>3. Win32(PlainElement(s, e, FALSE).win) = Append(Win32(s.win), e)
  BY <1>2, ElementNotFollowed, Zenon
<1>4. PlainElement(t, e, TRUE) = [win |-> Append(t.win, e), unix |-> Append(t.unix, e)]
  BY <1>1, <1>2, Zenon DEF PlainElement
<1>5. Win32(Append(t.win, e)) = Append(Win32(t.win), e)
  <2>1. t.win \in Seq(Part \cup {".."}) /\ e \in Part
    BY DEF Spot, Part
  <2> QED
    BY <2>1, Win32Append
<1>6. [win |-> Append(t.win, e), unix |-> Append(t.unix, e)].win = Append(t.win, e)
  OBVIOUS
<1> QED
  BY <1>3, <1>4, <1>5, <1>6, Zenon

\* Two paths to the same directory, one followed and one not, lead to the same
\* thing if the last element is no link.
LEMMA WinAgrees ==
    ASSUME DiskOK, MountsOK, NEW stack \in Seq(Name),
           stack # <<>> => Traverse(Parent(stack), TRUE).win = Traverse(Parent(stack), FALSE).win,
           At(Traverse(stack, FALSE).win) # "lnk"
    PROVE  Traverse(stack, TRUE).win = Traverse(stack, FALSE).win
<1>1. CASE stack = <<>>
  <2>1. PICK u, v : Traversing(stack, TRUE, u) /\ Traversing(stack, FALSE, v)
    BY TraverseIs, Zenon
  <2>2. Len(stack) = 0 /\ Len(stack) \in Nat
    BY <1>1
  <2>3. u[0] = v[0]
    BY <2>1 DEF Traversing
  <2>4. /\ Traverse(stack, TRUE).win = Win32(u[Len(stack)].win)
        /\ Traverse(stack, FALSE).win = Win32(v[Len(stack)].win)
    BY <2>1, <2>2, EndsAt, Zenon
  <2> QED
    BY <2>2, <2>3, <2>4, Zenon
<1>2. CASE stack # <<>>
  <2> DEFINE N == Len(stack)
             found == MatchingMounts(stack, N)
             e == stack[N]
  <2>1. PICK t \in Spot : /\ Traverse(Parent(stack), TRUE).win = Win32(t.win)
                          /\ Traverse(stack, TRUE).win = Win32(OneElement(stack, TRUE, N, t).win)
    BY <1>2, LastElement, Zenon
  <2>2. PICK s \in Spot : /\ Traverse(Parent(stack), FALSE).win = Win32(s.win)
                          /\ Traverse(stack, FALSE).win = Win32(OneElement(stack, FALSE, N, s).win)
    BY <1>2, LastElement, Zenon
  <2>3. Win32(t.win) = Win32(s.win)
    BY <1>2, <2>1, <2>2, Zenon
  <2>4. e \in Name
    BY <1>2, FrontLast
  <2>5. CASE found # {}
    <3>1. /\ OneElement(stack, TRUE, N, t) = MountElement(t, e, found)
          /\ OneElement(stack, FALSE, N, s) = MountElement(s, e, found)
      BY <2>5, Zenon DEF OneElement
    <3>2. MountElement(t, e, found).win = MountElement(s, e, found).win
      BY DEF MountElement
    <3> QED
      BY <2>1, <2>2, <3>1, <3>2, Zenon
  <2>6. CASE found = {}
    <3>1. /\ OneElement(stack, TRUE, N, t) = PlainElement(t, e, TRUE)
          /\ OneElement(stack, FALSE, N, s) = PlainElement(s, e, FALSE)
      BY <2>6, Zenon DEF OneElement
    <3> HIDE DEF N, e, found
    <3>2. At(Win32(PlainElement(s, e, FALSE).win)) # "lnk"
      BY <2>2, <3>1, Zenon
    <3>3. Win32(PlainElement(t, e, TRUE).win) = Win32(PlainElement(s, e, FALSE).win)
      BY <2>3, <2>4, <3>2, ElementAgrees, Zenon
    <3> QED
      BY <2>1, <2>2, <3>1, <3>3, Zenon
  <2> QED
    BY <2>5, <2>6, Zenon
<1> QED
  BY <1>1, <1>2, Zenon

\* lstat and stat agree on what is no link.
LEMMA LstatStatFollows == PathsInv => LstatStatAgree
<1> SUFFICES ASSUME PathsInv, NEW path \in Args, PlainFront(path), Lstat(path) # "lnk"
             PROVE  /\ Stat(path) = Lstat(path) /\ Stat64(path) = Lstat64(path)
                    /\ Access(path) = (Lstat64(path) # "none")
                    /\ ~Readlink(path).ok
  BY DEF LstatStatAgree
<1>1. SetUnixPath(path) \in Seq(Name) /\ DiskOK /\ MountsOK
  BY SetUnixPathType DEF PathsInv, DiskInv
<1>2. At(Traverse(SetUnixPath(path), FALSE).win) # "lnk"
  BY Zenon DEF Lstat, Win
<1>3. Win(path, TRUE) = Win(path, FALSE)
  BY <1>1, <1>2, WinAgrees, Zenon DEF PlainFront, Win
<1>4. Stat(path) = Lstat(path) /\ Stat64(path) = Lstat64(path)
  BY <1>3, Zenon DEF Stat, Lstat, Stat64, Lstat64
<1>5. Access(path) = (Lstat64(path) # "none")
  BY <1>3, Zenon DEF Access, Lstat64
<1>6. Readlink(path) = [ok |-> FALSE, path |-> <<>>]
  BY Zenon DEF Readlink
<1>7. ~Readlink(path).ok
  BY <1>6
<1> QED
  BY <1>4, <1>5, <1>7

(* What the stack of a place says of the list of mounts                    *)

\* The stack s holds the first n mounts of a place, the last one on top.
Holds(l, at, n, s) ==
    /\ s = <<>> <=> \A i \in 1..n : l[i].at # at
    /\ Len(s) <= 1 => \A i, j \in 1..n : l[i].at = at /\ l[j].at = at => i = j
    /\ \A i \in 1..n : l[i].at = at /\ (\A j \in 1..n : l[j].at = at => j <= i)
                          => s # <<>> /\ LastOf(s) = l[i].dest

\* The stack of a place holds its mounts, and the last one in the list is on top.
LEMMA StackHolds ==
    ASSUME NEW l \in Seq(MountPoint), NEW at
    PROVE  StackOf(l, at) \in Seq(Dest) /\ Holds(l, at, Len(l), StackOf(l, at))
<1>1. PICK u : Stacking(l, at, u)
  BY StackIs
<1> DEFINE N == Len(l)
           G == {n \in 0..N : Holds(l, at, n, u[n])}
<1>2. N \in Nat /\ N \in 0..N /\ N = Len(l)
  OBVIOUS
<1>3. \A n \in 1..N : l[n].dest \in Dest
  <2> TAKE n \in 1..N
  <2>1. l[n] \in MountPoint
    OBVIOUS
  <2> QED
    BY <2>1 DEF MountPoint
<1> HIDE DEF N
<1>4. 0 \in G
  <2>1. u[0] = <<>>
    BY <1>1 DEF Stacking
  <2> QED
    BY <1>2, <2>1 DEF Holds
<1>5. ASSUME NEW n \in 1..N, n - 1 \in G PROVE n \in G
  <2> DEFINE m == n - 1
             s == u[m]
             d == l[n].dest
  <2>1. n \in Nat /\ m \in Nat /\ n = m + 1 /\ n \in 0..N /\ m \in 0..N
        /\ (\A i \in 1..n : i \in 1..m \/ i = n)
        /\ (\A i \in 1..m : i \in 1..n /\ i # n /\ ~(n <= i))
        /\ n \in 1..n
    BY <1>2
  <2>2. Holds(l, at, m, s)
    BY <1>5
  <2>3. /\ u[n] = IF l[n].at = at THEN Append(s, d) ELSE s
        /\ s \in Seq(Dest) /\ d \in Dest
    BY <1>1, <1>2, <1>3, <2>1, Zenon DEF Stacking
  <2> HIDE DEF m, s, d
  <2>4. CASE l[n].at = at
    <3>1. /\ Append(s, d) # <<>> /\ LastOf(Append(s, d)) = d
      BY <2>3, PopOf
    <3>2. Len(Append(s, d)) <= 1 => s = <<>>
      BY <2>3
    <3>3. Len(Append(s, d)) <= 1 => \A i, j \in 1..n : l[i].at = at /\ l[j].at = at => i = j
      BY <2>1, <2>2, <3>2, Zenon DEF Holds
    <3>4. ASSUME NEW i \in 1..n, \A j \in 1..n : l[j].at = at => j <= i
          PROVE  l[i].dest = d
      <4>1. n <= i
        BY <2>1, <2>4, <3>4, Zenon
      <4>2. i = n
        BY <2>1, <4>1, Zenon
      <4> QED
        BY <4>2 DEF d
    <3>5. Holds(l, at, n, Append(s, d))
      BY <2>1, <2>4, <3>1, <3>3, <3>4, Zenon DEF Holds
    <3> QED
      BY <2>1, <2>3, <2>4, <3>5, Zenon
  <2>5. CASE l[n].at # at
    <3>1. Holds(l, at, n, s)
      BY <2>1, <2>2, <2>5, Zenon DEF Holds
    <3> QED
      BY <2>1, <2>3, <2>5, <3>1, Zenon
  <2> QED
    BY <2>4, <2>5
<1>6. N \in G
  <2>1. \A n \in 0..N : n \in G
    <3> HIDE DEF G
    <3> QED
      BY <1>2, <1>4, <1>5, UpToAll, Zenon
  <2> QED
    BY <1>2, <2>1, Zenon
<1>7. StackOf(l, at) = u[N] /\ u[N] \in Seq(Dest)
  BY <1>1, <1>2, Zenon DEF Stacking
<1> QED
  BY <1>2, <1>6, <1>7, Zenon

(* The Unix name                                                           *)

NoLinks == \A w \in DOMAIN disk : disk[w].kind # "lnk"

\* Without links an element is just put at the end.
LEMMA ElementWithoutLinks ==
    ASSUME NoLinks, NEW t, NEW e, NEW follow
    PROVE  PlainElement(t, e, follow) = [win |-> Append(t.win, e), unix |-> Append(t.unix, e)]
<1>1. File.kind # "lnk"
  BY ThingFields
<1>2. GetLinkDestination(t.win, e).kind # "lnk"
  BY <1>1 DEF GetLinkDestination, GetShortcutTarget, NoLinks
<1> QED
  BY <1>2, Zenon DEF PlainElement

\* The mounts on the first n elements of a path, if there is at most one.
LEMMA FoundOne ==
    ASSUME MountsOK, OneMountEach, NEW stack, NEW n, MatchingMounts(stack, n) # {}
    PROVE  Cardinality(MatchingMounts(stack, n)) = 1
<1> DEFINE at == SubSeq(stack, 1, n)
           found == MatchingMounts(stack, n)
<1>1. mounts \in Seq(MountPoint) /\ DOMAIN mounts = 1..Len(mounts)
  BY DEF MountsOK
<1>2. \A i : i \in found <=> i \in 1..Len(mounts) /\ mounts[i].at = at
  BY <1>1 DEF MatchingMounts
<1> HIDE DEF at, found
<1>3. PICK k \in found : TRUE
  BY DEF found
<1>4. at \in Place
  <2>1. mounts[k] \in MountPoint /\ mounts[k].at = at
    BY <1>1, <1>2, <1>3
  <2> QED
    BY <2>1 DEF MountPoint
<1>5. Len(StackOf(mounts, at)) <= 1 /\ Holds(mounts, at, Len(mounts), StackOf(mounts, at))
  BY <1>1, <1>4, StackHolds DEF OneMountEach, StackAt
<1>6. \A i \in found : i = k
  <2>1. \A i, j \in 1..Len(mounts) : mounts[i].at = at /\ mounts[j].at = at => i = j
    BY <1>5, Zenon DEF Holds
  <2>2. k \in 1..Len(mounts) /\ mounts[k].at = at
    BY <1>2, <1>3
  <2> TAKE i \in found
  <2>3. i \in 1..Len(mounts) /\ mounts[i].at = at
    BY <1>2
  <2> QED
    BY <2>1, <2>2, <2>3, Zenon
<1>7. found = {k}
  BY <1>3, <1>6
<1>8. Cardinality({k}) = 1
  BY FS_Singleton
<1> QED
  BY <1>7, <1>8 DEF found

\* One element appended as a list of one.
LEMMA AppendOne ==
    ASSUME NEW S, NEW s \in Seq(S), NEW e \in S
    PROVE  s \o [i \in 1..1 |-> e] = Append(s, e)
<1> DEFINE o == [i \in 1..1 |-> e]
           m == s \o o
           a == Append(s, e)
<1>1. o \in Seq(S) /\ Len(o) = 1 /\ o[1] = e
  OBVIOUS
<1>2. a \in Seq(S) /\ Len(a) = Len(s) + 1 /\ Len(s) \in Nat
      /\ \A i \in 1..(Len(s) + 1) : a[i] = IF i <= Len(s) THEN s[i] ELSE e
  OBVIOUS
<1> HIDE DEF o
<1>3. /\ m \in Seq(S) /\ Len(m) = Len(s) + Len(o)
      /\ \A i \in 1..Len(s) + Len(o) : m[i] = IF i <= Len(s) THEN s[i] ELSE o[i - Len(s)]
  BY <1>1, ConcatProperties, Zenon
<1> HIDE DEF m, a
<1>4. Len(m) = Len(s) + 1
      /\ \A i \in 1..(Len(s) + 1) : m[i] = IF i <= Len(s) THEN s[i] ELSE o[i - Len(s)]
  BY <1>1, <1>3, Zenon
<1>5. \A i \in 1..(Len(s) + 1) : m[i] = a[i]
  <2> TAKE i \in 1..(Len(s) + 1)
  <2>1. ~(i <= Len(s)) => i - Len(s) = 1
    BY <1>2
  <2> QED
    BY <1>1, <1>2, <1>4, <2>1, Zenon
<1>6. m = a
  <2>1. \A i \in 1..Len(m) : m[i] = a[i]
    BY <1>4, <1>5, Zenon
  <2> QED
    BY <1>2, <1>3, <1>4, <2>1, SeqEqual
<1> QED
  BY <1>6 DEF m, a, o

\* Each turn appends the element once to the Unix name.
LEMMA OneElementKeepsName ==
    ASSUME MountsOK, OneMountEach, NoLinks, NEW stack \in Seq(Name), NEW follow,
           NEW n \in 1..Len(stack), NEW t \in Spot
    PROVE  OneElement(stack, follow, n, t).unix = Append(t.unix, stack[n])
<1> DEFINE e == stack[n]
           found == MatchingMounts(stack, n)
<1>1. e \in Name /\ t.unix \in Seq(Name)
  BY DEF Spot
<1>2. OneElement(stack, follow, n, t) = IF found # {} THEN MountElement(t, e, found)
                                        ELSE PlainElement(t, e, follow)
  BY DEF OneElement
<1>3. found # {} => Cardinality(found) = 1
  BY FoundOne
<1> HIDE DEF e, found
<1>4. CASE found # {}
  <2>1. MountElement(t, e, found).unix = t.unix \o [i \in 1..Cardinality(found) |-> e]
    BY Zenon DEF MountElement
  <2>2. t.unix \o [i \in 1..1 |-> e] = Append(t.unix, e)
    BY <1>1, AppendOne
  <2>3. OneElement(stack, follow, n, t).unix = Append(t.unix, e)
    BY <1>2, <1>3, <1>4, <2>1, <2>2, Zenon
  <2> QED
    BY <2>3 DEF e
<1>5. CASE found = {}
  <2>1. PlainElement(t, e, follow) = [win |-> Append(t.win, e), unix |-> Append(t.unix, e)]
    BY ElementWithoutLinks
  <2>2. PlainElement(t, e, follow).unix = Append(t.unix, e)
    BY <2>1
  <2>3. OneElement(stack, follow, n, t).unix = Append(t.unix, e)
    BY <1>2, <1>5, <2>2, Zenon
  <2> QED
    BY <2>3 DEF e
<1> QED
  BY <1>4, <1>5

\* With one mount for each place and no links the Unix name is the path itself.
LEMMA NameKept ==
    ASSUME DiskOK, MountsOK, OneMountEach, NoLinks, NEW stack \in Seq(Name), NEW follow
    PROVE  Traverse(stack, follow).unix = stack
<1>1. PICK u : Traversing(stack, follow, u)
  BY TraverseIs
<1> DEFINE N == Len(stack)
           G == {n \in 0..N : Len(u[n].unix) = n /\ \A i \in 1..n : u[n].unix[i] = stack[i]}
<1>2. N \in Nat /\ N \in 0..N /\ N = Len(stack)
  OBVIOUS
<1>3. 0 \in G
  <2>1. u[0].unix = <<>>
    BY <1>1 DEF Traversing
  <2> QED
    BY <1>2, <2>1
<1>4. ASSUME NEW n \in 1..N, n - 1 \in G PROVE n \in G
  <2> DEFINE s == u[n - 1].unix
             r == u[n].unix
             e == stack[n]
  <2>1. n - 1 \in 0..N /\ n \in 0..N /\ e \in Name /\ n \in Nat
    BY <1>2
  <2>2. u[n - 1] \in Spot /\ u[n] = OneElement(stack, follow, n, u[n - 1])
    BY <1>1, <2>1, Zenon DEF Traversing
  <2>3. s \in Seq(Name) /\ r = Append(s, e)
    <3>1. s \in Seq(Name)
      BY <2>2 DEF Spot
    <3>2. OneElement(stack, follow, n, u[n - 1]).unix = Append(s, e)
      BY <2>2, OneElementKeepsName
    <3> QED
      BY <2>2, <3>1, <3>2, Zenon
  <2>4. Len(s) = n - 1 /\ \A i \in 1..(n - 1) : s[i] = stack[i]
    BY <1>4
  <2> HIDE DEF s, r
  <2>5. Len(r) = n /\ r[n] = e /\ \A i \in 1..(n - 1) : r[i] = s[i]
    <3> HIDE DEF e
    <3> QED
      BY <2>1, <2>3, <2>4
  <2>6. \A i \in 1..n : r[i] = stack[i]
    <3> TAKE i \in 1..n
    <3>1. i \in 1..(n - 1) \/ i = n
      BY <2>1
    <3> QED
      BY <2>4, <2>5, <3>1, Zenon
  <2> QED
    BY <2>1, <2>5, <2>6 DEF r
<1>5. N \in G
  <2>1. \A n \in 0..N : n \in G
    <3> HIDE DEF G, N
    <3> QED
      BY <1>2, <1>3, <1>4, UpToAll, Zenon
  <2> QED
    BY <1>2, <2>1
<1>6. Traverse(stack, follow).unix = u[N].unix /\ u[N].unix \in Seq(Name)
  BY <1>1, EndsAt DEF Spot
<1> DEFINE z == u[N].unix
<1>7. Len(z) = Len(stack) /\ \A i \in 1..Len(z) : z[i] = stack[i]
  BY <1>5
<1> HIDE DEF z
<1>8. z \in Seq(Name) /\ Traverse(stack, follow).unix = z
  BY <1>6 DEF z
<1>9. z = stack
  BY <1>7, <1>8, SeqEqual
<1> QED
  BY <1>8, <1>9

\* The current directory's name is kept.
LEMMA UnixPathFollows == PathsInv => UnixPathKept
<1> SUFFICES ASSUME PathsInv, OneMountEach, NoLinks, NEW path \in Args
             PROVE  Unix(path, TRUE) = SetUnixPath(path)
  BY Zenon DEF UnixPathKept, NoLinks
<1> QED
  BY SetUnixPathType, NameKept, Zenon DEF Unix, PathsInv, DiskInv

(* The mount that is seen                                                  *)

\* Where the elements after the first m of a path are looked for.
SeenFrom(path, m) == IF m = 0 THEN Root ELSE mounts[Max(MatchingMounts(path, m))].dest

\* Of the first n elements, the m-th is the last that is mounted on.
LastMounted(path, m, n) ==
    /\ m = 0 \/ MatchingMounts(path, m) # {}
    /\ \A j \in 1..n : m < j => MatchingMounts(path, j) = {}

\* A destination d, with the elements of a path after the m-th up to the n-th.
Tailed(path, w, d, m, n) ==
    /\ w \in Seq(Part) /\ Len(w) = 1 + (n - m) /\ w[1] = d
    /\ \A i \in 1..(n - m) : w[1 + i] = path[m + i]

\* The next element goes to the end.
LEMMA TailedGrows ==
    ASSUME NEW path \in Seq(Part), NEW n \in 1..Len(path), NEW m \in 0..(n - 1), NEW d, NEW w,
           Tailed(path, w, d, m, n - 1)
    PROVE  Tailed(path, Append(w, path[n]), d, m, n)
<1> DEFINE e == path[n]
           a == Append(w, e)
           k == n - m
<1>1. e \in Part /\ n \in Nat /\ m \in Nat /\ k \in Nat /\ k >= 1 /\ m + k = n
  OBVIOUS
<1>2. (n - 1) - m = k - 1 /\ 1 + (k - 1) = k
  BY <1>1
<1> HIDE DEF k
<1>3. /\ w \in Seq(Part) /\ Len(w) = k /\ w[1] = d
      /\ \A i \in 1..(k - 1) : w[1 + i] = path[m + i]
  BY <1>2, Zenon DEF Tailed
<1>e. path[m + k] = e
  BY <1>1
<1> HIDE DEF e
<1>4. a \in Seq(Part) /\ Len(a) = 1 + k /\ a[1] = d /\ a[1 + k] = e
      /\ \A i \in 1..(k - 1) : a[1 + i] = w[1 + i]
  <2>1. /\ a \in Seq(Part) /\ Len(a) = k + 1 /\ a[k + 1] = e /\ \A i \in 1..k : a[i] = w[i]
    BY <1>1, <1>3
  <2> HIDE DEF a
  <2>2. 1 \in 1..k /\ k + 1 = 1 + k /\ \A i \in 1..(k - 1) : 1 + i \in 1..k
    BY <1>1
  <2> QED
    BY <1>3, <2>1, <2>2, Zenon
<1> HIDE DEF a
<1>5. \A i \in 1..k : a[1 + i] = path[m + i]
  <2> TAKE i \in 1..k
  <2>1. i \in 1..(k - 1) \/ i = k
    BY <1>1
  <2> QED
    BY <1>3, <1>4, <1>e, <2>1, Zenon
<1>6. Tailed(path, a, d, m, n)
  BY <1>4, <1>5, Zenon DEF Tailed, k
<1> QED
  BY <1>6 DEF a, e

\* Without links, the path so far is one in the mount that was met last.
LEMMA LoopSees ==
    ASSUME MountsOK, NoLinks, NEW path \in Seq(Name), NEW u, Traversing(path, TRUE, u),
           NEW m \in 0..Len(path), LastMounted(path, m, Len(path))
    PROVE  Tailed(path, u[Len(path)].win, SeenFrom(path, m), m, Len(path))
<1> DEFINE N == Len(path)
           Good(n) == \A x \in 0..n : LastMounted(path, x, n)
                                         => Tailed(path, u[n].win, SeenFrom(path, x), x, n)
           G == {n \in 0..N : Good(n)}
<1>1. N \in Nat /\ N \in 0..N /\ N = Len(path) /\ 0 \in 0..N
  OBVIOUS
<1>2. path \in Seq(Part) /\ Root \in Part
  <2>1. Name \subseteq Part
    BY DEF Part
  <2> QED
    BY <2>1, PathsConstants DEF Part
<1>3. 0 \in G
  <2>1. u[0].win = <<Root>>
    BY DEF Traversing
  <2>2. Tailed(path, <<Root>>, Root, 0, 0)
    BY <1>2 DEF Tailed
  <2>3. Good(0)
    <3> TAKE x \in 0..0
    <3>1. x = 0
      OBVIOUS
    <3>2. SeenFrom(path, 0) = Root
      BY DEF SeenFrom
    <3> QED
      BY <2>1, <2>2, <3>1, <3>2, Zenon
  <2> QED
    BY <1>1, <2>3
<1> HIDE DEF N
<1>4. ASSUME NEW n \in 1..N, n - 1 \in G PROVE n \in G
  <2>1. n \in Nat /\ n \in 1..Len(path) /\ n - 1 \in 0..N /\ n \in 0..N /\ n \in 1..n
        /\ path[n] \in Name
    BY <1>1
  <2>2. u[n - 1] \in Spot /\ u[n] = OneElement(path, TRUE, n, u[n - 1])
    BY <1>1, <2>1, Zenon DEF Traversing
  <2>3. ASSUME NEW x \in 0..n, LastMounted(path, x, n)
        PROVE  Tailed(path, u[n].win, SeenFrom(path, x), x, n)
    <3>1. CASE x = n
      <4>1. MatchingMounts(path, n) # {} /\ MatchingMounts(path, n) \subseteq DOMAIN mounts
            /\ x # 0
        BY <2>1, <2>3, <3>1 DEF LastMounted, MatchingMounts
      <4> DEFINE d == mounts[Max(MatchingMounts(path, n))].dest
      <4>2. d \in Dest
        BY <2>1, <2>2, <4>1, MountSpot
      <4>3. u[n].win = <<d>>
        <5>1. u[n] = MountElement(u[n - 1], path[n], MatchingMounts(path, n))
          BY <2>2, <4>1, Zenon DEF OneElement
        <5> QED
          BY <5>1 DEF MountElement
      <4>4. SeenFrom(path, x) = d
        BY <3>1, <4>1, Zenon DEF SeenFrom
      <4> HIDE DEF d
      <4>5. d \in Part
        BY <4>2 DEF Part
      <4>6. Tailed(path, <<d>>, d, n, n)
        BY <2>1, <4>5 DEF Tailed
      <4> QED
        BY <3>1, <4>3, <4>4, <4>6, Zenon
    <3>2. CASE x # n
      <4>1. x \in 0..(n - 1) /\ x < n /\ \A j \in 1..(n - 1) : j \in 1..n
        BY <2>1, <3>2
      <4>2. MatchingMounts(path, n) = {} /\ LastMounted(path, x, n - 1)
        BY <2>1, <2>3, <4>1, Zenon DEF LastMounted
      <4>3. Tailed(path, u[n - 1].win, SeenFrom(path, x), x, n - 1)
        BY <1>4, <4>1, <4>2
      <4>4. u[n].win = Append(u[n - 1].win, path[n])
        <5>1. u[n] = PlainElement(u[n - 1], path[n], TRUE)
          BY <2>2, <4>2, Zenon DEF OneElement
        <5>2. u[n] = [win |-> Append(u[n - 1].win, path[n]),
                      unix |-> Append(u[n - 1].unix, path[n])]
          BY <5>1, ElementWithoutLinks, Zenon
        <5> QED
          BY <5>2
      <4>5. Tailed(path, Append(u[n - 1].win, path[n]), SeenFrom(path, x), x, n)
        BY <1>2, <2>1, <4>1, <4>3, TailedGrows
      <4> QED
        BY <4>4, <4>5, Zenon
    <3> QED
      BY <3>1, <3>2
  <2> QED
    BY <2>1, <2>3
<1>5. N \in G
  <2>1. \A n \in 0..N : n \in G
    <3> HIDE DEF G
    <3> QED
      BY <1>1, <1>3, <1>4, UpToAll, Zenon
  <2> QED
    BY <1>1, <2>1
<1>6. Good(N)
  BY <1>5
<1> QED
  BY <1>1, <1>6, Zenon

\* Such a path is what it is said to be.
LEMMA TailedIs ==
    ASSUME NEW path \in Seq(Part), NEW w, NEW d, NEW at \in Seq(Part), Len(at) <= Len(path),
           Tailed(path, w, d, Len(at), Len(path))
    PROVE  w = <<d>> \o SubSeq(path, Len(at) + 1, Len(path))
<1> DEFINE o == <<d>>
           z == Moved(at, o, path)
           k == Len(path) - Len(at)
<1>1. Len(at) \in Nat /\ Len(path) \in Nat /\ k \in Nat
  OBVIOUS
<1>2. w \in Seq(Part) /\ Len(w) = 1 + k /\ w[1] = d
      /\ \A i \in 1..k : w[1 + i] = path[Len(at) + i]
  BY DEF Tailed
<1>3. d \in Part
  <2> HIDE DEF k
  <2>1. 1 \in 1..Len(w)
    BY <1>1, <1>2
  <2> QED
    BY <1>2, <2>1
<1>4. o \in Seq(Part) /\ Len(o) = 1 /\ o[1] = d
  BY <1>3
<1> HIDE DEF o
<1>5. IsMoved(Part, at, o, path, z)
  BY <1>4, MovedIs
<1> HIDE DEF z
<1>6. /\ z \in Seq(Part) /\ Len(z) = 1 + k
      /\ \A i \in 1..1 : z[i] = o[i]
      /\ \A i \in 1..k : z[1 + i] = path[Len(at) + i]
  BY <1>4, <1>5, Zenon DEF IsMoved
<1> HIDE DEF k
<1>7. \A i \in 1..(1 + k) : z[i] = w[i]
  <2> TAKE i \in 1..(1 + k)
  <2>1. CASE i = 1
    <3>1. 1 \in 1..1
      OBVIOUS
    <3> QED
      BY <1>2, <1>4, <1>6, <2>1, <3>1, Zenon
  <2>2. CASE i # 1
    <3> DEFINE j == i - 1
    <3>1. j \in 1..k /\ 1 + j = i
      BY <1>1, <2>2
    <3> HIDE DEF j
    <3> QED
      BY <1>2, <1>6, <3>1, Zenon
  <2> QED
    BY <2>1, <2>2
<1>8. w = z
  <2>1. \A i \in 1..Len(w) : w[i] = z[i]
    BY <1>2, <1>7, Zenon
  <2> QED
    BY <1>2, <1>6, <2>1, SeqEqual
<1> QED
  BY <1>8 DEF z, o, Moved

\* The elements that are mounted on are the places that cover a path.
LEMMA MatchingCovers ==
    ASSUME MountsOK, NEW path \in Seq(Name), NEW m \in 1..Len(path)
    PROVE  LET at == SubSeq(path, 1, m)
           IN  /\ at \in Seq(Name) /\ Len(at) = m
               /\ MatchingMounts(path, m) # {} <=> at \in Stacks!Covering(path)
               /\ MatchingMounts(path, m) # {} => LastOf(StackAt(at)) = SeenFrom(path, m)
<1> DEFINE at == SubSeq(path, 1, m)
           found == MatchingMounts(path, m)
<1>1. m \in Nat /\ m \in Int /\ 1 <= m /\ m <= Len(path) /\ m # 0
      /\ \A i \in 1..m : path[i] \in Name
  OBVIOUS
<1>2. at \in Seq(Name) /\ Len(at) = m
  <2>1. at \in Seq(Name) /\ Len(at) = IF 1 <= m THEN m - 1 + 1 ELSE 0
    BY <1>1, SubSeqProperties
  <2> HIDE DEF at
  <2> QED
    BY <1>1, <2>1
<1>3. mounts \in Seq(MountPoint) /\ Len(mounts) \in Nat /\ DOMAIN mounts = 1..Len(mounts)
  BY DEF MountsOK
<1>4. found \subseteq 1..Len(mounts)
      /\ \A i \in 1..Len(mounts) : i \in found <=> mounts[i].at = at
  BY <1>3 DEF MatchingMounts
<1>5. at \in Stacks!Covering(path) <=> at \in Place /\ StackOf(mounts, at) # <<>>
  <2>1. Len(at) <= Len(path) /\ at = SubSeq(path, 1, Len(at))
    BY <1>1, <1>2
  <2> HIDE DEF at
  <2> QED
    BY <2>1 DEF Stacks!Covering, StackAt
<1> HIDE DEF at, found
<1>6. Holds(mounts, at, Len(mounts), StackOf(mounts, at))
  BY <1>3, StackHolds
<1>7. ASSUME found # {} PROVE at \in Place
  <2>1. PICK i \in found : TRUE
    BY <1>7
  <2>2. mounts[i] \in MountPoint /\ mounts[i].at = at
    BY <1>3, <1>4, <2>1
  <2> QED
    BY <2>2 DEF MountPoint
<1>8. found # {} <=> StackOf(mounts, at) # <<>>
  <2>1. StackOf(mounts, at) = <<>> <=> \A i \in 1..Len(mounts) : mounts[i].at # at
    BY <1>6, Zenon DEF Holds
  <2>2. found = {} <=> \A i \in 1..Len(mounts) : mounts[i].at # at
    BY <1>4
  <2> QED
    BY <2>1, <2>2
<1>9. ASSUME found # {} PROVE LastOf(StackAt(at)) = SeenFrom(path, m)
  <2> DEFINE i == Max(found)
  <2>1. i \in found /\ \A j \in found : j <= i
    BY <1>3, <1>4, <1>9, MaxOf, Zenon
  <2> HIDE DEF i
  <2>2. i \in 1..Len(mounts) /\ mounts[i].at = at
        /\ \A j \in 1..Len(mounts) : mounts[j].at = at => j <= i
    BY <1>4, <2>1, Zenon
  <2>3. LastOf(StackOf(mounts, at)) = mounts[i].dest
    BY <1>6, <2>2, Zenon DEF Holds
  <2>4. SeenFrom(path, m) = mounts[i].dest
    BY <1>1, Zenon DEF SeenFrom, found, i
  <2> QED
    BY <2>3, <2>4, Zenon DEF StackAt
<1> QED
  BY <1>2, <1>5, <1>7, <1>8, <1>9, Zenon DEF at, found

\* A place that covers a path is the first elements of it.
LEMMA CoveringIs ==
    ASSUME NEW path, NEW at \in Stacks!Covering(path)
    PROVE  /\ at \in Place /\ Len(at) <= Len(path) /\ at = SubSeq(path, 1, Len(at))
           /\ at \in Seq(Name) /\ Len(at) \in Nat /\ (at # <<>> => Len(at) >= 1)
<1>1. at \in Place /\ Len(at) <= Len(path) /\ at = SubSeq(path, 1, Len(at))
  BY DEF Stacks!Covering
<1>2. at \in Seq(Name)
  BY <1>1, PathsConstants
<1>3. Len(at) \in Nat /\ (at # <<>> => Len(at) >= 1)
  BY <1>2
<1> QED
  BY <1>1, <1>2, <1>3

\* If a place other than "/" covers a path there is a deepest one.
LEMMA DeepestIs ==
    ASSUME NEW path \in Seq(Name), ~(Stacks!Covering(path) \subseteq {<<>>})
    PROVE  LET at == Stacks!Deepest(path)
           IN  /\ at \in Stacks!Covering(path) /\ Len(at) \in 1..Len(path)
               /\ \A other \in Stacks!Covering(path) : Len(other) <= Len(at)
<1> DEFINE C == Stacks!Covering(path)
           L == {n \in 1..Len(path) : \E x \in C : Len(x) = n}
           at == Stacks!Deepest(path)
<1>1. PICK c \in C : c # <<>>
  OBVIOUS
<1>2. \A x \in C : Len(x) \in Nat /\ Len(x) <= Len(path) /\ (x # <<>> => Len(x) >= 1)
  BY CoveringIs
<1>3. Len(path) \in Nat
  OBVIOUS
<1>a. at = CHOOSE x \in C : \A other \in C : Len(other) <= Len(x)
  BY DEF Stacks!Deepest
<1> HIDE DEF C, at
<1>4. Len(c) \in L
  BY <1>1, <1>2, <1>3
<1>5. Max(L) \in L /\ \A y \in L : y <= Max(L)
  <2>1. L \subseteq 1..Len(path) /\ L # {}
    BY <1>4
  <2> HIDE DEF L
  <2> QED
    BY <1>3, <2>1, MaxOf, Zenon
<1>6. PICK x \in C : Len(x) = Max(L)
  BY <1>5, Zenon
<1> DEFINE k == Max(L)
<1>b. k \in 1..Len(path) /\ \A y \in L : y <= k
  BY <1>5
<1>c. Len(x) = k
  BY <1>6
<1> HIDE DEF k
<1>7. \A other \in C : Len(other) <= k
  <2> TAKE other \in C
  <2>1. CASE Len(other) = 0
    BY <1>3, <1>b, <2>1
  <2>2. CASE Len(other) # 0
    <3>1. Len(other) \in L
      BY <1>2, <1>3, <2>2
    <3> QED
      BY <1>b, <3>1
  <2> QED
    BY <2>1, <2>2
<1>8. at \in C /\ \A other \in C : Len(other) <= Len(at)
  <2>1. \A other \in C : Len(other) <= Len(x)
    BY <1>7, <1>c, Zenon
  <2> QED
    BY <1>a, <1>6, <2>1, Zenon
<1>9. Len(at) \in 1..Len(path)
  <2>1. Len(c) >= 1 /\ Len(c) <= Len(at) /\ Len(c) \in Nat
    BY <1>1, <1>2, <1>8
  <2>2. Len(at) \in Nat /\ Len(at) <= Len(path)
    BY <1>2, <1>8
  <2> QED
    BY <1>3, <2>1, <2>2
<1> QED
  BY <1>8, <1>9 DEF at, C

\* Every path is found in the last mount of the deepest place that covers it.
LEMMA TopMountSeen == PathsInv => SeesTopMount
<1> SUFFICES ASSUME PathsInv, NoLinks, NEW path \in Place
             PROVE  Traverse(path, TRUE).win =
                  IF Stacks!Covering(path) \subseteq {<<>>} THEN <<Root>> \o path
                  ELSE LET at == Stacks!Deepest(path)
                       IN  <<LastOf(StackAt(at))>> \o
                           SubSeq(path, Len(at) + 1, Len(path))
  BY Zenon DEF SeesTopMount, NoLinks
<1> DEFINE C == Stacks!Covering(path)
           N == Len(path)
<1>1. path \in Seq(Name) /\ DiskOK /\ MountsOK /\ N \in Nat
  BY PathsConstants DEF PathsInv, DiskInv
<1>2. path \in Seq(Part)
  <2>1. Name \subseteq Part
    BY DEF Part
  <2> QED
    BY <1>1, <2>1
<1>3. PICK u : Traversing(path, TRUE, u)
  BY <1>1, TraverseIs, Zenon
<1>4. Traverse(path, TRUE).win = Win32(u[N].win)
  BY <1>1, <1>3, EndsAt, Zenon
<1>5. ASSUME NEW m \in 0..N, LastMounted(path, m, N)
      PROVE  /\ Tailed(path, u[N].win, SeenFrom(path, m), m, N)
             /\ Traverse(path, TRUE).win = u[N].win
  <2>1. Tailed(path, u[N].win, SeenFrom(path, m), m, N)
    BY <1>1, <1>3, <1>5, LoopSees, Zenon
  <2>2. u[N].win \in Seq(Part)
    BY <2>1 DEF Tailed
  <2>3. Win32(u[N].win) = u[N].win
    <3>1. 1 \in Nat
      OBVIOUS
    <3> QED
      BY <2>2, <3>1, NoDots, WalkPlain DEF Win32
  <2> QED
    BY <1>4, <2>1, <2>3, Zenon
<1>6. \A m \in 1..N : /\ SubSeq(path, 1, m) \in Seq(Name) /\ Len(SubSeq(path, 1, m)) = m
                      /\ MatchingMounts(path, m) # {} <=> SubSeq(path, 1, m) \in C
                      /\ MatchingMounts(path, m) # {}
                            => LastOf(StackAt(SubSeq(path, 1, m))) = SeenFrom(path, m)
  BY <1>1, MatchingCovers
<1> HIDE DEF C, N
<1>n. N = Len(path)
  BY DEF N
<1>7. CASE C \subseteq {<<>>}
  <2>1. ASSUME NEW j \in 1..N PROVE MatchingMounts(path, j) = {}
    <3> SUFFICES ASSUME MatchingMounts(path, j) # {} PROVE FALSE
      OBVIOUS
    <3> DEFINE s == SubSeq(path, 1, j)
    <3>1. s \in C /\ Len(s) = j
      BY <1>6, Zenon
    <3>2. s = <<>>
      BY <1>7, <3>1, Zenon
    <3> HIDE DEF s
    <3>3. Len(s) = 0
      BY <3>2
    <3> QED
      BY <1>1, <3>1, <3>3
  <2>2. LastMounted(path, 0, N) /\ 0 \in 0..N
    BY <1>1, <2>1 DEF LastMounted
  <2>3. Tailed(path, u[N].win, Root, 0, N) /\ Traverse(path, TRUE).win = u[N].win
    <3>1. SeenFrom(path, 0) = Root
      BY DEF SeenFrom
    <3> QED
      BY <1>5, <2>2, <3>1, Zenon
  <2>4. u[N].win = <<Root>> \o path
    <3> DEFINE e == <<>>
    <3>1. e \in Seq(Part) /\ Len(e) = 0
      OBVIOUS
    <3> HIDE DEF e
    <3>2. Len(e) <= Len(path) /\ Tailed(path, u[N].win, Root, Len(e), Len(path))
      <4>1. 0 <= N
        BY <1>1
      <4> QED
        BY <1>n, <2>3, <3>1, <4>1, Zenon
    <3>3. u[N].win = <<Root>> \o SubSeq(path, Len(e) + 1, Len(path))
      BY <1>2, <3>1, <3>2, TailedIs, Zenon
    <3>4. Len(e) + 1 = 1 /\ SubSeq(path, 1, Len(path)) = path
      BY <1>1, <3>1
    <3> QED
      BY <3>3, <3>4, Zenon
  <2> QED
    BY <1>7, <2>3, <2>4, Zenon DEF C
<1>8. CASE ~(C \subseteq {<<>>})
  <2> DEFINE at == Stacks!Deepest(path)
             m == Len(at)
  <2>1. /\ at \in C /\ m \in 1..N /\ \A other \in C : Len(other) <= m
    BY <1>1, <1>8, DeepestIs DEF C, N
  <2>2. at = SubSeq(path, 1, m) /\ at \in Seq(Name) /\ m <= Len(path)
    BY <2>1, CoveringIs DEF C
  <2>a. m = Len(at)
    OBVIOUS
  <2>b. at = Stacks!Deepest(path)
    OBVIOUS
  <2> HIDE DEF at, m
  <2>3. MatchingMounts(path, m) # {} /\ LastOf(StackAt(at)) = SeenFrom(path, m)
    BY <1>6, <2>1, <2>2, Zenon
  <2>4. ASSUME NEW j \in 1..N, m < j PROVE MatchingMounts(path, j) = {}
    <3> SUFFICES ASSUME MatchingMounts(path, j) # {} PROVE FALSE
      OBVIOUS
    <3>1. SubSeq(path, 1, j) \in C /\ Len(SubSeq(path, 1, j)) = j
      BY <1>6, Zenon
    <3>2. j <= m
      BY <2>1, <3>1, Zenon
    <3> QED
      BY <1>1, <2>1, <2>4, <3>2
  <2>5. LastMounted(path, m, N) /\ m \in 0..N
    BY <1>1, <2>1, <2>3, <2>4 DEF LastMounted
  <2>6. /\ Tailed(path, u[N].win, LastOf(StackAt(at)), Len(at), Len(path))
        /\ Traverse(path, TRUE).win = u[N].win
    BY <1>5, <1>n, <2>3, <2>5, <2>a, Zenon
  <2>7. u[N].win = <<LastOf(StackAt(at))>> \o SubSeq(path, Len(at) + 1, Len(path))
    <3>1. at \in Seq(Part) /\ Len(at) <= Len(path)
      <4>1. Name \subseteq Part /\ at \in Seq(Name)
        BY <2>2 DEF Part
      <4>2. at \in Seq(Part)
        BY <4>1
      <4> QED
        BY <2>2, <2>a, <4>2, Zenon
    <3> QED
      BY <1>2, <2>6, <3>1, TailedIs, Zenon
  <2> QED
    BY <1>8, <2>6, <2>7, <2>b, Zenon DEF C
<1> QED
  BY <1>7, <1>8, Zenon

\* For every tree, list of mounts and argument, TranverseMountPoints finds a
\* path in the mount that covers it, stat and lstat agree on what is no link,
\* and the Unix name of a path without links and stacked mounts is kept.
THEOREM PathsAreResolved == PathsSpec => []PathsResolve
<1>1. PathsInv => PathsResolve
  BY LstatStatFollows, UnixPathFollows, TopMountSeen DEF PathsResolve
<1> QED
  BY <1>1, PathsInvariant, PTL
=============================================================================
