------------------------------ MODULE LdtProofs -----------------------------
(***************************************************************************)
(* Proofs about the thread areas of the processes (Ldt), for any threads,  *)
(* entries, bases and limits.                                              *)
(***************************************************************************)
EXTENDS Ldt, WellFoundedInduction, TLAPS

Datum == [thread : Tid \cup {0, Marker}, really : BOOLEAN,
          number : Index \cup {0}, base : Base \cup {Unset}]

\* A table of entries and the numbers k that programs know: a number stands
\* first for the entry that has it, and in another thread for one entry at most.
TableOK(e, k) ==
    /\ e \in [Index -> Datum] /\ k \subseteq Index
    /\ \A i \in Index : e[i].number # 0 => e[i].thread # 0 /\ e[i].number \in k
    /\ \A i \in k : e[i].number = i
    /\ \A i, j \in Index :
          e[i].number # 0 /\ e[i].number = e[j].number /\ e[i].thread = e[j].thread
             /\ e[i].thread # Marker => i = j

\* The entry that stands for what a thread set.
Stands(e, t, n, base) ==
    \E i \in Index : e[i].thread = t /\ e[i].number = n /\ e[i].base = base

\* Everything that a thread set, and that is not shared, stands.
AllStand(e, k, m) ==
    /\ m \in [Tid -> [Index -> Base \cup {Unset}]]
    /\ \A t \in Tid, n \in Index :
          m[t][n] # Unset => n \in k /\ Stands(e, t, n, m[t][n])

\* The entries of e that threads own are theirs in f as well.
SameOwners(e, f) == \A i \in Index : e[i].thread # 0 => f[i].thread = e[i].thread

LdtInv ==
    /\ TableOK(entry, known) /\ AllStand(entry, known, mine)
    /\ gs \in [Tid -> Index \cup {0}] /\ GsIsOwn
    /\ RefusedForBase

-----------------------------------------------------------------------------
\* The least of a set of numbers is one of them: a search of the table from its
\* start finds an entry of those it looks for.
LEMMA LeastNumber ==
    ASSUME NEW S \in SUBSET Nat, S # {}
    PROVE  Min(S) \in S
  <1>1. PICK x \in S : \A y \in S : ~(<<y, x>> \in OpToRel(<, Nat))
    BY NatLessThanWellFounded, WFMin
  <1>2. \A y \in S : ~(y < x)
    BY <1>1 DEF OpToRel
  <1>3. \E z \in S : \A y \in S : z <= y
    BY <1>2
  <1> QED BY <1>3 DEF Min

\* A search of the table from its start finds an entry of those it looks for.
LEMMA LeastOf ==
    ASSUME NEW S \in SUBSET Index, S # {}
    PROVE  Min(S) \in S
  <1>1. S \in SUBSET Nat
    BY LdtConstants DEF Index
  <1> QED BY <1>1, LeastNumber

LEMMA Numbers ==
    /\ 0 \notin Index /\ -1 \notin Index /\ 0 \notin Tid /\ Marker \notin Tid
    /\ Marker # 0 /\ Unset \notin Base
  BY LdtConstants DEF Index, Marker, Unset

\* AllocateLDTSelector takes an entry that is free, and leaves the others.
Allocated(e, t, really, a) ==
    /\ a.index \in Index /\ e[a.index].thread = 0
    /\ a.entry \in [Index -> Datum]
    /\ \A j \in Index : j # a.index => a.entry[j] = e[j]
    /\ a.entry[a.index].thread = IF really THEN Marker ELSE t
    /\ a.entry[a.index].number = e[a.index].number

LEMMA Allocates ==
    ASSUME NEW e \in [Index -> Datum], NEW t \in Tid, NEW really \in BOOLEAN,
           NEW a, a = AllocateLDTSelector(e, t, really), a.index # -1
    PROVE  Allocated(e, t, really, a)
  <1> DEFINE free == {i \in Index : e[i].thread = 0}
             i == Min(free)
             th == IF really THEN Marker ELSE t
             d == [e[i] EXCEPT !.really = really, !.thread = th]
  <1>1. free # {}
    BY DEF AllocateLDTSelector
  <1>2. i \in free
    BY <1>1, LeastOf
  <1>3. a = [index |-> i, entry |-> [e EXCEPT ![i].really = really, ![i].thread = th]]
    BY <1>1 DEF AllocateLDTSelector
  <1> HIDE DEF i
  <1>4. e[i] \in Datum /\ th \in Tid \cup {0, Marker}
    BY <1>2
  <1> HIDE DEF th
  <1>5. d \in Datum /\ d.thread = th /\ d.number = e[i].number
    BY <1>4 DEF Datum
  <1>6. [e EXCEPT ![i].really = really, ![i].thread = th] = [e EXCEPT ![i] = d]
    BY <1>2, <1>4 DEF Datum
  <1> HIDE DEF d
  <1>7. a.index = i /\ a.entry = [e EXCEPT ![i] = d]
    BY <1>3, <1>6
  <1> QED BY <1>2, <1>5, <1>7 DEF th, Allocated

\* The invariant of the table after an allocation.
LEMMA AllocateKeeps ==
    ASSUME NEW e, NEW k, TableOK(e, k), NEW t, NEW really, NEW a,
           Allocated(e, t, really, a)
    PROVE  /\ TableOK(a.entry, k) /\ a.index \notin k
           /\ a.entry[a.index].number = 0
           /\ \A i \in Index : e[i].thread # 0 => a.entry[i] = e[i]
  <1>0. /\ a.index \in Index /\ e[a.index].thread = 0
        /\ a.entry \in [Index -> Datum]
        /\ \A j \in Index : j # a.index => a.entry[j] = e[j]
        /\ a.entry[a.index].number = e[a.index].number
    BY DEF Allocated
  <1>1. e[a.index].number = 0 /\ a.index \notin k
    BY <1>0, Numbers DEF TableOK
  <1>2. \A i \in Index : a.entry[i].number # 0 => i # a.index
    BY <1>0, <1>1
  <1>3. /\ \A i \in Index : a.entry[i].number # 0 =>
              a.entry[i].thread # 0 /\ a.entry[i].number \in k
        /\ \A i \in k : a.entry[i].number = i
    BY <1>0, <1>1, <1>2 DEF TableOK
  <1>4. \A i, j \in Index :
          a.entry[i].number # 0 /\ a.entry[i].number = a.entry[j].number
             /\ a.entry[i].thread = a.entry[j].thread
             /\ a.entry[i].thread # Marker => i = j
    BY <1>0, <1>2 DEF TableOK
  <1> QED BY <1>0, <1>1, <1>3, <1>4 DEF TableOK

\* CalculateLDTEntryForThread: the index stands for the number in the thread, or
\* was free until now.  The entries that were there are as they were.
Calculated(e, k, t, n, c) ==
    /\ c.index \in Index \cup {0}
    /\ TableOK(c.entry, k)
    /\ \A i \in Index : e[i].thread # 0 => c.entry[i] = e[i]
    /\ \A i \in Index : i # c.index => c.entry[i] = e[i]
    /\ c.index # 0 =>
          /\ e[n].thread # 0
          /\ \/ c.index = n /\ e[n].thread = t /\ c.entry = e
             \/ /\ e[n].thread # t
                /\ c.entry = e /\ e[c.index].thread = t /\ e[c.index].number = n
             \/ /\ e[n].thread # t
                /\ ~ \E i \in Index : e[i].number = n /\ e[i].thread = t
                /\ e[c.index].thread = 0 /\ c.index \notin k
                /\ c.entry[c.index].number = 0
                /\ c.entry[c.index].thread = IF e[n].really THEN Marker ELSE t

LEMMA Calculates ==
    ASSUME NEW e, NEW k, TableOK(e, k), NEW t \in Tid, NEW n \in Index,
           NEW c, c = CalculateLDTEntryForThread(e, t, n)
    PROVE  Calculated(e, k, t, n, c)
  <1> DEFINE own == {i \in Index : e[i].number = n /\ e[i].thread = t}
             new == AllocateLDTSelector(e, t, e[n].really)
  <1>0. e[n] \in Datum /\ e[n].really \in BOOLEAN /\ t # 0 /\ 0 \notin Index
    BY Numbers DEF TableOK, Datum
  <1>1. CASE e[n].thread = 0
    <2>1. c = [index |-> 0, entry |-> e]
      BY <1>0, <1>1 DEF CalculateLDTEntryForThread
    <2> QED BY <2>1 DEF Calculated
  <1>2. CASE e[n].thread = t
    <2>1. c = [index |-> n, entry |-> e]
      BY <1>0, <1>2 DEF CalculateLDTEntryForThread
    <2> QED BY <1>0, <1>2, <2>1 DEF Calculated
  <1>3. CASE e[n].thread \notin {0, t} /\ own # {}
    <2>1. c = [index |-> Min(own), entry |-> e]
      BY <1>0, <1>3 DEF CalculateLDTEntryForThread
    <2>2. Min(own) \in own
      BY <1>3, LeastOf
    <2>3. c.index = Min(own) /\ c.entry = e
      BY <2>1
    <2>4. c.index \in Index /\ e[c.index].number = n /\ e[c.index].thread = t
      BY <2>2, <2>3
    <2> QED BY <1>3, <2>3, <2>4 DEF Calculated
  <1>4. CASE e[n].thread \notin {0, t} /\ own = {}
    <2>1. c = IF new.index = -1 THEN [index |-> 0, entry |-> e] ELSE new
      BY <1>0, <1>4 DEF CalculateLDTEntryForThread
    <2>2. CASE new.index = -1
      <3>1. c.index = 0 /\ c.entry = e
        BY <2>1, <2>2
      <3> QED BY <3>1 DEF Calculated
    <2>3. CASE new.index # -1
      <3>1. c = new
        BY <2>1, <2>3
      <3>a. Allocated(e, t, e[n].really, c)
        BY <1>0, <2>3, <3>1, Allocates DEF TableOK
      <3>2. /\ c.index \in Index /\ e[c.index].thread = 0
            /\ \A i \in Index : i # c.index => c.entry[i] = e[i]
            /\ c.entry[c.index].thread = IF e[n].really THEN Marker ELSE t
        BY <3>a DEF Allocated
      <3>3. /\ TableOK(c.entry, k) /\ c.index \notin k
            /\ c.entry[c.index].number = 0
            /\ \A i \in Index : e[i].thread # 0 => c.entry[i] = e[i]
        BY <3>a, AllocateKeeps
      <3>4. ~ \E i \in Index : e[i].number = n /\ e[i].thread = t
        BY <1>4
      <3> QED BY <1>4, <3>2, <3>3, <3>4 DEF Calculated
    <2> QED BY <2>2, <2>3
  <1> QED BY <1>1, <1>2, <1>3, <1>4

\* Whole pages: what the quotient and the remainder are.
LEMMA Pages ==
    ASSUME NEW a \in Nat, NEW p \in Nat \ {0}
    PROVE  /\ a \div p \in Nat /\ a % p \in 0..(p - 1)
           /\ a = p * (a \div p) + (a % p)
  OBVIOUS

\* The limit that SetLDTSelector makes of the program's is accepted if 0 is.
LEMMA ClampFits ==
    ASSUME NEW base \in Nat, NEW limit \in Nat, NEW inPages \in BOOLEAN,
           Accepted(base, 0, inPages)
    PROVE  Accepted(base, Clamped(base, limit, inPages), inPages)
  <1>0. /\ PageSize \in Nat \ {0} /\ LastByte \in Nat /\ DwordSize \in Nat
        /\ LastByte < DwordSize /\ LastByte % PageSize = PageSize - 1
    BY LdtConstants
  <1>1. CASE ~inPages
    <2>1. base <= LastByte
      BY <1>0, <1>1 DEF Accepted
    <2>2. (LastByte - base) % DwordSize = LastByte - base
      BY <1>0, <2>1
    <2>3. Clamped(base, limit, inPages) =
              IF limit > LastByte - base THEN LastByte - base ELSE limit
      BY <1>1, <2>2 DEF Clamped
    <2> QED BY <1>0, <1>1, <2>1, <2>3 DEF Accepted
  <1>2. CASE inPages
    <2> DEFINE up == base + PageSize - 1
               base4k == up - (up % PageSize)
               most == (LastByte - base4k) \div PageSize
               l == IF limit > most THEN most ELSE limit
    <2>1. up \in Nat /\ up <= LastByte
      BY <1>0, <1>2 DEF Accepted
    <2>2. PICK q \in Nat, r \in 0..(PageSize - 1) :
              up = PageSize * q + r /\ r = up % PageSize
      BY <1>0, <2>1, Pages
    <2>3. base4k = PageSize * q /\ base4k \in Nat /\ base4k <= up
      BY <1>0, <2>1, <2>2
    <2>4. PICK z \in Nat : LastByte = PageSize * z + (PageSize - 1)
      <3>1. /\ LastByte \div PageSize \in Nat
            /\ LastByte = PageSize * (LastByte \div PageSize) + (LastByte % PageSize)
        BY <1>0, Pages
      <3> QED BY <1>0, <3>1
    <2>5. (LastByte - base4k) % DwordSize = LastByte - base4k /\ LastByte - base4k \in Nat
      BY <1>0, <2>1, <2>3
    <2>6. base4k % DwordSize = base4k
      BY <1>0, <2>1, <2>3
    <2>7. Clamped(base, limit, inPages) = l
      BY <1>2, <2>5, <2>6 DEF Clamped
    <2> HIDE DEF base4k
    <2>8. most \in Nat /\ PageSize * most <= LastByte - base4k
      <3>1. PICK d \in Nat : d = LastByte - base4k
        BY <2>5
      <3>2. d \div PageSize \in Nat /\ d % PageSize \in 0..(PageSize - 1)
            /\ d = PageSize * (d \div PageSize) + (d % PageSize)
        BY <1>0, Pages
      <3>3. PICK m \in Nat, f \in 0..(PageSize - 1) :
                m = d \div PageSize /\ d = PageSize * m + f
        BY <3>2
      <3>4. most = m
        BY <3>1, <3>3
      <3> HIDE DEF most
      <3>5. PageSize * m \in Nat /\ PageSize * m <= d
        BY <1>0, <3>3
      <3> QED BY <3>1, <3>4, <3>5
    <2> HIDE DEF most, up
    <2>9. PageSize * q + PageSize * most <= PageSize * z + (PageSize - 1)
      BY <1>0, <2>3, <2>4, <2>8
    <2>10. q + most <= z
      <3> SUFFICES ASSUME q + most >= z + 1 PROVE FALSE
        BY <2>8
      <3>1. PageSize * (q + most) >= PageSize * (z + 1)
        BY <1>0, <2>8
      <3>2. PageSize * (q + most) = PageSize * q + PageSize * most
            /\ PageSize * (z + 1) = PageSize * z + PageSize
        BY <1>0, <2>8
      <3> QED BY <1>0, <2>8, <2>9, <3>1, <3>2
    <2>11. l \in Nat /\ l <= most
      BY <2>8
    <2> HIDE DEF l
    <2>12. q + l <= z /\ PageSize * (q + l) <= PageSize * z
           /\ PageSize * (q + l) = PageSize * q + PageSize * l
      BY <1>0, <2>8, <2>10, <2>11
    <2>13. base + PageSize - 1 = PageSize * q + r
      BY <2>2 DEF up
    <2>14. (l + 1) * PageSize = PageSize * l + PageSize
      BY <1>0, <2>11
    <2>15. base + ((l + 1) * PageSize - 1) <= LastByte
      <3> DEFINE ql == PageSize * q
                 ll == PageSize * l
                 zz == PageSize * z
      <3>1. ql \in Nat /\ ll \in Nat /\ zz \in Nat
        BY <1>0, <2>11
      <3>2. ql + ll <= zz /\ LastByte = zz + (PageSize - 1)
            /\ base + PageSize - 1 = ql + r /\ (l + 1) * PageSize = ll + PageSize
        BY <2>4, <2>12, <2>13, <2>14
      <3> HIDE DEF ql, ll, zz
      <3> QED BY <1>0, <3>1, <3>2
    <2> QED BY <1>2, <2>7, <2>15 DEF Accepted
  <1> QED BY <1>1, <1>2

\* Lookups make entries and change none.
LEMMA StandStill ==
    ASSUME NEW e \in [Index -> Datum], NEW f, NEW k, NEW m, AllStand(e, k, m),
           \A i \in Index : e[i].thread # 0 => f[i] = e[i]
    PROVE  AllStand(f, k, m) /\ SameOwners(e, f)
  BY Numbers DEF AllStand, Stands, SameOwners

\* A table with one entry changed.
LEMMA Changed ==
    ASSUME NEW g \in [Index -> Datum], NEW y \in Index, NEW v \in Datum
    PROVE  /\ [g EXCEPT ![y] = v] \in [Index -> Datum] /\ [g EXCEPT ![y] = v][y] = v
           /\ \A i \in Index : i # y => [g EXCEPT ![y] = v][i] = g[i]
  OBVIOUS

\* The history with one base.
LEMMA Remembered ==
    ASSUME NEW m \in [Tid -> [Index -> Base \cup {Unset}]], NEW t \in Tid,
           NEW n \in Index, NEW b \in Base \cup {Unset}, NEW w, w = [m EXCEPT ![t][n] = b]
    PROVE  /\ w \in [Tid -> [Index -> Base \cup {Unset}]] /\ w[t][n] = b
           /\ \A v \in Tid, l \in Index : (v = t /\ l = n) \/ w[v][l] = m[v][l]
  OBVIOUS

\* An accepted descriptor is recorded in the table f, and the base in w.
Records(e, k, t, n, base, m, c, f, w) ==
    /\ n \in k \/ (e[n].thread = t /\ e[n].number = 0)
    /\ c = CalculateLDTEntryForThread(e, t, n) /\ c.index # 0
    /\ f \in [Index -> Datum]
    /\ f[c.index].thread = c.entry[c.index].thread
    /\ f[c.index].number = n /\ f[c.index].base = base
    /\ \A i \in Index : i # c.index => f[i] = c.entry[i]
    /\ w \in [Tid -> [Index -> Base \cup {Unset}]]
    /\ w[t][n] \in {Unset, base} /\ (e[n].really => w[t][n] = Unset)
    /\ \A v \in Tid, l \in Index : (v = t /\ l = n) \/ w[v][l] = m[v][l]

LEMMA RecordKeeps ==
    ASSUME NEW e, NEW k, TableOK(e, k), NEW m, AllStand(e, k, m),
           NEW t \in Tid, NEW n \in Index, NEW base \in Base,
           NEW c, NEW f, NEW w, Records(e, k, t, n, base, m, c, f, w)
    PROVE  TableOK(f, k \cup {n}) /\ AllStand(f, k \cup {n}, w) /\ SameOwners(e, f)
  <1> DEFINE x == c.index
  <1>0. /\ n \in k \/ (e[n].thread = t /\ e[n].number = 0)
        /\ c = CalculateLDTEntryForThread(e, t, n) /\ c.index # 0
        /\ f \in [Index -> Datum]
        /\ w \in [Tid -> [Index -> Base \cup {Unset}]]
        /\ w[t][n] \in {Unset, base} /\ (e[n].really => w[t][n] = Unset)
        /\ \A v \in Tid, l \in Index : (v = t /\ l = n) \/ w[v][l] = m[v][l]
    BY DEF Records
  <1>1. /\ x \in Index /\ TableOK(c.entry, k)
        /\ \A i \in Index : e[i].thread # 0 => c.entry[i] = e[i]
        /\ \A i \in Index : i # x => c.entry[i] = e[i]
        /\ e[n].thread # 0
        /\ \/ x = n /\ e[n].thread = t /\ c.entry = e
           \/ /\ e[n].thread # t
              /\ c.entry = e /\ e[x].thread = t /\ e[x].number = n
           \/ /\ e[n].thread # t
              /\ ~ \E i \in Index : e[i].number = n /\ e[i].thread = t
              /\ e[x].thread = 0 /\ x \notin k
              /\ c.entry[x].number = 0
              /\ c.entry[x].thread = IF e[n].really THEN Marker ELSE t
    <2>1. c = CalculateLDTEntryForThread(e, t, n) /\ c.index # 0
      BY <1>0
    <2>2. Calculated(e, k, t, n, c)
      BY <2>1, Calculates
    <2> QED BY <2>1, <2>2 DEF Calculated
  <1>2. /\ c.entry \in [Index -> Datum] /\ e \in [Index -> Datum] /\ k \subseteq Index
        /\ x \in Index
    BY <1>1 DEF TableOK
  <1>u. \A i, j \in Index :
            c.entry[i].number # 0 /\ c.entry[i].number = c.entry[j].number
               /\ c.entry[i].thread = c.entry[j].thread
               /\ c.entry[i].thread # Marker => i = j
    BY <1>1 DEF TableOK
  <1>5. /\ f[x].thread = c.entry[x].thread /\ f[x].number = n /\ f[x].base = base
        /\ \A i \in Index : i # x => f[i] = c.entry[i]
        /\ \A i \in Index : f[i].thread = c.entry[i].thread
    BY DEF Records
  <1> HIDE DEF x
  <1>6. SameOwners(e, f)
    BY <1>1, <1>5 DEF SameOwners
  <1>7. c.entry[x].thread # 0
    BY <1>1, Numbers
  <1>8. ASSUME NEW i \in Index, f[i].number # 0
        PROVE  f[i].thread # 0 /\ f[i].number \in k \cup {n}
    <2>1. CASE i = x
      BY <1>5, <1>7, <2>1
    <2>2. CASE i # x
      <3>1. c.entry[i].number # 0
        BY <1>5, <1>8, <2>2
      <3>2. c.entry[i].thread # 0 /\ c.entry[i].number \in k
        BY <1>1, <3>1 DEF TableOK
      <3> QED BY <1>5, <2>2, <3>2
    <2> QED BY <2>1, <2>2
  \* the entry that x was, if it had a number, had this one
  <1>9. x = n \/ (x \notin k /\ c.entry[x].number = 0) \/ c.entry[x].number = n
    BY <1>1
  <1>10. \A i \in k \cup {n} : f[i].number = i
    <2>1. f[n].number = n
      <3>1. CASE x = n
        BY <1>5, <3>1
      <3>2. CASE x # n
        <4>1. n \in k
          BY <1>0, <1>1, <3>2
        <4>2. c.entry[n].number = n
          BY <1>1, <4>1 DEF TableOK
        <4> QED BY <1>5, <3>2, <4>2
      <3> QED BY <3>1, <3>2
    <2>2. ASSUME NEW i \in k, i # n PROVE f[i].number = i
      <3>1. c.entry[i].number = i
        BY <1>1 DEF TableOK
      <3>2. i # x
        BY <1>9, <2>2, <3>1
      <3> QED BY <1>2, <1>5, <3>1, <3>2
    <2> QED BY <2>1, <2>2
  <1>11. ASSUME NEW i \in Index, i # x, c.entry[i].number = n,
                c.entry[i].thread = c.entry[x].thread, c.entry[i].thread # Marker
         PROVE  FALSE
    <2>0. n # 0 /\ n \in k
      BY <1>1, <1>11, Numbers DEF TableOK
    <2>1. CASE x = n
      <3>1. c.entry[x].number = n
        BY <1>1, <2>0, <2>1 DEF TableOK
      <3> QED BY <1>2, <1>11, <1>u, <2>0, <3>1
    <2>2. CASE c.entry[x].number = n
      BY <1>2, <1>11, <1>u, <2>0, <2>2
    <2>3. CASE x \notin k /\ c.entry[x].number = 0 /\ x # n
      <3>1. /\ ~ \E j \in Index : e[j].number = n /\ e[j].thread = t
            /\ e[x].thread = 0
            /\ c.entry[x].thread = IF e[n].really THEN Marker ELSE t
        BY <1>1, <2>0, <2>3
      <3>2. c.entry[i].thread = t /\ c.entry[i] = e[i]
        BY <1>1, <1>11, <3>1
      <3> QED BY <1>11, <3>1, <3>2
    <2> QED BY <1>9, <2>1, <2>2, <2>3
  <1>12. ASSUME NEW i \in Index, NEW j \in Index, f[i].number # 0,
                f[i].number = f[j].number, f[i].thread = f[j].thread,
                f[i].thread # Marker
         PROVE  i = j
    <2>1. c.entry[i].thread = c.entry[j].thread /\ c.entry[i].thread # Marker
      BY <1>5, <1>12
    <2>2. CASE i = x /\ j # x
      <3>1. c.entry[j].number = n
        BY <1>5, <1>12, <2>2
      <3> QED BY <1>11, <2>1, <2>2, <3>1
    <2>3. CASE i # x /\ j = x
      <3>1. c.entry[i].number = n
        BY <1>5, <1>12, <2>3
      <3> QED BY <1>11, <2>1, <2>3, <3>1
    <2>4. CASE i # x /\ j # x
      <3>1. c.entry[i].number # 0 /\ c.entry[i].number = c.entry[j].number
        BY <1>5, <1>12, <2>4
      <3> QED BY <1>u, <2>1, <3>1
    <2> QED BY <2>2, <2>3, <2>4
  <1>13. TableOK(f, k \cup {n})
    <2>1. k \cup {n} \subseteq Index
      BY <1>2
    <2> QED BY <1>0, <1>5, <1>8, <1>10, <1>12, <2>1 DEF TableOK
  <1>15. ASSUME NEW v \in Tid, NEW l \in Index, w[v][l] # Unset
         PROVE  l \in k \cup {n} /\ Stands(f, v, l, w[v][l])
    <2>1. CASE v = t /\ l = n
      <3>1. w[v][l] = base /\ ~e[n].really
        BY <1>0, <1>15, <2>1
      <3>2. c.entry[x].thread = t
        BY <1>1, <3>1
      <3>3. f[x].thread = t /\ f[x].number = n /\ f[x].base = base
        BY <1>5, <3>2
      <3> QED BY <1>2, <2>1, <3>1, <3>3 DEF Stands
    <2>2. CASE ~(v = t /\ l = n)
      <3>1. w[v][l] = m[v][l]
        BY <1>0, <2>2
      <3>2. l \in k /\ Stands(e, v, l, m[v][l])
        BY <1>15, <3>1 DEF AllStand
      <3>3. PICK i \in Index : e[i].thread = v /\ e[i].number = l /\ e[i].base = m[v][l]
        BY <3>2 DEF Stands
      <3>4. c.entry[i] = e[i]
        BY <1>1, <3>3, Numbers
      <3>5. i # x
        <4> SUFFICES ASSUME i = x PROVE FALSE
          OBVIOUS
        <4>1. e[x].thread # 0 /\ e[x].number # 0
          BY <1>2, <3>2, <3>3, Numbers
        <4>2. CASE x = n
          <5>1. v = t
            BY <1>1, <3>3, <4>2
          <5>2. n \in k
            BY <1>0, <4>1, <4>2
          <5>3. e[n].number = n
            BY <5>2 DEF TableOK
          <5> QED BY <2>2, <3>3, <4>2, <5>1, <5>3
        <4>3. CASE x # n
          <5>1. e[x].thread = t /\ e[x].number = n
            BY <1>1, <4>1, <4>3
          <5> QED BY <2>2, <3>3, <5>1
        <4> QED BY <4>2, <4>3
      <3>6. f[i] = e[i]
        BY <1>5, <3>4, <3>5
      <3> QED BY <3>1, <3>2, <3>3, <3>6 DEF Stands
    <2> QED BY <2>1, <2>2
  <1> QED BY <1>0, <1>6, <1>13, <1>15 DEF AllStand

\* SetLDTSelector, with the table so far.
LEMMA SetKeeps ==
    ASSUME NEW e, TableOK(e, known), AllStand(e, known, mine),
           NEW t \in Tid, NEW n \in Index, NEW base \in Base, NEW limit \in Limit,
           NEW inPages \in BOOLEAN, NEW really \in BOOLEAN,
           n \in known \/ (e[n].thread = t /\ e[n].number = 0),
           SetLDTSelector(e, t, n, base, limit, inPages, really)
    PROVE  /\ TableOK(entry', known') /\ AllStand(entry', known', mine')
           /\ SameOwners(e, entry') /\ RefusedForBase'
  <1> DEFINE c == CalculateLDTEntryForThread(e, t, n)
             ok == Accepted(base, Clamped(base, limit, inPages), inPages)
  <1>1. /\ TableOK(c.entry, known) /\ c.index \in Index \cup {0}
        /\ \A i \in Index : e[i].thread # 0 => c.entry[i] = e[i]
    <2>1. Calculated(e, known, t, n, c)
      BY Calculates
    <2> QED BY <2>1 DEF Calculated
  <1>2. AllStand(c.entry, known, mine) /\ SameOwners(e, c.entry)
    BY <1>1, StandStill DEF TableOK
  <1>3. CASE c.index = 0
    <2>1. entry' = c.entry /\ refused' = {} /\ known' = known /\ mine' = mine
      BY <1>3 DEF SetLDTSelector
    <2> QED BY <1>1, <1>2, <2>1 DEF RefusedForBase
  <1>4. CASE c.index # 0 /\ ~ok
    <2>1. /\ entry' = c.entry /\ known' = known /\ mine' = mine
          /\ refused' = {[base |-> base, inPages |-> inPages]}
      BY <1>4 DEF SetLDTSelector
    <2>2. ~Accepted(base, 0, inPages)
      BY <1>4, ClampFits, LdtConstants
    <2>3. RefusedForBase'
      BY <2>1, <2>2 DEF RefusedForBase, Accepted
    <2> QED BY <1>1, <1>2, <2>1, <2>3
  <1>5. CASE c.index # 0 /\ ok
    <2> DEFINE b == IF really \/ e[n].really THEN Unset ELSE base
    <2>1. /\ entry' = [c.entry EXCEPT ![c.index].number = n, ![c.index].base = base,
                                      ![c.index].really = really]
          /\ known' = known \cup {n} /\ mine' = [mine EXCEPT ![t][n] = b]
          /\ refused' = {}
      BY <1>5 DEF SetLDTSelector
    <2>2. c.entry \in [Index -> Datum] /\ c.index \in Index
      BY <1>1, <1>5 DEF TableOK
    <2>3. b \in Base \cup {Unset} /\ mine \in [Tid -> [Index -> Base \cup {Unset}]]
      BY DEF AllStand
    <2> HIDE DEF c, ok
    <2>a. PICK d : d = c
      OBVIOUS
    <2>b. PICK f, w : f = entry' /\ w = mine'
      OBVIOUS
    <2>4. /\ f \in [Index -> Datum]
          /\ f[d.index].thread = d.entry[d.index].thread
          /\ f[d.index].number = n /\ f[d.index].base = base
          /\ \A i \in Index : i # d.index => f[i] = d.entry[i]
      <3> DEFINE new == [d.entry[d.index] EXCEPT !.number = n, !.base = base,
                                                 !.really = really]
      <3>1. f = [d.entry EXCEPT ![d.index].number = n, ![d.index].base = base,
                                ![d.index].really = really]
        BY <2>1, <2>a, <2>b, Zenon
      <3>2. d.entry \in [Index -> Datum] /\ d.index \in Index
        BY <2>2, <2>a, Zenon
      <3>3. PICK o \in Datum : o = d.entry[d.index]
        BY <3>2
      <3>4. new \in Datum /\ new.thread = o.thread /\ new.number = n /\ new.base = base
        BY <3>3 DEF Datum
      <3>5. f = [d.entry EXCEPT ![d.index] = new]
        BY <3>1, <3>2 DEF Datum
      <3> HIDE DEF new
      <3>6. /\ [d.entry EXCEPT ![d.index] = new] \in [Index -> Datum]
            /\ [d.entry EXCEPT ![d.index] = new][d.index] = new
            /\ \A i \in Index : i # d.index =>
                  [d.entry EXCEPT ![d.index] = new][i] = d.entry[i]
        BY <3>2, <3>4, Changed
      <3> QED BY <3>3, <3>4, <3>5, <3>6, Zenon
    <2>5. /\ w \in [Tid -> [Index -> Base \cup {Unset}]] /\ w[t][n] = b
          /\ \A v \in Tid, l \in Index : (v = t /\ l = n) \/ w[v][l] = mine[v][l]
      <3> HIDE DEF b
      <3> QED BY <2>1, <2>3, <2>b, Remembered
    <2>6. /\ TableOK(f, known \cup {n}) /\ AllStand(f, known \cup {n}, w)
          /\ SameOwners(e, f)
      <3>1. d = CalculateLDTEntryForThread(e, t, n) /\ d.index # 0
        BY <1>5, <2>a DEF c
      <3>2. w[t][n] \in {Unset, base} /\ (e[n].really => w[t][n] = Unset)
        BY <2>5
      <3>3. Records(e, known, t, n, base, mine, d, f, w)
        BY <2>4, <2>5, <3>1, <3>2 DEF Records
      <3> QED BY <3>3, RecordKeeps
    <2> QED BY <2>1, <2>6, <2>b DEF RefusedForBase
  <1> QED BY <1>3, <1>4, <1>5

\* GS is the thread's own as long as the entries keep their owners.
LEMMA GsKept ==
    ASSUME gs \in [Tid -> Index \cup {0}], GsIsOwn, SameOwners(entry, entry'), gs' = gs
    PROVE  GsIsOwn'
  BY Numbers DEF GsIsOwn, SameOwners

-----------------------------------------------------------------------------
\* set_thread_area with a number, modify_ldt
LEMMA SetKnownStep ==
    ASSUME LdtInv, NEW t \in Tid, NEW n \in known, NEW base \in Base,
           NEW limit \in Limit, NEW inPages \in BOOLEAN, NEW really \in BOOLEAN,
           SetLDTSelector(entry, t, n, base, limit, inPages, really), UNCHANGED gs
    PROVE  LdtInv'
  <1>1. n \in Index
    BY DEF LdtInv, TableOK
  <1>2. /\ TableOK(entry', known') /\ AllStand(entry', known', mine')
        /\ SameOwners(entry, entry') /\ RefusedForBase'
    BY <1>1, SetKeeps DEF LdtInv
  <1> QED BY <1>2, GsKept DEF LdtInv

\* set_thread_area
LEMMA SetThreadAreaStep ==
    ASSUME LdtInv, NEW t \in Tid, NEW n \in known \cup {-1}, NEW base \in Base,
           NEW limit \in Limit, NEW inPages \in BOOLEAN,
           SetThreadArea(t, n, base, limit, inPages)
    PROVE  LdtInv'
  <1> DEFINE new == AllocateLDTSelector(entry, t, FALSE)
  <1>0. TableOK(entry, known) /\ entry \in [Index -> Datum] /\ known \subseteq Index
    BY DEF LdtInv, TableOK
  <1>1. CASE n # -1
    BY <1>1, SetKnownStep DEF SetThreadArea
  <1>2. CASE n = -1 /\ new.index = -1
    <2>1. UNCHANGED lvars
      BY <1>2 DEF SetThreadArea, lvars
    <2> QED BY <2>1 DEF lvars, LdtInv, GsIsOwn, RefusedForBase, Accepted
  <1>3. CASE n = -1 /\ new.index # -1
    <2>1. /\ SetLDTSelector(new.entry, t, new.index, base, limit, inPages, Free.really)
          /\ gs' = gs
      BY <1>3 DEF SetThreadArea, Free
    <2>f. new = AllocateLDTSelector(entry, t, Free.really)
      BY DEF Free
    <2> HIDE DEF new
    <2>a. PICK a : a = new
      OBVIOUS
    <2>g. a = AllocateLDTSelector(entry, t, Free.really)
      BY <2>a, <2>f
    <2>e. Free.really \in BOOLEAN /\ ~Free.really
      BY DEF Free
    <2>d. a.index # -1
      BY <1>3, <2>a
    <2>h. Allocated(entry, t, Free.really, a)
      BY <1>0, <2>d, <2>e, <2>g, Allocates
    <2>b. a.index \in Index /\ a.entry[a.index].thread = t
      BY <2>e, <2>h DEF Allocated
    <2>i. TableOK(entry, known)
      BY <1>0
    <2>c. /\ TableOK(a.entry, known) /\ a.entry[a.index].number = 0
          /\ \A j \in Index : entry[j].thread # 0 => a.entry[j] = entry[j]
      BY <2>h, <2>i, AllocateKeeps
    <2>3. AllStand(a.entry, known, mine) /\ SameOwners(entry, a.entry)
      BY <1>0, <2>c, StandStill DEF LdtInv
    <2>j. SetLDTSelector(a.entry, t, a.index, base, limit, inPages, Free.really)
      BY <2>1, <2>a
    <2>k. \/ a.index \in known
          \/ a.entry[a.index].thread = t /\ a.entry[a.index].number = 0
      BY <2>b, <2>c
    <2>4. /\ TableOK(entry', known') /\ AllStand(entry', known', mine')
          /\ SameOwners(a.entry, entry') /\ RefusedForBase'
      BY <2>b, <2>c, <2>3, <2>j, <2>k, <2>e, SetKeeps
    <2>5. SameOwners(entry, entry')
      BY <2>3, <2>4 DEF SameOwners
    <2> QED BY <2>1, <2>4, <2>5, GsKept DEF LdtInv
  <1> QED BY <1>1, <1>2, <1>3

\* A lookup that leaves the rest alone, and the trap that loads GS.
LEMMA LookupStep ==
    ASSUME LdtInv, NEW t \in Tid, NEW n \in known,
           GetThreadArea(t, n) \/ TrapGs(t, n)
    PROVE  LdtInv'
  <1> DEFINE c == CalculateLDTEntryForThread(entry, t, n)
  <1>0. TableOK(entry, known) /\ entry \in [Index -> Datum] /\ n \in Index
    BY DEF LdtInv, TableOK
  <1>1. /\ TableOK(c.entry, known) /\ c.index \in Index \cup {0}
        /\ \A i \in Index : entry[i].thread # 0 => c.entry[i] = entry[i]
        /\ c.index # 0 => c.entry[c.index].thread \in {t, Marker}
    <2>1. Calculated(entry, known, t, n, c)
      BY <1>0, Calculates
    <2> HIDE DEF c
    <2> QED BY <2>1 DEF Calculated
  <1>2. AllStand(c.entry, known, mine) /\ SameOwners(entry, c.entry)
    BY <1>0, <1>1, StandStill DEF LdtInv
  <1>3. entry' = c.entry /\ known' = known /\ mine' = mine /\ refused' = {}
    BY DEF GetThreadArea, GetLDTSelector, TrapGs
  <1>4. RefusedForBase'
    BY <1>3 DEF RefusedForBase
  <1> HIDE DEF c
  <1>5. CASE gs' = gs
    BY <1>1, <1>2, <1>3, <1>4, <1>5, GsKept DEF LdtInv
  <1>6. CASE gs' = [gs EXCEPT ![t] = c.index]
    <2>1. gs' \in [Tid -> Index \cup {0}]
      BY <1>1, <1>6 DEF LdtInv
    <2>2. ASSUME NEW v \in Tid, gs'[v] # 0
          PROVE  entry'[gs'[v]].thread \in {v, Marker}
      <3>1. CASE v = t
        <4>1. gs'[v] = c.index
          BY <1>6, <3>1 DEF LdtInv
        <4> QED BY <1>1, <1>3, <2>2, <3>1, <4>1
      <3>2. CASE v # t
        <4>1. gs'[v] = gs[v] /\ gs[v] \in Index
          BY <1>6, <2>2, <3>2 DEF LdtInv
        <4>2. entry[gs[v]].thread \in {v, Marker}
          BY <2>2, <4>1 DEF LdtInv, GsIsOwn
        <4> QED BY <1>2, <1>3, <4>1, <4>2, Numbers DEF SameOwners
      <3> QED BY <3>1, <3>2
    <2>3. GsIsOwn'
      BY <2>2 DEF GsIsOwn
    <2> QED BY <1>1, <1>2, <1>3, <1>4, <2>1, <2>3 DEF LdtInv
  <1> QED BY <1>5, <1>6 DEF GetThreadArea, TrapGs, c

LEMMA LdtInitInv == LdtInit => LdtInv
  <1> SUFFICES ASSUME LdtInit PROVE LdtInv
    OBVIOUS
  <1>1. Free \in Datum /\ Free.thread = 0 /\ Free.number = 0
    BY DEF Free, Datum
  <1>2. entry \in [Index -> Datum] /\ \A i \in Index : entry[i] = Free
    BY <1>1 DEF LdtInit
  <1>3. TableOK(entry, known)
    BY <1>1, <1>2 DEF LdtInit, TableOK
  <1>4. AllStand(entry, known, mine)
    BY DEF LdtInit, AllStand
  <1> QED BY <1>3, <1>4 DEF LdtInit, LdtInv, GsIsOwn, RefusedForBase

LEMMA LdtStepInv == LdtInv /\ [LdtNext]_lvars => LdtInv'
  <1> SUFFICES ASSUME LdtInv, [LdtNext]_lvars PROVE LdtInv'
    OBVIOUS
  <1>1. CASE UNCHANGED lvars
    BY <1>1 DEF lvars, LdtInv, GsIsOwn, RefusedForBase, Accepted
  <1>2. ASSUME NEW t \in Tid, NEW n \in known, NEW base \in Base, NEW limit \in Limit,
               NEW inPages \in BOOLEAN, ModifyLdt(t, n, base, limit, inPages)
        PROVE  LdtInv'
    BY <1>2, SetKnownStep DEF ModifyLdt
  <1> QED BY <1>1, <1>2, SetThreadAreaStep, LookupStep DEF LdtNext

LEMMA LdtInvariant == LdtSpec => []LdtInv
  BY LdtInitInv, LdtStepInv, PTL DEF LdtSpec

\* What stands for a number in a thread is what a lookup finds.
LEMMA FindsOwn == LdtInv => ReadsOwn
  <1> SUFFICES ASSUME LdtInv, NEW t \in Tid, NEW n \in known, mine[t][n] # Unset
               PROVE  GetLDTSelector(entry, t, n).base = mine[t][n]
    BY DEF ReadsOwn
  <1> DEFINE c == CalculateLDTEntryForThread(entry, t, n)
             own == {i \in Index : entry[i].number = n /\ entry[i].thread = t}
  <1>0. TableOK(entry, known) /\ entry \in [Index -> Datum] /\ n \in Index /\ n # 0
    BY Numbers DEF LdtInv, TableOK
  <1>1. PICK i \in Index :
            entry[i].thread = t /\ entry[i].number = n /\ entry[i].base = mine[t][n]
    BY <1>0 DEF LdtInv, AllStand, Stands
  <1>2. \A j \in own : j = i
    BY <1>0, <1>1, Numbers DEF TableOK
  <1>3. entry[n].number = n /\ entry[n].thread # 0
    BY <1>0 DEF TableOK
  <1>4. c.index = i /\ c.entry = entry
    <2>1. CASE entry[n].thread = t
      <3>1. c = [index |-> n, entry |-> entry]
        BY <1>0, <1>3, <2>1 DEF CalculateLDTEntryForThread
      <3>2. n \in own
        BY <1>0, <1>3, <2>1
      <3> QED BY <1>2, <3>1, <3>2
    <2>2. CASE entry[n].thread # t
      <3>1. own # {}
        BY <1>1
      <3>2. c = [index |-> Min(own), entry |-> entry]
        BY <1>0, <1>3, <2>2, <3>1 DEF CalculateLDTEntryForThread
      <3>3. Min(own) \in own
        BY <3>1, LeastOf
      <3>4. c.index = Min(own) /\ c.entry = entry
        BY <3>2
      <3>5. Min(own) = i
        BY <1>2, <3>3, Zenon
      <3> QED BY <3>4, <3>5, Zenon
    <2> QED BY <2>1, <2>2
  <1> HIDE DEF c
  <1>5. GetLDTSelector(entry, t, n).base =
            IF c.index = 0 THEN Unset ELSE c.entry[c.index].base
    BY DEF GetLDTSelector, c
  <1> QED BY <1>1, <1>4, <1>5, Numbers

-----------------------------------------------------------------------------
\* The entries, the numbers that programs know and GS keep their types.
THEOREM LdtTypeCorrect == LdtSpec => []LdtTypeOK
  <1>1. LdtInv => LdtTypeOK
    BY DEF LdtInv, TableOK, Datum, LdtTypeOK
  <1> QED BY <1>1, LdtInvariant, PTL

\* Whatever threads share the table, a thread reads back the area that it set,
\* GS is loaded with no other thread's entry, and Windows refuses a descriptor
\* only where it would refuse the smallest segment.
THEOREM AreasAreOwn == LdtSpec => []OwnAreas
  <1>1. LdtInv => OwnAreas
    BY FindsOwn DEF LdtInv, OwnAreas
  <1> QED BY <1>1, LdtInvariant, PTL

=============================================================================
