--------------------------- MODULE ConsoleProofs ---------------------------
(***************************************************************************)
(* Proofs about the console: its pipes are read as they were written, for  *)
(* any number of processes, any keys and settings, and pipes of any size.  *)
(*                                                                         *)
(* The first part is about functions that are computed from their last     *)
(* value, the second about the handler thread's loop over a key, the third *)
(* about the steps of the console.                                         *)
(***************************************************************************)
EXTENDS Console, SequenceTheorems, WellFoundedInduction, TLAPS

(* Functions that are computed from their last value                       *)

\* What holds of 0 and of each number after one it holds of, holds of all.
LEMMA UpToAll ==
    ASSUME NEW N \in Nat, NEW G, 0 \in G,
           \A n \in 1..N : n - 1 \in G => n \in G
    PROVE  \A n \in 0..N : n \in G
<1> DEFINE B == {n \in Nat : n \in 0..N /\ n \notin G}
<1>1. SUFFICES ASSUME B # {} PROVE FALSE
  OBVIOUS
<1>2. PICK m \in B : \A y \in B : ~(<<y, m>> \in OpToRel(<, Nat))
  BY <1>1, NatLessThanWellFounded, WFMin, Zenon
<1>3. m \in Nat /\ m \in 0..N /\ m \notin G /\ \A y \in B : ~(y < m)
  BY <1>2, Zenon DEF OpToRel
<1>4. m \in 1..N /\ m - 1 \in Nat /\ m - 1 \in 0..N /\ m - 1 < m
  BY <1>3
<1>5. m - 1 \in G
  BY <1>3, <1>4
<1> QED
  BY <1>3, <1>4, <1>5

\* The n-th value is in the n-th set of I: the first is, and each step leads
\* from one of them to the next.
Closed(N, I, a, step) ==
    /\ N \in Nat /\ a \in I[0]
    /\ \A n \in 1..N : \A t \in I[n - 1] : step[n][t] \in I[n]

Run(N, I, a, step, f) ==
    /\ f = [n \in 0..N |-> IF n = 0 THEN a ELSE step[n][f[n - 1]]]
    /\ \A n \in 0..N : f[n] \in I[n]

\* Such a function exists.
LEMMA RunExists ==
    ASSUME NEW N, NEW I, NEW a, NEW step, Closed(N, I, a, step)
    PROVE  \E f : Run(N, I, a, step, f)
<1> DEFINE G == {m \in 0..N : \E f : Run(m, I, a, step, f)}
<1>1. N \in Nat
  BY DEF Closed
<1>2. 0 \in G
  <2> DEFINE f == [n \in 0..0 |-> a]
  <2>1. f = [n \in 0..0 |-> IF n = 0 THEN a ELSE step[n][f[n - 1]]]
    OBVIOUS
  <2>2. \A n \in 0..0 : f[n] \in I[n]
    BY DEF Closed
  <2> HIDE DEF f
  <2>3. \E g : Run(0, I, a, step, g)
    BY <2>1, <2>2 DEF Run
  <2> QED
    BY <1>1, <2>3
<1>3. ASSUME NEW m \in 1..N, m - 1 \in G PROVE m \in G
  <2>1. PICK f : Run(m - 1, I, a, step, f)
    BY <1>3
  <2> DEFINE g == [n \in 0..m |-> IF n = m THEN step[m][f[m - 1]] ELSE f[n]]
  <2>2. \A n \in 0..m : g[n] = IF n = 0 THEN a ELSE step[n][g[n - 1]]
    <3> TAKE n \in 0..m
    <3>1. CASE n = m
      BY <1>1, <3>1
    <3>2. CASE n # m
      <4>1. n \in 0..(m - 1) /\ n \in 0..m /\ (n # 0 => n - 1 \in 0..m /\ n - 1 # m)
        BY <1>1, <3>2
      <4>2. f[n] = IF n = 0 THEN a ELSE step[n][f[n - 1]]
        BY <2>1, <4>1 DEF Run
      <4> QED
        BY <3>2, <4>1, <4>2
    <3> QED
      BY <3>1, <3>2
  <2>3. \A n \in 0..m : g[n] \in I[n]
    BY <1>1, <2>1 DEF Run, Closed
  <2>4. g = [n \in 0..m |-> g[n]]
    OBVIOUS
  <2> HIDE DEF g
  <2>5. Run(m, I, a, step, g)
    BY <2>2, <2>3, <2>4, Zenon DEF Run
  <2> QED
    BY <2>5
<1>4. N \in G
  <2> HIDE DEF G
  <2>1. \A n \in 0..N : n \in G
    BY <1>1, <1>2, <1>3, UpToAll
  <2> QED
    BY <1>1, <2>1
<1> QED
  BY <1>4

\* And any function that starts and steps like it stays in the sets.
LEMMA RunStays ==
    ASSUME NEW N, NEW I, NEW a, NEW step, Closed(N, I, a, step),
           NEW u, u[0] = a,
           \A n \in 1..N : u[n - 1] \in I[n - 1] => u[n] = step[n][u[n - 1]]
    PROVE  \A n \in 0..N : u[n] \in I[n]
<1> DEFINE G == {n \in 0..N : u[n] \in I[n]}
<1>1. N \in Nat /\ 0 \in G
  BY DEF Closed
<1>2. ASSUME NEW n \in 1..N, n - 1 \in G PROVE n \in G
  BY <1>2, <1>1 DEF Closed
<1>3. \A n \in 0..N : n \in G
  <2> HIDE DEF G
  <2> QED
    BY <1>1, <1>2, UpToAll
<1> QED
  BY <1>3

-----------------------------------------------------------------------------
(* The handler thread's loop                                               *)

CookStates == [buf : Seq(Nat), i : Nat, echo : Nat, intr : BOOLEAN]

\* A character that no setting turns into another, into two or into none.
Plain(c) == c % 64 \notin {NL, CR}
Cooked(c) == Lower(Strip(c))

\* Characters stay characters, and a plain one is no CR and no NL after ISTRIP.
LEMMA CookedType ==
    ASSUME NEW c \in Nat
    PROVE  /\ Strip(c) \in Nat /\ Cooked(c) \in Nat
           /\ Plain(c) => Strip(c) \notin {NL, CR}
           /\ Strip(c) \in {NL, CR} => Cooked(c) = Strip(c)
<1>1. c % 64 \in Nat /\ (c \in {NL, CR} => c % 64 \in {NL, CR})
  BY DEF NL, CR
<1>2. Strip(c) \in Nat /\ (Plain(c) => Strip(c) \notin {NL, CR})
  BY <1>1 DEF Strip, Plain
<1> HIDE DEF Strip
<1> QED
  BY <1>2 DEF Cooked, Lower, NL, CR

\* A turn of the loop, by the parts of CookOne.
Turn(t, strip, buf, p, new) ==
    /\ strip = [t.buf EXCEPT ![t.i + 1] = Strip(t.buf[t.i + 1])]
    /\ buf = Discard(strip, t.i + 1)
    /\ p = IF t.i + 1 <= Len(buf) THEN buf[t.i + 1] ELSE strip[t.i + 1]
    /\ new = Inserted(buf, t.i + 1, p)
    /\ CookOne(t).buf = IF t.i + 1 <= Len(buf)
                        THEN [new EXCEPT ![t.i + 1] = Lower(new[t.i + 1])] ELSE new
    /\ CookOne(t).i = t.i + 1 + Len(Doubled(p))
    /\ CookOne(t).echo \in {t.echo, t.echo + 1}
    /\ CookOne(t).intr \in BOOLEAN
    /\ CookOne(t) = [buf |-> CookOne(t).buf, i |-> CookOne(t).i,
                     echo |-> CookOne(t).echo, intr |-> CookOne(t).intr]

\* Every turn of the loop is of that form.
LEMMA TurnIs ==
    ASSUME NEW t \in CookStates
    PROVE  \E strip, buf, p, new : Turn(t, strip, buf, p, new)
<1> DEFINE at == t.i + 1
           strip == [t.buf EXCEPT ![at] = Strip(@)]
           buf == Discard(strip, at)
           p == IF at <= Len(buf) THEN buf[at] ELSE strip[at]
           new == Inserted(buf, at, p)
           sig == Interrupts(p) /\ \E c \in Client : c = group
           last == IF at <= Len(buf) THEN [new EXCEPT ![at] = Lower(@)] ELSE new
           echo == t.echo + (IF "ECHO" \in termios /\ ~sig THEN 1 ELSE 0)
           intr_ == t.intr \/ Interrupts(p)
<1> HIDE DEF at, strip, buf, p, new, sig, last, echo, intr_
<1>1. CookOne(t) = [buf |-> last, i |-> at + Len(Doubled(p)), echo |-> echo, intr |-> intr_]
  BY DEF CookOne, at, strip, buf, p, new, sig, last, echo, intr_
<1>2. CookOne(t).echo \in {t.echo, t.echo + 1} /\ CookOne(t).intr \in BOOLEAN
  <2>1. t.echo \in Nat /\ intr_ \in BOOLEAN
    BY DEF CookStates, intr_
  <2>2. echo \in {t.echo, t.echo + 1}
    BY <2>1 DEF echo
  <2> QED
    BY <1>1, <2>1, <2>2
<1>3. strip = [t.buf EXCEPT ![at] = Strip(t.buf[at])]
  BY DEF strip
<1>4. last = IF at <= Len(buf) THEN [new EXCEPT ![at] = Lower(new[at])] ELSE new
  BY DEF last
<1>5. Turn(t, strip, buf, p, new)
  BY <1>1, <1>2, <1>3, <1>4 DEF Turn, at, buf, p, new
<1> QED
  BY <1>5

\* What a turn starts from: a position in the buffer.
LEMMA TurnStrips ==
    ASSUME NEW t \in CookStates, t.i < Len(t.buf),
           NEW strip, NEW buf, NEW p, NEW new, Turn(t, strip, buf, p, new)
    PROVE  /\ strip \in Seq(Nat) /\ Len(strip) = Len(t.buf)
           /\ strip[t.i + 1] = Strip(t.buf[t.i + 1])
           /\ \A j \in 1..Len(t.buf) : j # t.i + 1 => strip[j] = t.buf[j]
           /\ t.buf \in Seq(Nat) /\ t.i \in Nat /\ t.echo \in Nat
           /\ t.i + 1 \in 1..Len(t.buf) /\ t.buf[t.i + 1] \in Nat
<1>1. t.buf \in Seq(Nat) /\ t.i \in Nat /\ t.echo \in Nat
  BY DEF CookStates
<1>2. t.i + 1 \in 1..Len(t.buf) /\ t.buf[t.i + 1] \in Nat
  BY <1>1
<1>3. Strip(t.buf[t.i + 1]) \in Nat
  BY <1>2, CookedType, Zenon
<1>4. strip = [t.buf EXCEPT ![t.i + 1] = Strip(t.buf[t.i + 1])]
  BY Zenon DEF Turn
<1> QED
  BY <1>1, <1>2, <1>3, <1>4

\* A turn at a plain character changes it where it is, and goes on.
LEMMA PlainTurn ==
    ASSUME NEW t \in CookStates, t.i < Len(t.buf), Plain(t.buf[t.i + 1])
    PROVE  /\ CookOne(t) \in CookStates
           /\ CookOne(t).i = t.i + 1 /\ CookOne(t).echo \in {t.echo, t.echo + 1}
           /\ Len(CookOne(t).buf) = Len(t.buf)
           /\ CookOne(t).buf[t.i + 1] = Cooked(t.buf[t.i + 1])
           /\ \A j \in 1..Len(t.buf) : j # t.i + 1 => CookOne(t).buf[j] = t.buf[j]
<1>1. PICK strip, buf, p, new : Turn(t, strip, buf, p, new)
  BY TurnIs
<1>2. /\ strip \in Seq(Nat) /\ Len(strip) = Len(t.buf)
      /\ strip[t.i + 1] = Strip(t.buf[t.i + 1])
      /\ \A j \in 1..Len(t.buf) : j # t.i + 1 => strip[j] = t.buf[j]
      /\ t.buf \in Seq(Nat) /\ t.i \in Nat /\ t.echo \in Nat
      /\ t.i + 1 \in 1..Len(t.buf) /\ t.buf[t.i + 1] \in Nat
  BY <1>1, TurnStrips
<1>3. strip[t.i + 1] \notin {NL, CR} /\ Cooked(t.buf[t.i + 1]) \in Nat
  BY <1>2, CookedType, Zenon
<1>4. buf = strip /\ t.i + 1 <= Len(buf)
  <2>1. buf = Discard(strip, t.i + 1)
    BY <1>1, Zenon DEF Turn
  <2>2. buf = strip
    BY <2>1, <1>3 DEF Discard
  <2> QED
    BY <2>2, <1>2
<1>5. p = strip[t.i + 1] /\ Doubled(p) = <<>>
  BY <1>1, <1>3, <1>4, Zenon DEF Turn, Doubled
<1>6. new = strip
  BY <1>1, <1>4, <1>5, Zenon DEF Turn, Inserted
<1>7. CookOne(t).buf = [strip EXCEPT ![t.i + 1] = Cooked(t.buf[t.i + 1])]
  BY <1>1, <1>2, <1>4, <1>6, Zenon DEF Turn, Cooked
<1>8. /\ CookOne(t).buf \in Seq(Nat) /\ Len(CookOne(t).buf) = Len(t.buf)
      /\ CookOne(t).buf[t.i + 1] = Cooked(t.buf[t.i + 1])
      /\ \A j \in 1..Len(t.buf) : j # t.i + 1 => CookOne(t).buf[j] = t.buf[j]
  BY <1>2, <1>3, <1>7
<1>9. CookOne(t).i = t.i + 1 /\ CookOne(t).echo \in {t.echo, t.echo + 1}
  <2>1. /\ CookOne(t).i = t.i + 1 + Len(Doubled(p))
        /\ CookOne(t).echo \in {t.echo, t.echo + 1}
    BY <1>1, Zenon DEF Turn
  <2> QED
    BY <2>1, <1>2, <1>5
<1>10. CookOne(t) \in CookStates
  <2>1. /\ CookOne(t).intr \in BOOLEAN
        /\ CookOne(t) = [buf |-> CookOne(t).buf, i |-> CookOne(t).i,
                         echo |-> CookOne(t).echo, intr |-> CookOne(t).intr]
    BY <1>1, Zenon DEF Turn
  <2>2. CookOne(t).i \in Nat /\ CookOne(t).echo \in Nat
    BY <1>2, <1>9
  <2> QED
    BY <2>1, <2>2, <1>8 DEF CookStates
<1> QED
  BY <1>8, <1>9, <1>10

\* Numbers below n + 1.
LEMMA Below ==
    ASSUME NEW n \in Nat, NEW m, m = n + 1, NEW j \in 1..n
    PROVE  j \in 1..m /\ j # n + 1
OBVIOUS

\* A sequence with one more element.
LEMMA JoinLast ==
    ASSUME NEW S, NEW f \in Seq(S), NEW x \in S, NEW g \in Seq(S), Len(g) = Len(f) + 1,
           \A j \in 1..Len(f) : g[j] = f[j], g[Len(f) + 1] = x
    PROVE  f \o <<x>> = g
<1> DEFINE h == f \o <<x>>
<1>1. /\ h \in Seq(S) /\ Len(h) = Len(f) + 1 /\ h[Len(f) + 1] = x
      /\ \A j \in 1..Len(f) : h[j] = f[j]
  OBVIOUS
<1> HIDE DEF h
<1>2. ASSUME NEW j \in 1..Len(h) PROVE h[j] = g[j]
  BY <1>1
<1>3. h = g
  BY <1>1, <1>2, SeqEqual
<1> QED
  BY <1>3 DEF h

\* The last element of a sequence, and f, what is before it.
IsFront(S, b, i, f) ==
    /\ f \in Seq(S) /\ Len(f) = i /\ \A j \in 1..i : f[j] = b[j]
    /\ RemoveAt(b, i + 1) = f
    /\ \A x \in S : [b EXCEPT ![i + 1] = x] = f \o <<x>>
    /\ \A x \in S : Append(b, x) = f \o <<b[i + 1], x>>

\* Any sequence that is not empty has them.
LEMMA FrontAndLast ==
    ASSUME NEW S, NEW b \in Seq(S), NEW i \in Nat, Len(b) = i + 1
    PROVE  IsFront(S, b, i, SubSeq(b, 1, i))
<1> DEFINE f == SubSeq(b, 1, i)
<1>1. f \in Seq(S) /\ Len(f) = i /\ \A j \in 1..i : f[j] = b[j]
  OBVIOUS
<1>2. RemoveAt(b, i + 1) = f
  <2>1. (i + 1) - 1 = i /\ i + 1 + 1 > Len(b)
    OBVIOUS
  <2>2. SubSeq(b, i + 1 + 1, Len(b)) = <<>>
    BY <2>1, SubSeqEmpty
  <2>3. RemoveAt(b, i + 1) = f \o <<>>
    BY <2>1, <2>2 DEF RemoveAt
  <2> QED
    BY <1>1, <2>3, ConcatEmptySeq
<1>3. ASSUME NEW x \in S PROVE [b EXCEPT ![i + 1] = x] = f \o <<x>>
  <2> DEFINE g == [b EXCEPT ![i + 1] = x]
             h == f \o <<x>>
  <2>1. g \in Seq(S) /\ Len(g) = i + 1 /\ \A j \in 1..(i + 1) : g[j] = IF j = i + 1 THEN x ELSE b[j]
    OBVIOUS
  <2>2. h \in Seq(S) /\ Len(h) = i + 1 /\ \A j \in 1..(i + 1) : h[j] = IF j = i + 1 THEN x ELSE b[j]
    <3> HIDE DEF f
    <3> QED
      BY <1>1
  <2> HIDE DEF g, h
  <2>3. g = h
    BY <2>1, <2>2, SeqEqual
  <2> QED
    BY <2>3 DEF g, h
<1>4. ASSUME NEW x \in S PROVE Append(b, x) = f \o <<b[i + 1], x>>
  <2> DEFINE g == Append(b, x)
             h == f \o <<b[i + 1], x>>
  <2>1. g \in Seq(S) /\ Len(g) = i + 2 /\ \A j \in 1..(i + 2) : g[j] = IF j = i + 2 THEN x ELSE b[j]
    OBVIOUS
  <2>2. h \in Seq(S) /\ Len(h) = i + 2 /\ \A j \in 1..(i + 2) : h[j] = IF j = i + 2 THEN x ELSE b[j]
    <3>1. b[i + 1] \in S
      OBVIOUS
    <3> HIDE DEF f
    <3> QED
      BY <1>1, <3>1
  <2> HIDE DEF g, h
  <2>3. g = h
    BY <2>1, <2>2, SeqEqual
  <2> QED
    BY <2>3 DEF g, h
<1> HIDE DEF f
<1>5. IsFront(S, b, i, f)
  BY <1>1, <1>2, <1>3, <1>4 DEF IsFront
<1> QED
  BY <1>5 DEF f

\* A turn at the last character leaves there what the character stands for.
LEMMA LastTurn ==
    ASSUME NEW t \in CookStates, t.i + 1 = Len(t.buf),
           ~({"IGNCR", "ICRNL"} \subseteq termios)
    PROVE  /\ CookOne(t).buf = SubSeq(t.buf, 1, t.i) \o MeaningOf(t.buf[t.i + 1])
           /\ CookOne(t).echo \in {t.echo, t.echo + 1}
<1> DEFINE front == SubSeq(t.buf, 1, t.i)
           c == t.buf[t.i + 1]
<1>0. t.i < Len(t.buf)
  BY DEF CookStates
<1>1. PICK strip, buf, p, new : Turn(t, strip, buf, p, new)
  BY TurnIs
<1>2. /\ strip \in Seq(Nat) /\ Len(strip) = Len(t.buf)
      /\ strip[t.i + 1] = Strip(c)
      /\ \A j \in 1..Len(t.buf) : j # t.i + 1 => strip[j] = t.buf[j]
      /\ t.buf \in Seq(Nat) /\ t.i \in Nat /\ t.echo \in Nat
      /\ t.i + 1 \in 1..Len(t.buf) /\ c \in Nat
  BY <1>0, <1>1, TurnStrips
<1>3. Strip(c) \in Nat /\ Cooked(c) \in Nat /\ (Strip(c) \in {NL, CR} => Cooked(c) = Strip(c))
  BY <1>2, CookedType, Zenon
<1>a. Len(t.buf) = t.i + 1 /\ Len(strip) = t.i + 1
  BY <1>2
<1>4. /\ front \in Seq(Nat) /\ Len(front) = t.i
      /\ front = SubSeq(strip, 1, t.i)
      /\ RemoveAt(strip, t.i + 1) = front
      /\ \A x \in Nat : [strip EXCEPT ![t.i + 1] = x] = front \o <<x>>
      /\ \A x \in Nat : Append(strip, x) = front \o <<Strip(c), x>>
  <2> DEFINE g == SubSeq(strip, 1, t.i)
  <2>a. IsFront(Nat, t.buf, t.i, front) /\ IsFront(Nat, strip, t.i, g)
    BY <1>a, <1>2, FrontAndLast
  <2> HIDE DEF front, g
  <2>1. front \in Seq(Nat) /\ Len(front) = t.i /\ \A j \in 1..t.i : front[j] = t.buf[j]
    BY <2>a DEF IsFront
  <2>2. /\ g \in Seq(Nat) /\ Len(g) = t.i /\ \A j \in 1..t.i : g[j] = strip[j]
        /\ RemoveAt(strip, t.i + 1) = g
        /\ \A x \in Nat : [strip EXCEPT ![t.i + 1] = x] = g \o <<x>>
        /\ \A x \in Nat : Append(strip, x) = g \o <<strip[t.i + 1], x>>
    BY <2>a, Zenon DEF IsFront
  <2>3. ASSUME NEW j \in 1..t.i PROVE strip[j] = t.buf[j]
    <3>1. j \in 1..Len(t.buf) /\ j # t.i + 1
      BY <1>a, <1>2, Below, Zenon
    <3> QED
      BY <3>1, <1>2
  <2> HIDE DEF c
  <2>4. front = g
    BY <2>1, <2>2, <2>3, SeqEqual
  <2> QED
    BY <1>2, <2>1, <2>2, <2>4, Zenon DEF g
<1> HIDE DEF front, c
<1>5. CookOne(t).echo \in {t.echo, t.echo + 1}
  BY <1>1, Zenon DEF Turn
<1>6. CASE "IGNCR" \in termios /\ Strip(c) = CR
  <2>1. buf = RemoveAt(strip, t.i + 1)
    BY <1>1, <1>2, <1>6, Zenon DEF Turn, Discard
  <2>5. buf = front
    BY <2>1, <1>4
  <2>6. ~(t.i + 1 <= Len(buf))
    BY <1>2, <1>4, <2>5
  <2>7. p = CR
    BY <1>1, <1>2, <1>6, <2>6 DEF Turn
  <2>8. Doubled(p) = <<>>
    BY <1>6, <2>7 DEF Doubled, NL, CR
  <2>9. new = front /\ CookOne(t).buf = new
    BY <1>1, <2>5, <2>6, <2>8 DEF Turn, Inserted
  <2>10. MeaningOf(c) = <<>>
    BY <1>6 DEF MeaningOf, NL, CR
  <2>11. front \o <<>> = front
    BY <1>4
  <2> QED
    BY <1>5, <2>9, <2>10, <2>11 DEF front, c
<1>7. CASE ~("IGNCR" \in termios /\ Strip(c) = CR)
  <2>1. buf = strip /\ t.i + 1 <= Len(buf) /\ Len(buf) = t.i + 1
    <3>1. buf = Discard(strip, t.i + 1)
      BY <1>1, Zenon DEF Turn
    <3>2. buf = strip
      BY <3>1, <1>2, <1>7 DEF Discard
    <3> QED
      BY <3>2, <1>a, <1>2
  <2>2. p = Strip(c) /\ new = Inserted(strip, t.i + 1, Strip(c))
    BY <1>1, <1>2, <2>1, Zenon DEF Turn
  <2>3. CookOne(t).buf = [new EXCEPT ![t.i + 1] = Lower(new[t.i + 1])]
    BY <1>1, <2>1, Zenon DEF Turn
  <2>4. CASE Doubled(p) = <<>>
    <3>1. new = strip
      BY <2>2, <2>4 DEF Inserted
    <3>2. CookOne(t).buf = [strip EXCEPT ![t.i + 1] = Cooked(c)]
      BY <1>2, <2>3, <3>1, Zenon DEF Cooked
    <3>3. MeaningOf(c) = <<Cooked(c)>>
      BY <1>7, <2>2, <2>4 DEF MeaningOf, Doubled, Cooked
    <3>4. [strip EXCEPT ![t.i + 1] = Cooked(c)] = front \o <<Cooked(c)>>
      BY <1>3, <1>4, Zenon
    <3> QED
      BY <1>5, <3>2, <3>3, <3>4, Zenon DEF front, c
  <2>5. CASE Doubled(p) # <<>>
    <3> DEFINE d == Doubled(p)[1]
    <3>1. /\ Doubled(p) = <<d>> /\ d \in Nat /\ Strip(c) \in {NL, CR}
          /\ MeaningOf(c) = <<Strip(c), d>>
      BY <1>7, <2>2, <2>5 DEF Doubled, MeaningOf, NL, CR
    <3> HIDE DEF d
    <3>2. new = Append(strip, d)
      <4>1. ~(t.i + 1 > Len(strip)) /\ t.i + 1 = Len(strip)
        BY <1>2, <1>a
      <4>2. new = Insert(strip, t.i + 1, d)
        BY <4>1, <2>2, <2>5 DEF Inserted, d
      <4> QED
        BY <4>1, <4>2 DEF Insert
    <3>3. Lower(Strip(c)) = Strip(c)
      BY <1>3, <3>1 DEF Cooked
    <3>4. new[t.i + 1] = Strip(c) /\ new \in Seq(Nat) /\ Len(new) = t.i + 2 /\ new[t.i + 2] = d
      <4>1. Len(strip) + 1 = t.i + 2 /\ t.i + 1 \in 1..Len(strip)
        BY <1>a, <1>2
      <4>2. /\ new \in Seq(Nat) /\ Len(new) = Len(strip) + 1
            /\ \A j \in 1..Len(strip) : new[j] = strip[j]
            /\ new[Len(strip) + 1] = d
        BY <1>2, <3>1, <3>2, AppendProperties
      <4> QED
        BY <1>2, <4>1, <4>2, Zenon
    <3>5. CookOne(t).buf = new
      BY <1>2, <2>3, <3>3, <3>4
    <3>6. new = front \o <<Strip(c), d>>
      BY <1>4, <3>1, <3>2, Zenon
    <3> QED
      BY <1>5, <3>1, <3>5, <3>6 DEF front, c
  <2> QED
    BY <2>4, <2>5, Zenon
<1> QED
  BY <1>6, <1>7, Zenon

\* A key as the console program sends it: plain characters and a last one.
IsKey(k) ==
    /\ k \in Seq(Nat) /\ Len(k) >= 1
    /\ \A j \in 1..(Len(k) - 1) : Plain(k[j])

CookedFront(k, n) == [j \in 1..n |-> Cooked(k[j])]

\* The loop of Cook, and its state after n turns.
CookTurn(t) == IF t.i >= Len(t.buf) THEN t ELSE CookOne(t)

CookUpto(k) ==
    CHOOSE upto : upto = [n \in 0..Len(k) |->
        IF n = 0 THEN [buf |-> k, i |-> 0, echo |-> 0, intr |-> FALSE]
        ELSE LET t == upto[n - 1]
             IN  IF t.i >= Len(t.buf) THEN t ELSE CookOne(t)]

MidKey(k, n) ==
    {t \in CookStates : /\ t.i = n /\ t.echo <= n /\ Len(t.buf) = Len(k)
                        /\ \A j \in 1..Len(k) :
                              t.buf[j] = IF j <= n THEN Cooked(k[j]) ELSE k[j]}

KeyStates(k) ==
    [n \in 0..Len(k) |-> IF n < Len(k) THEN MidKey(k, n)
                         ELSE {CookOne(t) : t \in MidKey(k, n - 1)}]

KeySteps(k) == [n \in 1..Len(k) |-> [t \in KeyStates(k)[n - 1] |-> CookTurn(t)]]

KeyStart(k) == [buf |-> k, i |-> 0, echo |-> 0, intr |-> FALSE]

\* The turns lead from each set of states to the next.
LEMMA KeyTurn ==
    ASSUME NEW k, IsKey(k), NEW n \in 1..Len(k), NEW t \in KeyStates(k)[n - 1]
    PROVE  CookTurn(t) = CookOne(t) /\ CookOne(t) \in KeyStates(k)[n]
<1>1. k \in Seq(Nat) /\ Len(k) \in Nat /\ n \in Nat
  BY DEF IsKey
<1>2. n - 1 \in 0..Len(k) /\ n - 1 < Len(k) /\ n \in 0..Len(k) /\ n - 1 + 1 = n /\ n - 1 \in Nat
  BY <1>1
<1>3. t \in MidKey(k, n - 1)
  BY <1>2 DEF KeyStates
<1>4. /\ t \in CookStates /\ t.i = n - 1 /\ t.echo <= n - 1 /\ Len(t.buf) = Len(k)
      /\ \A j \in 1..Len(k) : t.buf[j] = IF j <= n - 1 THEN Cooked(k[j]) ELSE k[j]
  BY <1>3 DEF MidKey
<1>5. t.i < Len(t.buf) /\ CookTurn(t) = CookOne(t)
  BY <1>1, <1>2, <1>4 DEF CookTurn
<1>6. CASE n = Len(k)
  BY <1>2, <1>3, <1>5, <1>6 DEF KeyStates
<1>7. CASE n # Len(k)
  <2>1. n < Len(k) /\ n \in 1..(Len(k) - 1) /\ t.buf[n] = k[n]
    BY <1>1, <1>4, <1>7
  <2>2. Plain(t.buf[t.i + 1])
    BY <2>1, <1>2, <1>4 DEF IsKey
  <2>3. /\ CookOne(t) \in CookStates
        /\ CookOne(t).i = t.i + 1 /\ CookOne(t).echo \in {t.echo, t.echo + 1}
        /\ Len(CookOne(t).buf) = Len(t.buf)
        /\ CookOne(t).buf[t.i + 1] = Cooked(t.buf[t.i + 1])
        /\ \A j \in 1..Len(t.buf) : j # t.i + 1 => CookOne(t).buf[j] = t.buf[j]
    BY <1>4, <1>5, <2>2, PlainTurn
  <2> DEFINE u == CookOne(t)
  <2> HIDE DEF u
  <2>4. /\ u.i = n /\ Len(u.buf) = Len(k) /\ u.buf[n] = Cooked(k[n])
        /\ \A j \in 1..Len(k) : j # n => u.buf[j] = t.buf[j]
    BY <1>2, <1>4, <2>1, <2>3 DEF u
  <2>5. u.echo <= n
    <3>1. t.echo \in Nat
      BY <1>4 DEF CookStates
    <3> QED
      BY <3>1, <1>1, <1>4, <2>3 DEF u
  <2>6. ASSUME NEW j \in 1..Len(k) PROVE u.buf[j] = IF j <= n THEN Cooked(k[j]) ELSE k[j]
    BY <1>1, <1>4, <2>4
  <2>7. u \in MidKey(k, n)
    BY <2>3, <2>4, <2>5, <2>6 DEF MidKey, u
  <2> QED
    BY <1>2, <1>5, <2>1, <2>7 DEF KeyStates, u
<1> QED
  BY <1>6, <1>7

\* The loop starts in the first set.
LEMMA KeyClosed ==
    ASSUME NEW k, IsKey(k)
    PROVE  Closed(Len(k), KeyStates(k), KeyStart(k), KeySteps(k))
<1>1. k \in Seq(Nat) /\ Len(k) \in Nat /\ 0 < Len(k)
  BY DEF IsKey
<1>2. KeyStart(k) \in MidKey(k, 0)
  BY <1>1 DEF KeyStart, MidKey, CookStates
<1>3. KeyStart(k) \in KeyStates(k)[0]
  BY <1>1, <1>2 DEF KeyStates
<1>4. ASSUME NEW n \in 1..Len(k), NEW t \in KeyStates(k)[n - 1]
      PROVE  KeySteps(k)[n][t] \in KeyStates(k)[n]
  <2>1. KeySteps(k)[n][t] = CookTurn(t)
    BY DEF KeySteps
  <2> QED
    BY <2>1, KeyTurn
<1> QED
  BY <1>1, <1>3, <1>4 DEF Closed

\* The function that Cook computes exists, and goes turn by turn.
LEMMA CookUptoIs ==
    ASSUME NEW k, IsKey(k)
    PROVE  /\ CookUpto(k)[0] = KeyStart(k)
           /\ \A n \in 1..Len(k) : CookUpto(k)[n] = CookTurn(CookUpto(k)[n - 1])
<1>1. PICK f : Run(Len(k), KeyStates(k), KeyStart(k), KeySteps(k), f)
  BY KeyClosed, RunExists
<1>2. Len(k) \in Nat
  BY DEF IsKey
<1>3. ASSUME NEW n \in 0..Len(k)
      PROVE  f[n] = IF n = 0 THEN KeyStart(k) ELSE CookTurn(f[n - 1])
  <2>1. f[n] = IF n = 0 THEN KeyStart(k) ELSE KeySteps(k)[n][f[n - 1]]
    BY <1>1 DEF Run
  <2>2. CASE n = 0
    BY <2>1, <2>2
  <2>3. CASE n # 0
    <3>1. n \in 1..Len(k) /\ n - 1 \in 0..Len(k)
      BY <1>2, <2>3
    <3>2. f[n - 1] \in KeyStates(k)[n - 1]
      BY <1>1, <3>1 DEF Run
    <3>3. KeySteps(k)[n][f[n - 1]] = CookTurn(f[n - 1])
      BY <3>1, <3>2 DEF KeySteps
    <3> QED
      BY <2>1, <2>3, <3>3
  <2> QED
    BY <2>2, <2>3
<1>4. f = [n \in 0..Len(k) |-> f[n]]
  BY <1>1 DEF Run
<1>5. f = [n \in 0..Len(k) |->
           IF n = 0 THEN [buf |-> k, i |-> 0, echo |-> 0, intr |-> FALSE]
           ELSE LET t == f[n - 1] IN IF t.i >= Len(t.buf) THEN t ELSE CookOne(t)]
  BY <1>3, <1>4, Zenon DEF KeyStart, CookTurn
<1>6. CookUpto(k) = [n \in 0..Len(k) |->
           IF n = 0 THEN [buf |-> k, i |-> 0, echo |-> 0, intr |-> FALSE]
           ELSE LET t == CookUpto(k)[n - 1]
                IN  IF t.i >= Len(t.buf) THEN t ELSE CookOne(t)]
  BY <1>5, Zenon DEF CookUpto
<1> DEFINE u == CookUpto(k)
<1> HIDE DEF u
<1>7. u = [n \in 0..Len(k) |-> IF n = 0 THEN KeyStart(k) ELSE CookTurn(u[n - 1])]
  BY <1>6, Zenon DEF KeyStart, CookTurn, u
<1>8. u[0] = KeyStart(k) /\ \A n \in 1..Len(k) : u[n] = CookTurn(u[n - 1])
  <2>1. 0 \in 0..Len(k) /\ \A n \in 1..Len(k) : n \in 0..Len(k) /\ n # 0
    BY <1>2
  <2> QED
    BY <1>7, <2>1
<1> QED
  BY <1>8 DEF u

\* What the first n characters of a key become.
LEMMA FrontType ==
    ASSUME NEW k, IsKey(k), NEW n \in 0..Len(k)
    PROVE  /\ CookedFront(k, n) \in Seq(Nat) /\ Len(CookedFront(k, n)) = n
           /\ \A j \in 1..n : CookedFront(k, n)[j] = Cooked(k[j])
<1>1. k \in Seq(Nat) /\ Len(k) \in Nat /\ n \in Nat
  BY DEF IsKey
<1>2. ASSUME NEW j \in 1..n PROVE Cooked(k[j]) \in Nat
  <2>1. k[j] \in Nat
    BY <1>1
  <2> QED
    BY <2>1, CookedType, Zenon
<1> QED
  BY <1>1, <1>2 DEF CookedFront

\* What the loop makes of a key.
LEMMA KeyCooked ==
    ASSUME NEW k, IsKey(k), ~({"IGNCR", "ICRNL"} \subseteq termios)
    PROVE  /\ Cook(k).buf = CookedFront(k, Len(k) - 1) \o MeaningOf(k[Len(k)])
           /\ Cook(k).echo \in 0..Len(k)
<1> DEFINE N == Len(k)
           u == CookUpto(k)
<1>1. k \in Seq(Nat) /\ N \in Nat /\ N >= 1
  BY DEF IsKey
<1>2. u[0] = KeyStart(k) /\ \A n \in 1..N : u[n] = CookTurn(u[n - 1])
  BY CookUptoIs
<1>3. Cook(k) = u[N]
  BY DEF Cook, CookUpto
<1> HIDE DEF N, u
<1>4. u[N] \in KeyStates(k)[N]
  <2>1. Closed(N, KeyStates(k), KeyStart(k), KeySteps(k))
    BY KeyClosed DEF N
  <2>2. ASSUME NEW n \in 1..N, u[n - 1] \in KeyStates(k)[n - 1]
        PROVE  u[n] = KeySteps(k)[n][u[n - 1]]
    BY <1>2, <2>2 DEF KeySteps, N
  <2>3. \A n \in 0..N : u[n] \in KeyStates(k)[n]
    BY <1>2, <2>1, <2>2, RunStays
  <2> QED
    BY <1>1, <2>3
<1>5. PICK t \in MidKey(k, N - 1) : Cook(k) = CookOne(t)
  <2>1. KeyStates(k)[N] = {CookOne(t) : t \in MidKey(k, N - 1)}
    BY <1>1 DEF KeyStates, N
  <2> QED
    BY <1>3, <1>4, <2>1
<1>6. /\ t \in CookStates /\ t.i = N - 1 /\ t.echo <= N - 1 /\ Len(t.buf) = N
      /\ \A j \in 1..N : t.buf[j] = IF j <= N - 1 THEN Cooked(k[j]) ELSE k[j]
  BY DEF MidKey, N
<1>7. t.i + 1 = Len(t.buf) /\ t.i + 1 = N /\ t.buf[N] = k[N]
  BY <1>1, <1>6
<1>8. /\ Cook(k).buf = SubSeq(t.buf, 1, t.i) \o MeaningOf(t.buf[t.i + 1])
      /\ Cook(k).echo \in {t.echo, t.echo + 1}
  BY <1>5, <1>6, <1>7, LastTurn, Zenon
<1>9. SubSeq(t.buf, 1, t.i) = CookedFront(k, N - 1)
  <2> DEFINE f == SubSeq(t.buf, 1, t.i)
             g == CookedFront(k, N - 1)
  <2>1. t.buf \in Seq(Nat) /\ t.i \in Nat
    BY <1>6 DEF CookStates
  <2>2. IsFront(Nat, t.buf, t.i, f)
    BY <1>7, <2>1, FrontAndLast
  <2>3. g \in Seq(Nat) /\ Len(g) = N - 1 /\ \A j \in 1..(N - 1) : g[j] = Cooked(k[j])
    <3>1. N - 1 \in 0..Len(k)
      BY <1>1 DEF N
    <3> HIDE DEF f
    <3> QED
      BY <3>1, FrontType
  <2> HIDE DEF f, g
  <2>4. f \in Seq(Nat) /\ Len(f) = N - 1 /\ \A j \in 1..(N - 1) : f[j] = t.buf[j]
    BY <1>6, <2>2 DEF IsFront
  <2>5. ASSUME NEW j \in 1..(N - 1) PROVE f[j] = g[j]
    <3>1. j \in 1..N /\ j <= N - 1
      BY <1>1
    <3> QED
      BY <1>6, <2>3, <2>4, <3>1, Zenon
  <2>6. f = g
    BY <2>3, <2>4, <2>5, SeqEqual
  <2> QED
    BY <2>6 DEF f, g
<1>10. Cook(k).echo \in 0..N
  <2>1. t.echo \in Nat
    BY <1>6 DEF CookStates
  <2> QED
    BY <1>1, <1>6, <1>8, <2>1
<1> QED
  BY <1>7, <1>8, <1>9, <1>10, Zenon DEF N

MeaningsOf(k) == [i \in DOMAIN k |-> MeaningOf(k[i])]

FlattenUpto(seqs) ==
    CHOOSE flatten : flatten = [i \in 1..Len(seqs) |->
        IF i = 1 THEN seqs[i] ELSE flatten[i-1] \o seqs[i]]

FlatStates(k) == [n \in 0..(Len(k) - 1) |-> {CookedFront(k, n) \o MeaningOf(k[n + 1])}]

FlatSteps(k) ==
    [n \in 1..(Len(k) - 1) |-> [s \in FlatStates(k)[n - 1] |-> s \o MeaningOf(k[n + 1])]]

\* What a plain character stands for is one character.
LEMMA MeaningType ==
    ASSUME NEW c \in Nat
    PROVE  MeaningOf(c) \in Seq(Nat) /\ (Plain(c) => MeaningOf(c) = <<Cooked(c)>>)
<1>1. Cooked(c) \in Nat /\ (Plain(c) => Strip(c) \notin {NL, CR})
  BY CookedType
<1>2. MeaningOf(c) \in {<<>>, <<NL, CR>>, <<CR, NL>>, <<Cooked(c)>>}
  BY DEF MeaningOf, Cooked
<1>3. NL \in Nat /\ CR \in Nat
  BY DEF NL, CR
<1>4. MeaningOf(c) \in Seq(Nat)
  <2>1. <<>> \in Seq(Nat) /\ <<Cooked(c)>> \in Seq(Nat)
    BY <1>1
  <2>2. <<NL, CR>> \in Seq(Nat) /\ <<CR, NL>> \in Seq(Nat)
    BY <1>3
  <2> QED
    BY <1>2, <2>1, <2>2, Zenon
<1>5. Plain(c) => MeaningOf(c) = <<Cooked(c)>>
  BY <1>1 DEF MeaningOf, Cooked
<1> QED
  BY <1>4, <1>5

\* Before its last character, a key stands for its characters one by one.
LEMMA FrontGrows ==
    ASSUME NEW k, IsKey(k), NEW n \in 1..(Len(k) - 1)
    PROVE  CookedFront(k, n - 1) \o MeaningOf(k[n]) = CookedFront(k, n)
<1>1. k \in Seq(Nat) /\ Len(k) \in Nat /\ n \in Nat /\ k[n] \in Nat /\ Plain(k[n]) /\ n >= 1
  BY DEF IsKey
<1>2. n \in 0..Len(k) /\ n - 1 \in 0..Len(k)
  BY <1>1
<1> DEFINE f == CookedFront(k, n - 1)
           g == CookedFront(k, n)
           x == Cooked(k[n])
<1>3. /\ f \in Seq(Nat) /\ Len(f) = n - 1 /\ \A j \in 1..(n - 1) : f[j] = Cooked(k[j])
      /\ g \in Seq(Nat) /\ Len(g) = n /\ \A j \in 1..n : g[j] = Cooked(k[j])
  BY <1>2, FrontType
<1>4. MeaningOf(k[n]) = <<x>> /\ x \in Nat
  BY <1>1, MeaningType, CookedType, Zenon
<1>5. g[n] = x
  BY <1>1, <1>3
<1>6. n - 1 + 1 = n
  BY <1>1
<1> HIDE DEF f, g, x
<1>7. \A j \in 1..(n - 1) : g[j] = f[j]
  <2>1. \A j \in 1..(n - 1) : j \in 1..n
    BY <1>1
  <2> QED
    BY <1>3, <2>1, Zenon
<1>8. f \o <<x>> = g
  <2>1. /\ f \in Seq(Nat) /\ x \in Nat /\ g \in Seq(Nat) /\ Len(g) = Len(f) + 1
        /\ \A j \in 1..Len(f) : g[j] = f[j]
        /\ g[Len(f) + 1] = x
    BY <1>3, <1>4, <1>5, <1>6, <1>7, Zenon
  <2> QED
    BY <2>1, JoinLast, Zenon
<1> QED
  BY <1>4, <1>8, Zenon DEF f, g

\* FlattenSeq goes through the characters of a key one by one.
LEMMA FlatClosed ==
    ASSUME NEW k, IsKey(k)
    PROVE  Closed(Len(k) - 1, FlatStates(k), MeaningOf(k[1]), FlatSteps(k))
<1>1. k \in Seq(Nat) /\ Len(k) \in Nat /\ Len(k) - 1 \in Nat /\ k[1] \in Nat
  BY DEF IsKey
<1>2. MeaningOf(k[1]) \in FlatStates(k)[0]
  <2>1. CookedFront(k, 0) = <<>>
    BY DEF CookedFront
  <2>2. MeaningOf(k[1]) \in Seq(Nat)
    BY <1>1, MeaningType, Zenon
  <2>3. <<>> \o MeaningOf(k[1]) = MeaningOf(k[1])
    BY <2>2
  <2> QED
    <3>1. 0 \in 0..(Len(k) - 1) /\ 0 + 1 = 1
      BY <1>1
    <3>2. FlatStates(k)[0] = {CookedFront(k, 0) \o MeaningOf(k[1])}
      BY <3>1 DEF FlatStates
    <3> QED
      BY <2>1, <2>3, <3>2, Zenon
<1>3. ASSUME NEW n \in 1..(Len(k) - 1), NEW s \in FlatStates(k)[n - 1]
      PROVE  FlatSteps(k)[n][s] \in FlatStates(k)[n]
  <2>1. n - 1 \in 0..(Len(k) - 1) /\ n - 1 + 1 = n /\ n \in 0..(Len(k) - 1)
    BY <1>1
  <2>2. FlatStates(k)[n - 1] = {CookedFront(k, n - 1) \o MeaningOf(k[n])}
    BY <2>1 DEF FlatStates
  <2>3. s = CookedFront(k, n)
    BY <2>2, FrontGrows, Zenon
  <2>4. FlatSteps(k)[n][s] = s \o MeaningOf(k[n + 1])
    BY DEF FlatSteps
  <2>5. FlatStates(k)[n] = {CookedFront(k, n) \o MeaningOf(k[n + 1])}
    BY <2>1 DEF FlatStates
  <2> QED
    BY <2>3, <2>4, <2>5
<1> QED
  BY <1>1, <1>2, <1>3 DEF Closed

\* What a key stands for: its characters one by one, and what its last one
\* stands for.
LEMMA MeaningIs ==
    ASSUME NEW k, IsKey(k)
    PROVE  Meaning(k) = CookedFront(k, Len(k) - 1) \o MeaningOf(k[Len(k)])
<1> DEFINE N == Len(k)
           seqs == MeaningsOf(k)
           u == FlattenUpto(seqs)
<1>1. k \in Seq(Nat) /\ N \in Nat /\ N - 1 \in Nat /\ N >= 1
  BY DEF IsKey
<1>2. Len(seqs) = N /\ \A n \in 1..N : seqs[n] = MeaningOf(k[n])
  BY <1>1 DEF MeaningsOf
<1>3. Meaning(k) = u[N]
  <2>1. Meaning(k) = FlattenSeq(seqs)
    BY DEF Meaning, MeaningsOf
  <2> HIDE DEF seqs
  <2>2. Len(seqs) # 0
    BY <1>1, <1>2
  <2>3. FlattenSeq(seqs) = u[Len(seqs)]
    BY <2>2 DEF FlattenSeq, FlattenUpto
  <2> QED
    BY <1>2, <2>1, <2>3
<1>4. u = [i \in 1..Len(seqs) |-> IF i = 1 THEN seqs[i] ELSE u[i-1] \o seqs[i]]
  <2> HIDE DEF seqs, N
  <2>1. PICK f : Run(N - 1, FlatStates(k), MeaningOf(k[1]), FlatSteps(k), f)
    BY FlatClosed, RunExists DEF N
  <2>2. ASSUME NEW n \in 1..(N - 1) PROVE f[n] = f[n - 1] \o seqs[n + 1]
    <3>1. n \in 0..(N - 1) /\ n # 0 /\ n - 1 \in 0..(N - 1) /\ n + 1 \in 1..N
      BY <1>1
    <3>2. f[n] = FlatSteps(k)[n][f[n - 1]] /\ f[n - 1] \in FlatStates(k)[n - 1]
      BY <2>1, <3>1 DEF Run
    <3>3. f[n] = f[n - 1] \o MeaningOf(k[n + 1])
      BY <3>2, Zenon DEF FlatSteps, N
    <3> QED
      BY <1>2, <3>1, <3>3, Zenon
  <2>3. f[0] = seqs[1]
    BY <1>1, <1>2, <2>1 DEF Run
  <2> DEFINE g == [i \in 1..Len(seqs) |-> f[i - 1]]
  <2>4. ASSUME NEW i \in 1..Len(seqs)
        PROVE  g[i] = IF i = 1 THEN seqs[i] ELSE g[i-1] \o seqs[i]
    <3>1. CASE i = 1
      BY <2>3, <3>1
    <3>2. CASE i # 1
      <4>1. i - 1 \in 1..(N - 1) /\ (i - 1) + 1 = i /\ i - 1 \in 1..Len(seqs)
        BY <1>1, <1>2, <3>2
      <4>2. g[i] = f[i - 1] /\ g[i - 1] = f[(i - 1) - 1]
        BY <4>1
      <4>3. f[i - 1] = f[(i - 1) - 1] \o seqs[i]
        BY <2>2, <4>1, Zenon
      <4> QED
        BY <3>2, <4>2, <4>3, Zenon
    <3> QED
      BY <3>1, <3>2
  <2>5. g = [i \in 1..Len(seqs) |-> g[i]]
    OBVIOUS
  <2> HIDE DEF g
  <2>6. g = [i \in 1..Len(seqs) |-> IF i = 1 THEN seqs[i] ELSE g[i-1] \o seqs[i]]
    BY <2>4, <2>5, Zenon
  <2> QED
    BY <2>6, Zenon DEF FlattenUpto
<1> HIDE DEF N, seqs, u
<1> DEFINE v == [n \in 0..(N - 1) |-> u[n + 1]]
<1>5. v[0] = MeaningOf(k[1])
  BY <1>1, <1>2, <1>4
<1>6. ASSUME NEW n \in 1..(N - 1), v[n - 1] \in FlatStates(k)[n - 1]
      PROVE  v[n] = FlatSteps(k)[n][v[n - 1]]
  <2>1. /\ n + 1 \in 1..N /\ n + 1 # 1 /\ (n + 1) - 1 = n /\ n \in 0..(N - 1)
        /\ n - 1 \in 0..(N - 1) /\ (n - 1) + 1 = n
    BY <1>1
  <2>2. v[n] = u[n + 1] /\ v[n - 1] = u[n]
    BY <2>1
  <2>3. u[n + 1] = u[n] \o MeaningOf(k[n + 1])
    BY <1>2, <1>4, <2>1, Zenon
  <2> HIDE DEF v
  <2>4. FlatSteps(k)[n][v[n - 1]] = v[n - 1] \o MeaningOf(k[n + 1])
    BY <1>6, Zenon DEF FlatSteps, N
  <2> QED
    BY <2>2, <2>3, <2>4
<1>7. v[N - 1] = u[N]
  BY <1>1
<1> HIDE DEF v
<1>8. v[N - 1] \in FlatStates(k)[N - 1]
  <2>1. Closed(N - 1, FlatStates(k), MeaningOf(k[1]), FlatSteps(k))
    BY FlatClosed DEF N
  <2>2. \A n \in 0..(N - 1) : v[n] \in FlatStates(k)[n]
    BY <1>5, <1>6, <2>1, RunStays
  <2> QED
    BY <1>1, <2>2
<1>9. FlatStates(k)[N - 1] = {CookedFront(k, N - 1) \o MeaningOf(k[N])}
  <2>1. N - 1 \in 0..(Len(k) - 1) /\ N - 1 + 1 = N
    BY <1>1 DEF N
  <2> QED
    BY <2>1 DEF FlatStates
<1> QED
  BY <1>3, <1>7, <1>8, <1>9 DEF N

\* A key is cooked into what it stands for.
LEMMA KeyKept ==
    ASSUME NEW k, IsKey(k), ~({"IGNCR", "ICRNL"} \subseteq termios)
    PROVE  /\ Cook(k).buf = Meaning(k) /\ Meaning(k) \in Seq(Nat)
           /\ Cook(k).echo \in 0..Len(k)
<1>1. /\ Cook(k).buf = Meaning(k) /\ Cook(k).echo \in 0..Len(k)
      /\ Meaning(k) = CookedFront(k, Len(k) - 1) \o MeaningOf(k[Len(k)])
  BY KeyCooked, MeaningIs, Zenon
<1>2. Len(k) - 1 \in 0..Len(k) /\ k[Len(k)] \in Nat
  BY DEF IsKey
<1>3. CookedFront(k, Len(k) - 1) \in Seq(Nat) /\ MeaningOf(k[Len(k)]) \in Seq(Nat)
  BY <1>2, FrontType, MeaningType, Zenon
<1> QED
  BY <1>1, <1>3

-----------------------------------------------------------------------------
(* The inductive invariant of the console                                  *)

Requests == {"TCSETS", "TCSETSF", "TIOCGWINSZ", "TIOCSWINSZ", "rec"}

\* Keys: the pipe from the console program holds one key at most, and only
\* while the program waits for it to be read.
KeysInv ==
    /\ keys \in Seq(Keys)
    /\ cons \in {"input", "flush", "text", "ioctl", "rec"}
    /\ fromCons = <<>> \/ (fromCons \in Keys /\ cons = "flush")
    /\ termios \in Flags \cup {{"ECHO"}}
    /\ thread \in [pc : {"read", "echo", "store"}, buf : Seq(Nat), echo : 0..3]
    /\ thread.pc = "read" => thread.buf = <<>>
    /\ passed \in Seq(Nat) /\ due = passed \o thread.buf
    /\ output \in 0..Cap

\* The requests that the console program has still to read, when it is at
\* "at": a window size comes after a TIOCSWINSZ, and nowhere else.
Paired(q, at) ==
    /\ q # <<>> => (q[1] = "rec" <=> at = "rec")
    /\ \A i \in 2..Len(q) : q[i] = "rec" <=> q[i - 1] = "TIOCSWINSZ"

\* The last of them is a TIOCSWINSZ whose size has not been sent.
SizeIsDue(q, at) == IF q = <<>> THEN at = "rec" ELSE q[Len(q)] = "TIOCSWINSZ"

IoctlInv ==
    /\ client \in [Client -> {"run", "TIOCGWINSZ", "TIOCSWINSZ"}]
    /\ \A c \in Client : client[c] # "run" => lock = {c}
    /\ req \in Seq(Requests) /\ reply \in 0..1
    /\ Paired(req, cons)
    /\ SizeIsDue(req, cons) <=> \E c \in Client : client[c] = "TIOCSWINSZ"
    /\ \A i \in 1..Len(req) : req[i] = "TIOCGWINSZ" => i = Len(req) /\ reply = 0
    /\ reply # 0 \/ (\E i \in 1..Len(req) : req[i] = "TIOCGWINSZ")
          => \E c \in Client : client[c] = "TIOCGWINSZ"

ConsoleInv == KeysInv /\ IoctlInv

\* What is left of the requests when the console program has read one.
LEMMA RequestRead ==
    ASSUME NEW q \in Seq(Requests), NEW at, q # <<>>, Paired(q, at),
           NEW next, next = IF q[1] = "TIOCSWINSZ" THEN "rec" ELSE "input"
    PROVE  /\ Tail(q) \in Seq(Requests)
           /\ Paired(Tail(q), next)
           /\ SizeIsDue(Tail(q), next) <=> SizeIsDue(q, at)
           /\ \A i \in 1..Len(Tail(q)) : i + 1 \in 1..Len(q) /\ Tail(q)[i] = q[i + 1]
           /\ Len(Tail(q)) = Len(q) - 1
<1> DEFINE r == Tail(q)
<1>1. /\ r \in Seq(Requests) /\ Len(r) = Len(q) - 1 /\ Len(q) \in Nat /\ Len(q) >= 1
      /\ \A i \in 1..Len(r) : i + 1 \in 1..Len(q) /\ r[i] = q[i + 1]
  OBVIOUS
<1> HIDE DEF r
<1>2. r = <<>> <=> Len(q) = 1
  BY <1>1, EmptySeq
<1>3. Paired(r, next)
  <2>1. ASSUME r # <<>> PROVE r[1] = "rec" <=> next = "rec"
    <3>1. 2 \in 2..Len(q) /\ r[1] = q[2] /\ 2 - 1 = 1
      BY <1>1, <1>2, <2>1
    <3>2. q[2] = "rec" <=> q[1] = "TIOCSWINSZ"
      BY <3>1 DEF Paired
    <3> QED
      BY <3>1, <3>2
  <2>2. ASSUME NEW i \in 2..Len(r) PROVE r[i] = "rec" <=> r[i - 1] = "TIOCSWINSZ"
    <3>1. /\ i + 1 \in 2..Len(q) /\ r[i] = q[i + 1] /\ (i + 1) - 1 = i
          /\ i - 1 \in 1..Len(r) /\ (i - 1) + 1 = i /\ r[i - 1] = q[i]
      BY <1>1
    <3> QED
      BY <3>1 DEF Paired
  <2> QED
    BY <2>1, <2>2 DEF Paired
<1>4. SizeIsDue(r, next) <=> SizeIsDue(q, at)
  <2>1. CASE r = <<>>
    BY <1>2, <2>1, Zenon DEF SizeIsDue
  <2>2. CASE r # <<>>
    <3>1. Len(r) \in 1..Len(r) /\ Len(r) + 1 = Len(q)
      BY <1>1, <1>2, <2>2
    <3>2. r[Len(r)] = q[Len(q)]
      BY <1>1, <3>1
    <3> QED
      BY <2>2, <3>2 DEF SizeIsDue
  <2> QED
    BY <2>1, <2>2
<1> QED
  BY <1>1, <1>3, <1>4 DEF r

\* The requests when a process has sent one more.
LEMMA RequestSent ==
    ASSUME NEW q \in Seq(Requests), NEW at, Paired(q, at),
           NEW x \in Requests, x = "rec" <=> SizeIsDue(q, at)
    PROVE  /\ Append(q, x) \in Seq(Requests) /\ Append(q, x) # <<>>
           /\ Paired(Append(q, x), at)
           /\ SizeIsDue(Append(q, x), at) <=> x = "TIOCSWINSZ"
           /\ Len(Append(q, x)) = Len(q) + 1 /\ Append(q, x)[Len(q) + 1] = x
           /\ \A i \in 1..Len(q) : Append(q, x)[i] = q[i]
<1> DEFINE r == Append(q, x)
<1>1. /\ r \in Seq(Requests) /\ Len(r) = Len(q) + 1 /\ Len(q) \in Nat /\ r # <<>>
      /\ r[Len(q) + 1] = x /\ \A i \in 1..Len(q) : r[i] = q[i]
  OBVIOUS
<1> HIDE DEF r
<1>2. SizeIsDue(r, at) <=> x = "TIOCSWINSZ"
  BY <1>1 DEF SizeIsDue
<1>3. Paired(r, at)
  <2>1. r[1] = "rec" <=> at = "rec"
    <3>1. CASE q = <<>>
      BY <1>1, <3>1 DEF SizeIsDue
    <3>2. CASE q # <<>>
      <4>1. 1 \in 1..Len(q)
        BY <3>2
      <4> QED
        BY <1>1, <3>2, <4>1 DEF Paired
    <3> QED
      BY <3>1, <3>2
  <2>2. ASSUME NEW i \in 2..Len(r) PROVE r[i] = "rec" <=> r[i - 1] = "TIOCSWINSZ"
    <3>1. CASE i = Len(q) + 1
      <4>1. q # <<>> /\ i - 1 = Len(q) /\ i - 1 \in 1..Len(q)
        BY <1>1, <3>1
      <4>2. r[i] = x /\ r[i - 1] = q[Len(q)]
        BY <1>1, <3>1, <4>1
      <4> QED
        BY <4>1, <4>2 DEF SizeIsDue
    <3>2. CASE i # Len(q) + 1
      <4>1. i \in 2..Len(q) /\ i \in 1..Len(q) /\ i - 1 \in 1..Len(q)
        BY <1>1, <3>2
      <4> QED
        BY <1>1, <4>1 DEF Paired
    <3> QED
      BY <3>1, <3>2
  <2> QED
    BY <2>1, <2>2 DEF Paired
<1> QED
  BY <1>1, <1>2, <1>3 DEF r

\* The keys of the console program are keys.
LEMMA KeysAreKeys ==
    ASSUME NEW k \in Keys
    PROVE  IsKey(k) /\ k # <<>> /\ Len(k) \in 1..3
<1>1. /\ k \in Seq(Nat) /\ Len(k) \in 1..3
      /\ \A i \in 1..(Len(k) - 1) : Plain(k[i])
  BY ConsoleConstants, Zenon DEF Plain
<1>2. Len(k) >= 1 /\ Len(k) # 0
  <2>1. \A n \in 1..3 : n >= 1 /\ n # 0
    OBVIOUS
  <2> QED
    BY <1>1, <2>1, Zenon
<1>3. k # <<>>
  BY <1>1, <1>2, EmptySeq, Zenon
<1> QED
  BY <1>1, <1>2, <1>3, Zenon DEF IsKey

\* At first no key is under way.
LEMMA KeysInvInit == ConsoleInit => KeysInv
BY ConsoleConstants DEF ConsoleInit, KeysInv

\* What the handler thread reads is one key.
LEMMA ThreadReadKeeps == KeysInv /\ ThreadRead => KeysInv'
<1> SUFFICES ASSUME KeysInv, ThreadRead PROVE KeysInv'
  OBVIOUS
<1> DEFINE k == fromCons
           t == Cook(k)
<1>1. k \in Keys /\ thread.buf = <<>> /\ ~({"IGNCR", "ICRNL"} \subseteq termios)
  BY ConsoleConstants DEF KeysInv, ThreadRead
<1>2. IsKey(k) /\ Len(k) \in 1..3
  BY <1>1, KeysAreKeys
<1>3. t.buf = Meaning(k) /\ Meaning(k) \in Seq(Nat) /\ t.echo \in 0..Len(k)
  BY <1>1, <1>2, KeyKept
<1>4. /\ thread' = [pc |-> "echo", buf |-> t.buf, echo |-> t.echo]
      /\ due' = due \o Meaning(k) /\ fromCons' = <<>>
      /\ UNCHANGED <<keys, cons, termios, passed, output>>
  BY DEF ThreadRead, kernelVars
<1> HIDE DEF t
<1>5. due' = passed' \o thread'.buf
  <2>1. due = passed \o <<>> /\ passed \in Seq(Nat)
    BY <1>1 DEF KeysInv
  <2>2. due = passed
    BY <2>1
  <2> QED
    BY <1>3, <1>4, <2>2
<1>6. thread' \in [pc : {"read", "echo", "store"}, buf : Seq(Nat), echo : 0..3]
  <2> DEFINE n == Len(k)
             e == t.echo
  <2>1. e \in 0..n /\ n \in 1..3
    BY <1>2, <1>3
  <2> HIDE DEF n, e
  <2>2. e \in 0..3
    BY <2>1
  <2> USE DEF e
  <2> QED
    BY <1>3, <1>4, <2>2
<1> QED
  BY <1>4, <1>5, <1>6 DEF KeysInv

\* What the thread passes on is what it had.
LEMMA ThreadStoreKeeps == KeysInv /\ ThreadStore => KeysInv'
<1> SUFFICES ASSUME KeysInv, ThreadStore PROVE KeysInv'
  OBVIOUS
<1>1. /\ passed' = passed \o thread.buf /\ thread' = [pc |-> "read", buf |-> <<>>, echo |-> 0]
      /\ UNCHANGED <<keys, fromCons, cons, termios, due, output>>
  BY DEF ThreadStore, kernelVars, keyVars
<1>2. passed \in Seq(Nat) /\ thread.buf \in Seq(Nat) /\ due = passed \o thread.buf
  BY DEF KeysInv
<1>3. passed' \in Seq(Nat)
  BY <1>1, <1>2
<1>4. due' = passed' \o thread'.buf
  <2>1. due' = passed' /\ thread'.buf = <<>>
    BY <1>1, <1>2
  <2> QED
    BY <1>3, <2>1
<1>5. thread' \in [pc : {"read", "echo", "store"}, buf : Seq(Nat), echo : 0..3]
  BY <1>1
<1> QED
  BY <1>1, <1>3, <1>4, <1>5 DEF KeysInv

\* An echo leaves the buffer alone.
LEMMA ThreadEchoKeeps == KeysInv /\ ThreadEcho => KeysInv'
<1> SUFFICES ASSUME KeysInv, ThreadEcho PROVE KeysInv'
  OBVIOUS
<1>1. /\ thread \in [pc : {"read", "echo", "store"}, buf : Seq(Nat), echo : 0..3]
      /\ output \in 0..Cap /\ Cap \in Nat
  BY ConsoleConstants DEF KeysInv
<1>2. /\ thread' \in [pc : {"read", "echo", "store"}, buf : Seq(Nat), echo : 0..3]
      /\ thread'.pc # "read" /\ thread'.buf = thread.buf /\ output' \in 0..Cap
  BY <1>1 DEF ThreadEcho
<1>3. UNCHANGED <<keys, fromCons, cons, termios, due, passed>>
  BY DEF ThreadEcho, kernelVars, keyVars
<1> QED
  BY <1>2, <1>3 DEF KeysInv

\* The console program writes a key into an empty pipe.
LEMMA InputCharKeeps == KeysInv /\ InputChar => KeysInv'
<1> SUFFICES ASSUME KeysInv, InputChar PROVE KeysInv'
  OBVIOUS
<1>1. UNCHANGED <<termios, thread, passed, due, output>> /\ cons = "input" /\ fromCons = <<>>
  BY DEF InputChar, kernelVars, threadVars, KeysInv
<1>2. CASE keys = <<>>
  BY <1>1, <1>2 DEF InputChar, KeysInv
<1>3. CASE keys # <<>>
  <2>1. keys[1] \in Keys /\ Tail(keys) \in Seq(Keys)
    BY <1>3 DEF KeysInv
  <2>2. IsKey(keys[1])
    BY <2>1, KeysAreKeys
  <2>3. <<>> \o keys[1] = keys[1]
    BY <2>2 DEF IsKey
  <2>4. keys' = Tail(keys) /\ fromCons' = keys[1] /\ cons' = "flush"
    BY <1>1, <1>3, <2>3 DEF InputChar
  <2> QED
    BY <1>1, <2>1, <2>4 DEF KeysInv
<1> QED
  BY <1>2, <1>3

\* Every step keeps the invariant of the keys.
LEMMA KeysInvStep == KeysInv /\ [ConsoleNext]_cvars => KeysInv'
<1> SUFFICES ASSUME KeysInv, [ConsoleNext]_cvars PROVE KeysInv'
  OBVIOUS
<1>1. ASSUME NEW k \in Keys, Type(k) PROVE KeysInv'
  <2>1. Append(keys, k) \in Seq(Keys)
    BY DEF KeysInv
  <2> QED
    BY <1>1, <2>1 DEF Type, KeysInv, kernelVars, threadVars
<1>0. Cap \in Nat
  BY ConsoleConstants
<1>2. ASSUME InputFlushed \/ ShowText PROVE KeysInv'
  <2>1. /\ UNCHANGED <<keys, fromCons, termios, thread, passed, due>>
        /\ cons' \in {"text", "ioctl"} /\ output' \in {output, 0}
        /\ fromCons = <<>> \/ cons = "text"
    BY <1>2 DEF InputFlushed, ShowText, keyVars, kernelVars, threadVars
  <2>2. output' \in 0..Cap /\ fromCons' = <<>>
    BY <1>0, <2>1 DEF KeysInv
  <2> QED
    BY <2>1, <2>2 DEF KeysInv
<1>3. ASSUME ProcessIoctlRequest PROVE KeysInv'
  <2>1. /\ cons = "ioctl" /\ cons' \in {"input", "rec"} /\ keys' \in {keys, <<>>}
        /\ UNCHANGED <<fromCons, termios, thread, passed, due, output>>
    BY <1>3 DEF ProcessIoctlRequest, threadVars
  <2>2. keys' \in Seq(Keys)
    <3>1. keys \in Seq(Keys) /\ <<>> \in Seq(Keys)
      BY DEF KeysInv
    <3> QED
      BY <2>1, <3>1, Zenon
  <2>3. fromCons' = <<>>
    BY <2>1 DEF KeysInv
  <2> QED
    BY <2>1, <2>2, <2>3 DEF KeysInv
<1>4. ASSUME ReadWindowSize PROVE KeysInv'
  BY <1>4 DEF ReadWindowSize, KeysInv, keyVars, threadVars
<1>5. ASSUME ProcessRead \/ ProcessWrite PROVE KeysInv'
  <2>1. /\ UNCHANGED <<keys, fromCons, termios, thread, passed, due, cons>>
        /\ output' = output \/ (output < Cap /\ output' = output + 1)
    BY <1>5 DEF ProcessRead, ProcessWrite, keyVars, threadVars, kernelVars
  <2>2. output' \in 0..Cap
    BY <1>0, <2>1 DEF KeysInv
  <2> QED
    BY <2>1, <2>2 DEF KeysInv
<1>6. ASSUME NEW c \in Client PROVE
        /\ SetGroup(c) => KeysInv'
        /\ WindowSizeEnd(c) => KeysInv'
        /\ \A request \in {"TIOCGWINSZ", "TIOCSWINSZ"} : WindowSize(c, request) => KeysInv'
        /\ \A request \in {"TCSETS", "TCSETSF"}, flags \in Flags :
              SetTermios(c, request, flags) => KeysInv'
  BY Zenon DEF SetGroup, WindowSizeEnd, WindowSize, SetTermios, KeysInv, keyVars, threadVars
<1>7. ASSUME UNCHANGED cvars PROVE KeysInv'
  BY <1>7, Zenon DEF cvars, KeysInv
<1> QED
  BY <1>1, <1>2, <1>3, <1>4, <1>5, <1>6, <1>7, InputCharKeeps, ThreadReadKeeps,
     ThreadEchoKeeps, ThreadStoreKeeps DEF ConsoleNext, Loop, Handler

\* At first no request is under way.
LEMMA IoctlInvInit == ConsoleInit => IoctlInv
<1> SUFFICES ASSUME ConsoleInit PROVE IoctlInv
  OBVIOUS
<1>1. /\ req = <<>> /\ reply = 0 /\ cons = "input" /\ client = [c \in Client |-> "run"]
      /\ req \in Seq(Requests) /\ Len(req) = 0
  BY DEF ConsoleInit
<1> QED
  BY <1>1 DEF IoctlInv, Paired, SizeIsDue

\* Steps that leave the requests and those who wait for them alone.
LEMMA IoctlSame ==
    ASSUME IoctlInv, UNCHANGED <<client, lock, req, reply>>, cons' = "rec" <=> cons = "rec"
    PROVE  IoctlInv'
<1>1. Paired(req, cons)' /\ (SizeIsDue(req, cons)' <=> SizeIsDue(req, cons))
  BY DEF IoctlInv, Paired, SizeIsDue
<1> QED
  BY <1>1 DEF IoctlInv

\* The console program reads a request, or the window size after one.
LEMMA IoctlRead ==
    ASSUME IoctlInv, req # <<>>, req' = Tail(req), UNCHANGED <<client, lock>>,
           cons' = IF req[1] = "TIOCSWINSZ" THEN "rec" ELSE "input",
           reply' = reply \/ (req[1] = "TIOCGWINSZ" /\ reply' = reply + 1)
    PROVE  IoctlInv'
<1>1. req \in Seq(Requests) /\ Paired(req, cons) /\ reply \in 0..1
  BY DEF IoctlInv
<1>2. /\ req' \in Seq(Requests) /\ Paired(req', cons')
      /\ SizeIsDue(req', cons') <=> SizeIsDue(req, cons)
      /\ \A i \in 1..Len(req') : i + 1 \in 1..Len(req) /\ req'[i] = req[i + 1]
      /\ Len(req') = Len(req) - 1
  BY <1>1, RequestRead
<1>3. 1 \in 1..Len(req) /\ Len(req) \in Nat
  BY <1>1
<1>4. CASE req[1] = "TIOCGWINSZ"
  <2>1. Len(req) = 1 /\ reply = 0 /\ \E c \in Client : client[c] = "TIOCGWINSZ"
    BY <1>3, <1>4, Zenon DEF IoctlInv
  <2>2. Len(req') = 0 /\ reply' \in 0..1
    BY <1>2, <2>1
  <2> QED
    BY <1>2, <2>1, <2>2 DEF IoctlInv
<1>5. CASE req[1] # "TIOCGWINSZ"
  <2>1. reply' = reply
    BY <1>5
  <2>2. ASSUME NEW i \in 1..Len(req'), req'[i] = "TIOCGWINSZ"
        PROVE  i = Len(req') /\ reply' = 0 /\ \E c \in Client : client'[c] = "TIOCGWINSZ"
    <3>1. i + 1 \in 1..Len(req) /\ req[i + 1] = "TIOCGWINSZ"
      BY <1>2, <2>2
    <3>2. i + 1 = Len(req) /\ reply = 0 /\ \E c \in Client : client[c] = "TIOCGWINSZ"
      BY <3>1 DEF IoctlInv
    <3>3. i = Len(req')
      <4> DEFINE m == Len(req')
                 l == Len(req)
      <4>1. m = l - 1 /\ i + 1 = l /\ l \in Nat /\ i \in 1..m
        BY <1>2, <1>3, <3>2, Zenon
      <4> HIDE DEF m, l
      <4>2. i = m
        BY <4>1
      <4> QED
        BY <4>2 DEF m
    <3> QED
      BY <2>1, <3>2, <3>3
  <2> QED
    BY <1>2, <2>1, <2>2, Zenon DEF IoctlInv
<1> QED
  BY <1>4, <1>5

\* Nobody waits where somebody may enter the critical section.
LEMMA NobodyWaits ==
    ASSUME IoctlInv, NEW c \in Client, Enter(c)
    PROVE  /\ \A d \in Client : client[d] = "run"
           /\ ~SizeIsDue(req, cons) /\ reply = 0
           /\ \A i \in 1..Len(req) : req[i] # "TIOCGWINSZ"
<1>1. \A d \in Client : client[d] = "run"
  BY DEF IoctlInv, Enter
<1> QED
  BY <1>1 DEF IoctlInv

\* A process sends a request that needs no answer.
LEMMA SetTermiosKeeps ==
    ASSUME IoctlInv, NEW c \in Client, NEW request \in {"TCSETS", "TCSETSF"}, NEW flags,
           SetTermios(c, request, flags)
    PROVE  IoctlInv'
<1>1. /\ req' = Append(req, request) /\ UNCHANGED <<lock, client, reply, cons>> /\ Enter(c)
  BY DEF SetTermios
<1>2. /\ \A d \in Client : client[d] = "run"
      /\ ~SizeIsDue(req, cons) /\ reply = 0
      /\ \A i \in 1..Len(req) : req[i] # "TIOCGWINSZ"
  BY <1>1, NobodyWaits
<1>3. req \in Seq(Requests) /\ Paired(req, cons) /\ request \in Requests /\ request # "rec"
  BY DEF IoctlInv, Requests
<1>4. /\ req' \in Seq(Requests) /\ req' # <<>> /\ Paired(req', cons)
      /\ SizeIsDue(req', cons) <=> request = "TIOCSWINSZ"
      /\ Len(req') = Len(req) + 1 /\ req'[Len(req) + 1] = request
      /\ \A i \in 1..Len(req) : req'[i] = req[i]
  BY <1>1, <1>2, <1>3, RequestSent
<1>5. ASSUME NEW i \in 1..Len(req') PROVE req'[i] # "TIOCGWINSZ"
  <2>1. Len(req) \in Nat
    BY <1>3
  <2>2. i = Len(req) + 1 \/ i \in 1..Len(req)
    BY <1>4, <2>1
  <2> QED
    BY <1>2, <1>4, <2>2
<1>6. ~SizeIsDue(req', cons)
  BY <1>4
<1> QED
  BY <1>1, <1>2, <1>4, <1>5, <1>6 DEF IoctlInv

\* A process sends a request and waits.
LEMMA WindowSizeKeeps ==
    ASSUME IoctlInv, NEW c \in Client, NEW request \in {"TIOCGWINSZ", "TIOCSWINSZ"},
           WindowSize(c, request)
    PROVE  IoctlInv'
<1>1. /\ req' = Append(req, request) /\ lock' = {c} /\ UNCHANGED <<reply, cons>> /\ Enter(c)
      /\ client' = [client EXCEPT ![c] = request]
  BY DEF WindowSize
<1>2. /\ \A d \in Client : client[d] = "run"
      /\ ~SizeIsDue(req, cons) /\ reply = 0
      /\ \A i \in 1..Len(req) : req[i] # "TIOCGWINSZ"
  BY <1>1, NobodyWaits
<1>3. /\ req \in Seq(Requests) /\ Paired(req, cons) /\ request \in Requests /\ request # "rec"
      /\ client \in [Client -> {"run", "TIOCGWINSZ", "TIOCSWINSZ"}]
  BY DEF IoctlInv, Requests
<1>4. /\ req' \in Seq(Requests) /\ req' # <<>> /\ Paired(req', cons)
      /\ SizeIsDue(req', cons) <=> request = "TIOCSWINSZ"
      /\ Len(req') = Len(req) + 1 /\ req'[Len(req) + 1] = request
      /\ \A i \in 1..Len(req) : req'[i] = req[i]
  BY <1>1, <1>2, <1>3, RequestSent
<1>5. /\ client' \in [Client -> {"run", "TIOCGWINSZ", "TIOCSWINSZ"}]
      /\ client'[c] = request /\ \A d \in Client : d # c => client'[d] = "run"
  BY <1>1, <1>2, <1>3
<1>6. ASSUME NEW i \in 1..Len(req'), req'[i] = "TIOCGWINSZ"
      PROVE  i = Len(req') /\ request = "TIOCGWINSZ"
  <2>1. Len(req) \in Nat
    BY <1>3
  <2>2. i = Len(req) + 1 \/ i \in 1..Len(req)
    BY <1>4, <2>1
  <2> QED
    BY <1>2, <1>4, <1>6, <2>2
<1>7. SizeIsDue(req', cons) <=> \E d \in Client : client'[d] = "TIOCSWINSZ"
  BY <1>4, <1>5
<1>8. reply' = 0 /\ cons' = cons
  BY <1>1, <1>2
<1> QED
  BY <1>1, <1>4, <1>5, <1>6, <1>7, <1>8 DEF IoctlInv

\* The answer is read, or the new size is sent.
LEMMA WindowSizeEndKeeps ==
    ASSUME IoctlInv, NEW c \in Client, WindowSizeEnd(c)
    PROVE  IoctlInv'
<1>1. /\ client' = [client EXCEPT ![c] = "run"] /\ lock' = {} /\ cons' = cons
      /\ client[c] # "run"
      /\ client \in [Client -> {"run", "TIOCGWINSZ", "TIOCSWINSZ"}]
  BY DEF WindowSizeEnd, IoctlInv
<1>2. \A d \in Client : d # c => client[d] = "run"
  BY <1>1 DEF IoctlInv
<1>3. /\ client' \in [Client -> {"run", "TIOCGWINSZ", "TIOCSWINSZ"}]
      /\ \A d \in Client : client'[d] = "run"
  BY <1>1, <1>2
<1>4. req \in Seq(Requests) /\ Paired(req, cons) /\ Len(req) \in Nat /\ reply \in 0..1
  BY DEF IoctlInv
<1>5. CASE client[c] = "TIOCGWINSZ"
  <2>1. req' = req /\ reply' = 0 /\ reply # 0
    BY <1>4, <1>5 DEF WindowSizeEnd
  <2>2. ~SizeIsDue(req, cons)
    BY <1>2, <1>5 DEF IoctlInv
  <2>3. \A i \in 1..Len(req) : req[i] # "TIOCGWINSZ"
    BY <2>1 DEF IoctlInv
  <2>4. ~(\E d \in Client : client'[d] = "TIOCSWINSZ")
    BY <1>3
  <2> QED
    BY <1>1, <1>3, <1>4, <2>1, <2>2, <2>3, <2>4 DEF IoctlInv
<1>6. CASE client[c] # "TIOCGWINSZ"
  <2>1. req' = Append(req, "rec") /\ reply' = reply
    BY <1>6 DEF WindowSizeEnd
  <2>2. client[c] = "TIOCSWINSZ" /\ \A d \in Client : client[d] # "TIOCGWINSZ"
    BY <1>1, <1>2, <1>6
  <2>3. /\ SizeIsDue(req, cons) /\ reply = 0
        /\ \A i \in 1..Len(req) : req[i] # "TIOCGWINSZ"
    BY <2>2 DEF IoctlInv
  <2>4. "rec" \in Requests
    BY DEF Requests
  <2>5. /\ req' \in Seq(Requests) /\ req' # <<>> /\ Paired(req', cons)
        /\ SizeIsDue(req', cons) <=> "rec" = "TIOCSWINSZ"
        /\ Len(req') = Len(req) + 1 /\ req'[Len(req) + 1] = "rec"
        /\ \A i \in 1..Len(req) : req'[i] = req[i]
    BY <1>4, <2>1, <2>3, <2>4, RequestSent
  <2>6. ASSUME NEW i \in 1..Len(req') PROVE req'[i] # "TIOCGWINSZ"
    <3>1. i = Len(req) + 1 \/ i \in 1..Len(req)
      BY <1>4, <2>5
    <3> QED
      BY <2>3, <2>5, <3>1
  <2>7. ~SizeIsDue(req', cons)
    BY <2>5
  <2>8. ~(\E d \in Client : client'[d] = "TIOCSWINSZ")
    BY <1>3
  <2> QED
    BY <1>1, <1>3, <2>1, <2>3, <2>5, <2>6, <2>7, <2>8 DEF IoctlInv
<1> QED
  BY <1>5, <1>6

\* Every step keeps the invariant of the requests.
LEMMA IoctlInvStep == ConsoleInv /\ [ConsoleNext]_cvars => IoctlInv'
<1> SUFFICES ASSUME ConsoleInv, [ConsoleNext]_cvars PROVE IoctlInv'
  OBVIOUS
<1>0. IoctlInv
  BY DEF ConsoleInv
<1>1. ASSUME (\E k \in Keys : Type(k)) \/ InputChar \/ InputFlushed \/ ShowText PROVE IoctlInv'
  <2>1. UNCHANGED <<client, lock, req, reply>> /\ (cons' = "rec" <=> cons = "rec")
    BY <1>1 DEF Type, InputChar, InputFlushed, ShowText, kernelVars
  <2> QED
    BY <1>0, <2>1, IoctlSame
<1>2. ASSUME Handler \/ ProcessRead \/ ProcessWrite \/ UNCHANGED cvars PROVE IoctlInv'
  <2>1. UNCHANGED <<client, lock, req, reply>> /\ cons' = cons
    BY <1>2 DEF Handler, ThreadRead, ThreadEcho, ThreadStore, ProcessRead, ProcessWrite,
                cvars, kernelVars
  <2> QED
    BY <1>0, <2>1, IoctlSame
<1>3. ASSUME ProcessIoctlRequest PROVE IoctlInv'
  <2>1. CASE req = <<>>
    <3>1. UNCHANGED <<client, lock, req, reply>> /\ cons = "ioctl" /\ cons' = "input"
      BY <1>3, <2>1 DEF ProcessIoctlRequest
    <3> QED
      BY <1>0, <3>1, IoctlSame
  <2>2. CASE req # <<>>
    <3>1. /\ req' = Tail(req) /\ UNCHANGED <<client, lock>>
          /\ cons' = IF req[1] = "TIOCSWINSZ" THEN "rec" ELSE "input"
          /\ reply' = reply \/ (req[1] = "TIOCGWINSZ" /\ reply' = reply + 1)
      BY <1>3, <2>2 DEF ProcessIoctlRequest
    <3> QED
      BY <1>0, <2>2, <3>1, IoctlRead
  <2> QED
    BY <2>1, <2>2
<1>4. ASSUME ReadWindowSize PROVE IoctlInv'
  <2>1. /\ req # <<>> /\ req' = Tail(req) /\ UNCHANGED <<client, lock, reply>>
        /\ cons = "rec" /\ cons' = "input"
    BY <1>4 DEF ReadWindowSize
  <2>2. req[1] = "rec"
    BY <1>0, <2>1 DEF IoctlInv, Paired
  <2> QED
    BY <1>0, <2>1, <2>2, IoctlRead
<1>5. ASSUME NEW c \in Client, SetGroup(c) PROVE IoctlInv'
  <2>1. UNCHANGED <<client, lock, req, reply>> /\ cons' = cons
    BY <1>5 DEF SetGroup
  <2> QED
    BY <1>0, <2>1, IoctlSame
<1> QED
  BY <1>0, <1>1, <1>2, <1>3, <1>4, <1>5, SetTermiosKeeps, WindowSizeKeeps, WindowSizeEndKeeps
     DEF ConsoleNext, Loop

\* The invariant holds in every state the console reaches.
THEOREM ConsoleInvariant == ConsoleSpec => []ConsoleInv
<1>1. ConsoleInit => ConsoleInv
  BY KeysInvInit, IoctlInvInit DEF ConsoleInv
<1>2. ConsoleInv /\ [ConsoleNext]_cvars => ConsoleInv'
  BY KeysInvStep, IoctlInvStep DEF ConsoleInv
<1> QED
  BY <1>1, <1>2, PTL DEF ConsoleSpec

\* What is written into a pipe between kernel and console program is read as
\* what it was: requests as requests, window sizes as window sizes
\* (DevConsole::ioctl under m_csIoctl, ProcessIoctlRequest), and keys, cooked by
\* ConsoleHandlerMain, as what they stand for.
THEOREM ConsolePipesMatch == ConsoleSpec => []PipesMatch
<1>1. ConsoleInv => PipesMatch
  BY DEF ConsoleInv, KeysInv, IoctlInv, Paired, PipesMatch, RequestsMatch, InputKept
<1> QED
  BY <1>1, ConsoleInvariant, PTL

\* The console's threads are where they can be, at most three characters wait
\* for their echo, and at most one answer is in the pipe m_hIoctlRead.
THEOREM ConsoleTypes == ConsoleSpec => []ConsoleTypeOK
<1>1. ConsoleInv => ConsoleTypeOK
  BY DEF ConsoleInv, KeysInv, IoctlInv, ConsoleTypeOK
<1> QED
  BY <1>1, ConsoleInvariant, PTL
=============================================================================
