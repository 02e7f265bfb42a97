----------------------------- MODULE HeadersProofs -----------------------------
(***************************************************************************)
(* Proofs about the headers with code: the queues of sys/queue.h, and the  *)
(* times of sys/time.h and sys/_timeval.h.                                 *)
(***************************************************************************)
EXTENDS Queues, Bintime, FiniteSetTheorems, WellFoundedInduction, TLAPS

-----------------------------------------------------------------------------
(***************************************************************************)
(* The queues of sys/queue.h, for any number of heads and elements: after  *)
(* every operation the pointers represent the sequences that the operation *)
(* promises.                                                               *)
(*                                                                         *)
(* The argument has three layers: what insertion and removal do to a       *)
(* sequence; what assigning a few pointers does to sequences that are      *)
(* represented by pointers; and, for each kind of queue, that its          *)
(* operations assign these pointers.                                       *)
(***************************************************************************)

(***************************************************************************)
(* Sequences.                                                              *)
(***************************************************************************)
\* The element e becomes the i-th one; the i-th to the j-th one are taken out.
WithElem(s, i, e)    == SubSeq(s, 1, i - 1) \o <<e>> \o SubSeq(s, i, Len(s))
WithoutElem(s, i, j) == SubSeq(s, 1, i - 1) \o SubSeq(s, j + 1, Len(s))

\* The sequence t is s with e at i.
Grown(t, s, i, e) ==
  /\ t \in Seq(Elem) /\ Len(t) = Len(s) + 1
  /\ \A k \in 1 .. Len(s) + 1 : t[k] = IF k < i THEN s[k] ELSE IF k = i THEN e ELSE s[k - 1]

LEMMA ConcatIs ==
  ASSUME NEW E, NEW s \in Seq(E), NEW t \in Seq(E)
  PROVE  /\ s \o t \in Seq(E) /\ Len(s \o t) = Len(s) + Len(t)
         /\ \A k \in 1 .. Len(s) + Len(t) :
              (s \o t)[k] = IF k <= Len(s) THEN s[k] ELSE t[k - Len(s)]
  OBVIOUS

\* An insertion moves the elements from i on by one.
LEMMA WithElemIs ==
  ASSUME NEW s \in Seq(Elem), NEW e \in Elem, NEW i \in 1 .. Len(s) + 1
  PROVE  Grown(WithElem(s, i, e), s, i, e)
  <1> DEFINE a == SubSeq(s, 1, i - 1)
             z == SubSeq(s, i, Len(s))
  <1>0. Len(s) \in Nat /\ i \in Nat  OBVIOUS
  <1>1. /\ a \in Seq(Elem) /\ Len(a) = i - 1
        /\ \A k \in 1 .. i - 1 : a[k] = s[k]
    OBVIOUS
  <1>2. /\ z \in Seq(Elem) /\ Len(z) = Len(s) + 1 - i
        /\ \A k \in 1 .. Len(s) + 1 - i : z[k] = s[i + k - 1]
    OBVIOUS
  <1> HIDE DEF a, z
  <1>3. /\ a \o <<e>> \in Seq(Elem) /\ Len(a \o <<e>>) = i
        /\ \A k \in 1 .. i : (a \o <<e>>)[k] = IF k < i THEN s[k] ELSE e
    BY <1>1
  <1> DEFINE b == a \o <<e>>
  <1> HIDE DEF b
  <1>4. b \in Seq(Elem) /\ Len(b) = i /\ \A k \in 1 .. i : b[k] = IF k < i THEN s[k] ELSE e
    BY <1>3 DEF b
  <1>5. /\ b \o z \in Seq(Elem) /\ Len(b \o z) = Len(s) + 1
        /\ \A k \in 1 .. Len(s) + 1 : (b \o z)[k] = IF k <= i THEN b[k] ELSE z[k - i]
    BY <1>2, <1>4, ConcatIs
  <1>6. ASSUME NEW k \in 1 .. Len(s) + 1
        PROVE  (b \o z)[k] = IF k < i THEN s[k] ELSE IF k = i THEN e ELSE s[k - 1]
    <2>1. CASE k <= i  BY <1>4, <1>5, <2>1
    <2>2. CASE k > i
      <3>1. (b \o z)[k] = z[k - i] /\ k - i \in 1 .. Len(s) + 1 - i  BY <1>5, <2>2
      <3>2. z[k - i] = s[i + (k - i) - 1]  BY <1>2, <3>1
      <3> QED BY <2>2, <3>1, <3>2
    <2>3. k <= i \/ k > i  BY <1>0
    <2> QED BY <2>1, <2>2, <2>3
  <1> QED BY <1>5, <1>6 DEF WithElem, Grown, a, b, z

\* A removal moves the elements behind j to i.
LEMMA WithoutElemIs ==
  ASSUME NEW s \in Seq(Elem), NEW i \in 1 .. Len(s), NEW j \in i .. Len(s)
  PROVE  /\ WithoutElem(s, i, j) \in Seq(Elem)
         /\ Len(WithoutElem(s, i, j)) = Len(s) - (j + 1 - i)
         /\ \A k \in 1 .. Len(s) - (j + 1 - i) :
              WithoutElem(s, i, j)[k] = IF k < i THEN s[k] ELSE s[k + (j + 1 - i)]
  <1> DEFINE a == SubSeq(s, 1, i - 1)
             z == SubSeq(s, j + 1, Len(s))
  <1>0. Len(s) \in Nat /\ i \in Nat /\ j \in Nat /\ i <= j /\ j <= Len(s)  OBVIOUS
  <1>1. /\ a \in Seq(Elem) /\ Len(a) = i - 1
        /\ \A k \in 1 .. i - 1 : a[k] = s[k]
    OBVIOUS
  <1>2. /\ z \in Seq(Elem) /\ Len(z) = Len(s) - j
        /\ \A k \in 1 .. Len(s) - j : z[k] = s[j + k]
    OBVIOUS
  <1> HIDE DEF a, z
  <1>3. /\ a \o z \in Seq(Elem) /\ Len(a \o z) = Len(s) - (j + 1 - i)
        /\ \A k \in 1 .. Len(s) - (j + 1 - i) : (a \o z)[k] = IF k < i THEN a[k] ELSE z[k - (i - 1)]
    <2>1. /\ a \o z \in Seq(Elem) /\ Len(a \o z) = (i - 1) + (Len(s) - j)
          /\ \A k \in 1 .. (i - 1) + (Len(s) - j) :
               (a \o z)[k] = IF k <= i - 1 THEN a[k] ELSE z[k - (i - 1)]
      <3>1. a \in Seq(Elem) /\ z \in Seq(Elem) /\ Len(a) = i - 1 /\ Len(z) = Len(s) - j
        BY <1>1, <1>2
      <3>2. /\ a \o z \in Seq(Elem) /\ Len(a \o z) = Len(a) + Len(z)
            /\ \A k \in 1 .. Len(a) + Len(z) :
                 (a \o z)[k] = IF k <= Len(a) THEN a[k] ELSE z[k - Len(a)]
        BY <3>1, ConcatIs
      <3> QED BY <3>1, <3>2
    <2>2. (i - 1) + (Len(s) - j) = Len(s) - (j + 1 - i)
      BY <1>0
    <2>3. \A k \in 1 .. (i - 1) + (Len(s) - j) : k <= i - 1 <=> k < i
      BY <1>0
    <2> QED BY <2>1, <2>2, <2>3
  <1>4. ASSUME NEW k \in 1 .. Len(s) - (j + 1 - i)
        PROVE  (a \o z)[k] = IF k < i THEN s[k] ELSE s[k + (j + 1 - i)]
    <2>1. CASE k < i  BY <1>1, <1>3, <2>1
    <2>2. CASE k >= i
      <3>1. (a \o z)[k] = z[k - (i - 1)] /\ k - (i - 1) \in 1 .. Len(s) - j  BY <1>3, <2>2
      <3>2. z[k - (i - 1)] = s[j + (k - (i - 1))]  BY <1>2, <3>1
      <3> QED BY <2>2, <3>1, <3>2
    <2>3. k < i \/ k >= i  BY <1>0
    <2> QED BY <2>1, <2>2, <2>3
  <1> QED BY <1>3, <1>4 DEF WithoutElem, a, z

-----------------------------------------------------------------------------
(***************************************************************************)
(* Sequences that are represented by pointers.                             *)
(***************************************************************************)
\* The cell that points to the element behind the i-th one of a queue.
CellAt(L, h, i) == IF i = 0 THEN h ELSE L[h][i]

\* A sequence for each head, and no element twice.
Queued(L) ==
  /\ L \in [Heads -> Seq(Elem)]
  /\ \A g, h \in Heads : \A i \in 1 .. Len(L[g]), j \in 1 .. Len(L[h]) :
       L[g][i] = L[h][j] => g = h /\ i = j

Unqueued(L, e) == e \in Elem /\ \A h \in Heads : \A i \in 1 .. Len(L[h]) : L[h][i] # e

\* Every cell of a queue points to the next element, the last one to none.
Chained(nx, L) ==
  /\ nx \in [Cell -> Elem \cup {Null}]
  /\ \A h \in Heads : \A i \in 0 .. Len(L[h]) :
       nx[CellAt(L, h, i)] = IF i = Len(L[h]) THEN Null ELSE L[h][i + 1]

\* Every element of a queue points back, to the cell before it.
BackChained(pv, L) ==
  /\ pv \in [Elem -> Cell \cup {Null}]
  /\ \A h \in Heads : \A i \in 1 .. Len(L[h]) : pv[L[h][i]] = CellAt(L, h, i - 1)

\* Every head knows the last cell of its queue.
KnowsEnd(la, L) == la \in [Heads -> Cell] /\ \A h \in Heads : la[h] = CellAt(L, h, Len(L[h]))

\* Different places in the queues have different cells.
LEMMA CellsApart ==
  ASSUME NEW L, Queued(L)
  PROVE  /\ \A h \in Heads : Len(L[h]) \in Nat /\ L[h] \in Seq(Elem)
         /\ \A h \in Heads : \A i \in 1 .. Len(L[h]) : L[h][i] \in Elem
         /\ \A h \in Heads : \A i \in 0 .. Len(L[h]) : CellAt(L, h, i) \in Cell
         /\ \A g, h \in Heads : \A i \in 0 .. Len(L[g]), j \in 0 .. Len(L[h]) :
              CellAt(L, g, i) = CellAt(L, h, j) => g = h /\ i = j
  <1>1. \A h \in Heads : Len(L[h]) \in Nat /\ L[h] \in Seq(Elem)
    BY DEF Queued
  <1>2. \A h \in Heads : \A i \in 1 .. Len(L[h]) : L[h][i] \in Elem
    BY <1>1
  <1>3. \A h \in Heads : \A i \in 0 .. Len(L[h]) : CellAt(L, h, i) \in Cell
    BY <1>1, <1>2 DEF CellAt, Cell
  <1>4. ASSUME NEW g \in Heads, NEW h \in Heads, NEW i \in 0 .. Len(L[g]), NEW j \in 0 .. Len(L[h]),
               CellAt(L, g, i) = CellAt(L, h, j)
        PROVE  g = h /\ i = j
    <2>1. CASE i = 0 /\ j = 0  BY <1>4, <2>1 DEF CellAt
    <2>2. CASE i = 0 /\ j # 0  BY <1>1, <1>2, <1>4, <2>2, CellsDiffer DEF CellAt
    <2>3. CASE i # 0 /\ j = 0  BY <1>1, <1>2, <1>4, <2>3, CellsDiffer DEF CellAt
    <2>4. CASE i # 0 /\ j # 0
      <3>1. i \in 1 .. Len(L[g]) /\ j \in 1 .. Len(L[h])  BY <1>1, <2>4
      <3> QED BY <1>4, <2>4, <3>1 DEF CellAt, Queued
    <2> QED BY <2>1, <2>2, <2>3, <2>4
  <1> QED BY <1>1, <1>2, <1>3, <1>4

\* Elements are in at most one place, so that no queue is longer than there are elements.
LEMMA QueuesFit ==
  ASSUME NEW L, Queued(L), NEW h \in Heads
  PROVE  Cardinality(Elem) \in Nat /\ Len(L[h]) <= Cardinality(Elem)
  <1> DEFINE n == Len(L[h])
  <1>1. n \in Nat /\ L[h] \in [1 .. n -> Elem]  BY DEF Queued
  <1>2. Cardinality(Elem) \in Nat  BY CellsDiffer, FS_CardinalityType
  <1>3. IsFiniteSet(1 .. n) /\ Cardinality(1 .. n) = n
    <2>1. 1 \in Int /\ n \in Int  BY <1>1
    <2>2. /\ IsFiniteSet(1 .. n)
          /\ Cardinality(1 .. n) = IF 1 > n THEN 0 ELSE n - 1 + 1
      BY <2>1, FS_Interval
    <2> QED BY <1>1, <2>2
  <1>4. ASSUME Cardinality(Elem) < n PROVE FALSE
    <2>1. PICK i, j \in 1 .. n : i # j /\ L[h][i] = L[h][j]
      BY <1>1, <1>3, <1>4, CellsDiffer, FS_PigeonHole
    <2> QED BY <2>1 DEF Queued
  <1> QED BY <1>1, <1>2, <1>4

\* A set of numbers has a least one.
LEMMA LeastNumber ==
  ASSUME NEW T, T \subseteq Nat, T # {}
  PROVE  \E x \in T : \A y \in T : x <= y
  <1> DEFINE R == OpToRel(<, Nat)
  <1>1. IsWellFoundedOn(R, Nat)  BY NatLessThanWellFounded
  <1>2. \E x \in T : \A y \in T : <<y, x>> \notin R
    <2> HIDE DEF R
    <2> QED BY <1>1, WFMin
  <1>3. \A x, y \in Nat : <<y, x>> \notin R => x <= y
    BY DEF OpToRel
  <1> QED BY <1>2, <1>3

\* A walk over the pointers finds the sequence that they represent.
LEMMA WalkFinds ==
  ASSUME NEW L, Queued(L), NEW nx, Chained(nx, L), NEW h \in Heads
  PROVE  WalkFrom(nx, h) = L[h]
  <1> DEFINE n == Cardinality(Elem)
             D == 0 .. n
             s == L[h]
             Step(w) == IF nx[EndOf(h, w)] = Null THEN w ELSE Append(w, nx[EndOf(h, w)])
             upTo == [k \in D |-> SubSeq(s, 1, IF k <= Len(s) THEN k ELSE Len(s))]
             IsWalk(f) == f = [k \in D |-> IF k = 0 THEN <<>> ELSE Step(f[k - 1])]
  <1>1. n \in Nat /\ Len(s) \in Nat /\ Len(s) <= n /\ s \in Seq(Elem)
    BY QueuesFit, CellsApart
  <1>2. ASSUME NEW k \in 0 .. Len(s)
        PROVE  Step(SubSeq(s, 1, k)) = IF k = Len(s) THEN s ELSE SubSeq(s, 1, k + 1)
    <2> DEFINE w == SubSeq(s, 1, k)
    <2>1. w \in Seq(Elem) /\ Len(w) = k /\ \A i \in 1 .. k : w[i] = s[i]
      BY <1>1
    <2> HIDE DEF w
    <2>2. EndOf(h, w) = CellAt(L, h, k)
      <3>1. CASE k = 0
        <4>1. w = <<>>  BY <2>1, <3>1
        <4> QED BY <3>1, <4>1 DEF EndOf, CellAt
      <3>2. CASE k # 0
        <4>1. w # <<>> /\ k \in 1 .. k  BY <1>1, <2>1, <3>2
        <4> QED BY <2>1, <3>2, <4>1 DEF EndOf, CellAt
      <3> QED BY <3>1, <3>2
    <2>3. nx[EndOf(h, w)] = IF k = Len(s) THEN Null ELSE s[k + 1]
      BY <2>2 DEF Chained
    <2>4. CASE k = Len(s)
      <3>1. w = s  BY <1>1, <2>4 DEF w
      <3> QED BY <2>3, <2>4, <3>1 DEF w
    <2>5. CASE k # Len(s)
      <3>1. k + 1 \in 1 .. Len(s)  BY <1>1, <2>5
      <3>2. s[k + 1] \in Elem /\ s[k + 1] # Null  BY <3>1, CellsApart, CellsDiffer
      <3>3. Step(w) = Append(w, s[k + 1])  BY <2>3, <2>5, <3>2
      <3>4. Append(w, s[k + 1]) = SubSeq(s, 1, k + 1)  BY <1>1, <3>1 DEF w
      <3> QED BY <2>5, <3>3, <3>4 DEF w
    <2> QED BY <2>4, <2>5
  <1> HIDE DEF Step
  <1>3. /\ upTo[0] = <<>> /\ upTo = [k \in D |-> upTo[k]]
        /\ \A k \in 0 .. Len(s) : upTo[k] = SubSeq(s, 1, k)
        /\ \A k \in Len(s) .. n : upTo[k] = s
    <2>1. \A k \in 0 .. Len(s) : k \in D /\ upTo[k] = SubSeq(s, 1, k)  BY <1>1
    <2>2. \A k \in Len(s) .. n : k \in D /\ upTo[k] = SubSeq(s, 1, Len(s))  BY <1>1
    <2>3. SubSeq(s, 1, Len(s)) = s /\ SubSeq(s, 1, 0) = <<>> /\ 0 \in 0 .. Len(s)  BY <1>1
    <2> QED BY <2>1, <2>2, <2>3
  <1> HIDE DEF upTo
  <1>4. ASSUME NEW k \in 1 .. n PROVE upTo[k] = Step(upTo[k - 1])
    <2>1. CASE k <= Len(s)
      <3>1. k - 1 \in 0 .. Len(s) /\ k - 1 # Len(s) /\ (k - 1) + 1 = k /\ k \in 0 .. Len(s)
        BY <1>1, <2>1
      <3> QED BY <1>2, <1>3, <3>1
    <2>2. CASE ~(k <= Len(s))
      <3>1. k \in Len(s) .. n /\ k - 1 \in Len(s) .. n /\ Len(s) \in 0 .. Len(s) /\ Len(s) \in Len(s) .. n
        BY <1>1, <2>2
      <3>2. Step(SubSeq(s, 1, Len(s))) = s /\ SubSeq(s, 1, Len(s)) = s
        BY <1>2, <1>3, <3>1
      <3> QED BY <1>3, <3>1, <3>2
    <2> QED BY <2>1, <2>2
  <1>5. IsWalk(upTo)
    <2>1. ASSUME NEW k \in D PROVE upTo[k] = IF k = 0 THEN <<>> ELSE Step(upTo[k - 1])
      <3>1. k = 0 \/ k \in 1 .. n  BY <1>1
      <3> QED BY <1>1, <1>3, <1>4, <3>1
    <2> QED BY <1>3, <2>1
  <1>6. ASSUME NEW f, IsWalk(f) PROVE f[n] = s
    <2>1. \A k \in D : f[k] = IF k = 0 THEN <<>> ELSE Step(f[k - 1])
      BY <1>6
    <2> DEFINE T == {k \in D : f[k] # upTo[k]}
    <2>2. ASSUME T # {} PROVE FALSE
      <3>1. T \subseteq Nat  BY <1>1
      <3>2. PICK k \in T : \A i \in T : k <= i
        <4> HIDE DEF T
        <4> QED BY <2>2, <3>1, LeastNumber
      <3>3. k \in D /\ f[k] # upTo[k]  OBVIOUS
      <3>4. k # 0  BY <1>3, <2>1, <3>3
      <3>5. k \in 1 .. n /\ k - 1 \in D /\ ~(k <= k - 1)  BY <1>1, <3>3, <3>4
      <3>6. k - 1 \notin T  BY <3>2, <3>5
      <3>7. f[k - 1] = upTo[k - 1]  BY <3>5, <3>6
      <3> QED BY <1>4, <2>1, <3>3, <3>4, <3>5, <3>7
    <2>3. n \in D /\ n \in Len(s) .. n  BY <1>1
    <2> QED BY <1>3, <2>2, <2>3
  <1> DEFINE walk == CHOOSE f : IsWalk(f)
  <1>7. IsWalk(walk)
    <2> HIDE DEF IsWalk
    <2> QED BY <1>5
  <1>8. WalkFrom(nx, h) = walk[n]
    BY DEF WalkFrom, Step
  <1> QED BY <1>6, <1>7, <1>8

-----------------------------------------------------------------------------
(***************************************************************************)
(* What the operations make of the sequences, and the pointers that have to*)
(* be assigned for it.                                                     *)
(***************************************************************************)
Put(L, h, i, e) == [L EXCEPT ![h] = WithElem(@, i, e)]
Cut(L, h, i, j) == [L EXCEPT ![h] = WithoutElem(@, i, j)]
Joined(L, h, g) == [L EXCEPT ![h] = L[h] \o L[g], ![g] = <<>>]
Swapped(L, h, g) == [L EXCEPT ![h] = L[g], ![g] = L[h]]

\* An insertion: the cells of h up to the new element stay, the others move by one.
LEMMA PutCells ==
  ASSUME NEW L, Queued(L), NEW h \in Heads, NEW i \in 1 .. Len(L[h]) + 1,
         NEW e, Unqueued(L, e)
  PROVE  /\ Queued(Put(L, h, i, e))
         /\ \A g \in Heads \ {h} : Put(L, h, i, e)[g] = L[g]
         /\ Len(Put(L, h, i, e)[h]) = Len(L[h]) + 1
         /\ \A k \in 1 .. Len(L[h]) + 1 :
              Put(L, h, i, e)[h][k] = IF k < i THEN L[h][k] ELSE IF k = i THEN e ELSE L[h][k - 1]
         /\ \A k \in 0 .. Len(L[h]) + 1 :
              CellAt(Put(L, h, i, e), h, k)
                = IF k < i THEN CellAt(L, h, k) ELSE IF k = i THEN e ELSE CellAt(L, h, k - 1)
  <1> DEFINE M == Put(L, h, i, e)
             n == Len(L[h])
  <1>1. L \in [Heads -> Seq(Elem)] /\ n \in Nat /\ e \in Elem /\ L[h] \in Seq(Elem)
    BY DEF Queued, Unqueued
  <1>2. /\ M \in [Heads -> Seq(Elem)] /\ Len(M[h]) = n + 1
        /\ \A g \in Heads \ {h} : M[g] = L[g]
        /\ \A k \in 1 .. n + 1 : M[h][k] = IF k < i THEN L[h][k] ELSE IF k = i THEN e ELSE L[h][k - 1]
    <2>1. i \in 1 .. Len(L[h]) + 1  OBVIOUS
    <2>2. Grown(WithElem(L[h], i, e), L[h], i, e)
      BY ONLY <1>1, <2>1, WithElemIs
    <2> QED BY <1>1, <2>2 DEF Put, Grown
  <1> HIDE DEF M
  <1>3. \A k \in 0 .. n + 1 :
          CellAt(M, h, k) = IF k < i THEN CellAt(L, h, k) ELSE IF k = i THEN e ELSE CellAt(L, h, k - 1)
    <2> SUFFICES ASSUME NEW k \in 0 .. n + 1
                 PROVE  CellAt(M, h, k) = IF k < i THEN CellAt(L, h, k)
                                          ELSE IF k = i THEN e ELSE CellAt(L, h, k - 1)
      OBVIOUS
    <2>1. CASE k = 0  BY <1>1, <2>1 DEF CellAt
    <2>2. CASE k # 0
      <3>1. k \in 1 .. n + 1 /\ (k > i => k - 1 # 0)  BY <1>1, <2>2
      <3> QED BY <1>1, <1>2, <2>2, <3>1 DEF CellAt
    <2> QED BY <2>1, <2>2
  \* Where an element of M was in L; 0 stands for the new one.
  <1> DEFINE From(g, k) == IF g = h /\ k = i THEN 0 ELSE IF g = h /\ k > i THEN k - 1 ELSE k
  <1>4. ASSUME NEW g \in Heads, NEW k \in 1 .. Len(M[g])
        PROVE  \/ g = h /\ k = i /\ M[g][k] = e
               \/ ~(g = h /\ k = i) /\ From(g, k) \in 1 .. Len(L[g]) /\ M[g][k] = L[g][From(g, k)]
    <2>1. CASE g # h  BY <1>2, <2>1
    <2>2. CASE g = h
      <3>1. k \in 1 .. n + 1  BY <1>2, <2>2
      <3> QED BY <1>1, <1>2, <2>2, <3>1
    <2> QED BY <2>1, <2>2
  <1>5. \A g1, g2 \in Heads : \A k1 \in 1 .. Len(M[g1]), k2 \in 1 .. Len(M[g2]) :
          M[g1][k1] = M[g2][k2] => g1 = g2 /\ k1 = k2
    <2> SUFFICES ASSUME NEW g1 \in Heads, NEW g2 \in Heads,
                        NEW k1 \in 1 .. Len(M[g1]), NEW k2 \in 1 .. Len(M[g2]), M[g1][k1] = M[g2][k2]
                 PROVE  g1 = g2 /\ k1 = k2
      OBVIOUS
    <2> HIDE DEF From
    <2>1. CASE g1 = h /\ k1 = i  BY <1>4, <2>1 DEF Unqueued
    <2>2. CASE g2 = h /\ k2 = i  BY <1>4, <2>2 DEF Unqueued
    <2>3. CASE ~(g1 = h /\ k1 = i) /\ ~(g2 = h /\ k2 = i)
      <3>1. g1 = g2 /\ From(g1, k1) = From(g2, k2)
        BY SMTT(30), <1>4, <2>3 DEF Queued
      <3>2. k1 \in Nat /\ k2 \in Nat  BY <1>2
      <3> QED BY <2>3, <3>1, <3>2 DEF From
    <2> QED BY <2>1, <2>2, <2>3
  <1> QED BY <1>2, <1>3, <1>5 DEF Queued, M

\* A removal: the cells of h before i stay, those behind j move to i.
LEMMA CutCells ==
  ASSUME NEW L, Queued(L), NEW h \in Heads, NEW i \in 1 .. Len(L[h]), NEW j \in i .. Len(L[h])
  PROVE  /\ Queued(Cut(L, h, i, j))
         /\ \A g \in Heads \ {h} : Cut(L, h, i, j)[g] = L[g]
         /\ Len(Cut(L, h, i, j)[h]) = Len(L[h]) - (j + 1 - i)
         /\ \A k \in 1 .. Len(L[h]) - (j + 1 - i) :
              Cut(L, h, i, j)[h][k] = IF k < i THEN L[h][k] ELSE L[h][k + (j + 1 - i)]
         /\ \A k \in 0 .. Len(L[h]) - (j + 1 - i) :
              CellAt(Cut(L, h, i, j), h, k)
                = IF k < i THEN CellAt(L, h, k) ELSE CellAt(L, h, k + (j + 1 - i))
  <1> DEFINE M == Cut(L, h, i, j)
             n == Len(L[h])
             d == j + 1 - i
  <1>1. /\ L \in [Heads -> Seq(Elem)] /\ n \in Nat /\ L[h] \in Seq(Elem)
        /\ i \in Nat /\ j \in Nat /\ i >= 1 /\ i <= j /\ j <= n
        /\ d \in Nat /\ d >= 1 /\ n - d \in Nat /\ n - d >= i - 1
    BY DEF Queued
  <1>2. /\ M \in [Heads -> Seq(Elem)] /\ Len(M[h]) = n - d
        /\ \A g \in Heads \ {h} : M[g] = L[g]
        /\ \A k \in 1 .. n - d : M[h][k] = IF k < i THEN L[h][k] ELSE L[h][k + d]
    <2>1. /\ WithoutElem(L[h], i, j) \in Seq(Elem) /\ Len(WithoutElem(L[h], i, j)) = n - d
          /\ \A k \in 1 .. n - d : WithoutElem(L[h], i, j)[k] = IF k < i THEN L[h][k] ELSE L[h][k + d]
      BY <1>1, WithoutElemIs
    <2> HIDE DEF d
    <2> QED BY <1>1, <2>1 DEF Cut
  <1> HIDE DEF M, d
  <1>3. \A k \in 0 .. n - d : CellAt(M, h, k) = IF k < i THEN CellAt(L, h, k) ELSE CellAt(L, h, k + d)
    <2> SUFFICES ASSUME NEW k \in 0 .. n - d
                 PROVE  CellAt(M, h, k) = IF k < i THEN CellAt(L, h, k) ELSE CellAt(L, h, k + d)
      OBVIOUS
    <2>1. CASE k = 0  BY <1>1, <2>1 DEF CellAt
    <2>2. CASE k # 0
      <3>1. k \in 1 .. n - d /\ k + d # 0  BY <1>1, <2>2
      <3> QED BY <1>2, <2>2, <3>1 DEF CellAt
    <2> QED BY <2>1, <2>2
  \* Where an element of M was in L.
  <1> DEFINE From(g, k) == IF g = h /\ ~(k < i) THEN k + d ELSE k
  <1>4. ASSUME NEW g \in Heads, NEW k \in 1 .. Len(M[g])
        PROVE  From(g, k) \in 1 .. Len(L[g]) /\ M[g][k] = L[g][From(g, k)]
    <2>1. CASE g # h  BY <1>2, <2>1
    <2>2. CASE g = h
      <3>1. k \in 1 .. n - d  BY <1>2, <2>2
      <3> QED BY <1>1, <1>2, <2>2, <3>1
    <2> QED BY <2>1, <2>2
  <1>5. \A g1, g2 \in Heads : \A k1 \in 1 .. Len(M[g1]), k2 \in 1 .. Len(M[g2]) :
          M[g1][k1] = M[g2][k2] => g1 = g2 /\ k1 = k2
    <2> SUFFICES ASSUME NEW g1 \in Heads, NEW g2 \in Heads,
                        NEW k1 \in 1 .. Len(M[g1]), NEW k2 \in 1 .. Len(M[g2]), M[g1][k1] = M[g2][k2]
                 PROVE  g1 = g2 /\ k1 = k2
      OBVIOUS
    <2> HIDE DEF From
    <2>1. g1 = g2 /\ From(g1, k1) = From(g2, k2)
      BY SMTT(30), <1>4 DEF Queued
    <2>2. k1 \in Nat /\ k2 \in Nat  BY <1>2
    <2> QED BY <1>1, <2>1, <2>2 DEF From
  <1> QED BY <1>2, <1>3, <1>5 DEF Queued, M, d

\* The pointers to be assigned for an insertion behind the cell before i.
LEMMA PutPointers ==
  ASSUME NEW L, Queued(L), NEW nx, Chained(nx, L), NEW h \in Heads, NEW i \in 1 .. Len(L[h]) + 1,
         NEW e, Unqueued(L, e)
  PROVE  /\ \A nx2 \in [Cell -> Elem \cup {Null}] :
              /\ nx2[e] = nx[CellAt(L, h, i - 1)] /\ nx2[CellAt(L, h, i - 1)] = e
              /\ \A x \in Cell \ {e, CellAt(L, h, i - 1)} : nx2[x] = nx[x]
              => Chained(nx2, Put(L, h, i, e))
         /\ \A la, la2 \in [Heads -> Cell] :
              /\ KnowsEnd(la, L)
              /\ la2[h] = IF nx[CellAt(L, h, i - 1)] = Null THEN e ELSE la[h]
              /\ \A g \in Heads \ {h} : la2[g] = la[g]
              => KnowsEnd(la2, Put(L, h, i, e))
         /\ \A pv, pv2 \in [Elem -> Cell \cup {Null}] :
              /\ BackChained(pv, L)
              /\ pv2[e] = CellAt(L, h, i - 1)
              /\ \A x \in Elem \ {e} :
                   pv2[x] = IF x = nx[CellAt(L, h, i - 1)] THEN e ELSE pv[x]
              => BackChained(pv2, Put(L, h, i, e))
  <1> DEFINE M == Put(L, h, i, e)
             n == Len(L[h])
             c == CellAt(L, h, i - 1)
  <1>1. /\ Queued(M)
        /\ \A g \in Heads \ {h} : M[g] = L[g]
        /\ Len(M[h]) = n + 1
        /\ \A k \in 1 .. n + 1 : M[h][k] = IF k < i THEN L[h][k] ELSE IF k = i THEN e ELSE L[h][k - 1]
        /\ \A k \in 0 .. n + 1 :
             CellAt(M, h, k) = IF k < i THEN CellAt(L, h, k) ELSE IF k = i THEN e ELSE CellAt(L, h, k - 1)
    BY PutCells
  <1>2. /\ \A g \in Heads : Len(L[g]) \in Nat
        /\ \A g \in Heads : \A k \in 1 .. Len(L[g]) : L[g][k] \in Elem
        /\ \A g \in Heads : \A k \in 0 .. Len(L[g]) : CellAt(L, g, k) \in Cell
        /\ \A f, g \in Heads : \A k \in 0 .. Len(L[f]), m \in 0 .. Len(L[g]) :
             CellAt(L, f, k) = CellAt(L, g, m) => f = g /\ k = m
    BY CellsApart
  <1>3. n \in Nat /\ i \in Nat /\ i >= 1 /\ i <= n + 1 /\ i - 1 \in 0 .. n
    BY <1>2
  <1>4. e \in Elem /\ e \in Cell /\ \A g \in Heads : \A k \in 0 .. Len(L[g]) : CellAt(L, g, k) # e
    BY <1>2, CellsDiffer DEF Unqueued, CellAt, Cell
  <1>5. nx[c] = IF i = n + 1 THEN Null ELSE L[h][i]
    BY <1>3 DEF Chained
  <1>6. \A g \in Heads \ {h} : \A k : CellAt(M, g, k) = CellAt(L, g, k)
    BY <1>1 DEF CellAt
  <1>7. \A g \in Heads : \A k \in 1 .. Len(L[g]) : CellAt(L, g, k) = L[g][k]
    BY <1>2 DEF CellAt
  <1> HIDE DEF M, n, c
  <1>8. ASSUME NEW nx2 \in [Cell -> Elem \cup {Null}], nx2[e] = nx[c], nx2[c] = e,
               \A x \in Cell \ {e, c} : nx2[x] = nx[x]
        PROVE  Chained(nx2, M)
    <2> SUFFICES ASSUME NEW g \in Heads, NEW k \in 0 .. Len(M[g])
                 PROVE  nx2[CellAt(M, g, k)] = IF k = Len(M[g]) THEN Null ELSE M[g][k + 1]
      BY <1>8 DEF Chained
    <2>1. CASE g # h
      <3>1. k \in 0 .. Len(L[g]) /\ CellAt(L, g, k) \in Cell /\ CellAt(L, g, k) # e
        BY <1>1, <1>2, <1>4, <2>1
      <3>2. CellAt(L, g, k) # c  BY <1>2, <1>3, <2>1, <3>1 DEF c, n
      <3>3. nx2[CellAt(L, g, k)] = nx[CellAt(L, g, k)]  BY <1>8, <3>1, <3>2
      <3> QED BY <1>1, <1>6, <2>1, <3>1, <3>3 DEF Chained
    <2>2. CASE g = h
      <3>1. k \in 0 .. n + 1  BY <1>1, <2>2
      <3>2. CASE k < i - 1
        <4>1. k \in 0 .. n /\ k # i - 1 /\ k # n /\ k < i /\ k + 1 < i /\ k + 1 \in 1 .. n + 1 /\ k # n + 1
          BY <1>3, <3>1, <3>2
        <4>2. CellAt(L, h, k) \in Cell \ {e, c}  BY <1>2, <1>3, <1>4, <4>1 DEF c, n
        <4>3. nx2[CellAt(L, h, k)] = L[h][k + 1]  BY <1>8, <4>1, <4>2 DEF Chained, n
        <4> QED BY <1>1, <2>2, <3>1, <4>1, <4>3
      <3>3. CASE k = i - 1
        <4>1. CellAt(M, h, k) = c /\ k + 1 \in 1 .. n + 1 /\ k + 1 = i /\ k # n + 1
          BY <1>1, <1>3, <3>1, <3>3 DEF c
        <4>2. M[h][k + 1] = e  BY <1>1, <4>1
        <4> QED BY <1>1, <1>8, <2>2, <4>1, <4>2
      <3>4. CASE k = i
        <4>1. CellAt(M, h, k) = e /\ ~(k < i)  BY <1>1, <1>3, <3>1, <3>4
        <4>2. CASE i = n + 1  BY <1>1, <1>5, <1>8, <2>2, <3>4, <4>1, <4>2
        <4>3. CASE i # n + 1
          <5>1. k + 1 \in 1 .. n + 1 /\ ~(k + 1 < i) /\ k + 1 # i /\ (k + 1) - 1 = i /\ k # n + 1
            BY <1>3, <3>4, <4>3
          <5>2. M[h][k + 1] = L[h][i]  BY <1>1, <5>1
          <5> QED BY <1>1, <1>5, <1>8, <2>2, <4>1, <4>3, <5>1, <5>2
        <4> QED BY <4>2, <4>3
      <3>5. CASE k > i
        <4>1. k - 1 \in 0 .. n /\ k - 1 # i - 1 /\ ~(k < i) /\ k # i  BY <1>3, <3>1, <3>5
        <4>2. CellAt(M, h, k) = CellAt(L, h, k - 1)  BY <1>1, <3>1, <4>1
        <4>3. CellAt(L, h, k - 1) \in Cell \ {e, c}  BY <1>2, <1>3, <1>4, <4>1 DEF c, n
        <4>4. nx2[CellAt(L, h, k - 1)] = IF k - 1 = n THEN Null ELSE L[h][(k - 1) + 1]
          BY <1>8, <4>1, <4>3 DEF Chained, n
        <4>5. CASE k = n + 1  BY <1>1, <1>3, <2>2, <4>2, <4>4, <4>5
        <4>6. CASE k # n + 1
          <5>1. k - 1 # n /\ k + 1 \in 1 .. n + 1 /\ ~(k + 1 < i) /\ k + 1 # i /\ (k + 1) - 1 = (k - 1) + 1
            BY <1>3, <3>1, <3>5, <4>6
          <5>2. M[h][k + 1] = L[h][(k + 1) - 1]  BY <1>1, <5>1
          <5> QED BY <1>1, <2>2, <4>2, <4>4, <4>6, <5>1, <5>2
        <4> QED BY <4>5, <4>6
      <3> QED BY <1>3, <3>1, <3>2, <3>3, <3>4, <3>5
    <2> QED BY <2>1, <2>2
  <1>9. ASSUME NEW la \in [Heads -> Cell], NEW la2 \in [Heads -> Cell], KnowsEnd(la, L),
               la2[h] = IF nx[c] = Null THEN e ELSE la[h],
               \A g \in Heads \ {h} : la2[g] = la[g]
        PROVE  KnowsEnd(la2, M)
    <2>1. \A g \in Heads \ {h} : la2[g] = CellAt(M, g, Len(M[g]))
      BY <1>1, <1>6, <1>9 DEF KnowsEnd
    <2>2. la2[h] = CellAt(M, h, Len(M[h]))
      <3>1. n + 1 \in 0 .. n + 1 /\ ~(n + 1 < i)  BY <1>3
      <3>2. CASE i = n + 1  BY <1>1, <1>5, <1>9, <3>1, <3>2
      <3>3. CASE i # n + 1
        <4>1. L[h][i] \in Elem  BY <1>2, <1>3, <3>3 DEF n
        <4>2. nx[c] # Null  BY <1>5, <3>3, <4>1, CellsDiffer
        <4>3. CellAt(M, h, n + 1) = CellAt(L, h, (n + 1) - 1) /\ (n + 1) - 1 = n
          BY <1>1, <1>3, <3>1, <3>3
        <4> QED BY <1>1, <1>9, <4>2, <4>3 DEF KnowsEnd, n
      <3> QED BY <3>2, <3>3
    <2> QED BY <2>1, <2>2 DEF KnowsEnd
  <1>10. ASSUME NEW pv \in [Elem -> Cell \cup {Null}], NEW pv2 \in [Elem -> Cell \cup {Null}],
                BackChained(pv, L), pv2[e] = c,
                \A x \in Elem \ {e} : pv2[x] = IF x = nx[c] THEN e ELSE pv[x]
         PROVE  BackChained(pv2, M)
    <2> SUFFICES ASSUME NEW g \in Heads, NEW k \in 1 .. Len(M[g])
                 PROVE  pv2[M[g][k]] = CellAt(M, g, k - 1)
      BY DEF BackChained
    <2>1. \A f \in Heads : \A m \in 1 .. Len(L[f]) : L[f][m] \in Elem \ {e}
      BY <1>2 DEF Unqueued
    <2>2. CASE g # h
      <3>1. k \in 1 .. Len(L[g]) /\ M[g][k] = L[g][k]  BY <1>1, <2>2
      <3>2. L[g][k] # nx[c]
        <4>1. CASE i = n + 1  BY <1>5, <2>1, <3>1, <4>1, CellsDiffer
        <4>2. CASE i # n + 1
          <5>1. i \in 1 .. Len(L[h])  BY <1>3, <4>2 DEF n
          <5> QED BY <1>5, <2>2, <3>1, <4>2, <5>1 DEF Queued
        <4> QED BY <4>1, <4>2
      <3>3. pv2[L[g][k]] = pv[L[g][k]]  BY <1>10, <2>1, <3>1, <3>2
      <3> QED BY <1>6, <1>10, <2>2, <3>1, <3>3 DEF BackChained
    <2>3. CASE g = h
      <3>1. k \in 1 .. n + 1 /\ k - 1 \in 0 .. n + 1  BY <1>1, <1>3, <2>3
      <3>2. CASE k < i
        <4>1. k \in 1 .. n /\ k - 1 < i  BY <1>3, <3>1, <3>2
        <4>2. L[h][k] # nx[c]
          <5>1. CASE i = n + 1  BY <1>5, <2>1, <4>1, <5>1, CellsDiffer DEF n
          <5>2. CASE i # n + 1
            <6>1. i \in 1 .. n /\ i # k  BY <1>3, <3>2, <5>2
            <6> QED BY <1>5, <4>1, <5>2, <6>1 DEF Queued, n
          <5> QED BY <5>1, <5>2
        <4>3. pv2[L[h][k]] = pv[L[h][k]]  BY <1>10, <2>1, <4>1, <4>2 DEF n
        <4>4. pv[L[h][k]] = CellAt(L, h, k - 1)  BY <1>10, <4>1 DEF BackChained, n
        <4>5. M[h][k] = L[h][k] /\ CellAt(M, h, k - 1) = CellAt(L, h, k - 1)
          BY <1>1, <3>1, <3>2, <4>1
        <4> QED BY <2>3, <4>3, <4>4, <4>5
      <3>3. CASE k = i
        <4>1. M[h][k] = e /\ CellAt(M, h, k - 1) = CellAt(L, h, k - 1)  BY <1>1, <1>3, <3>1, <3>3
        <4> QED BY <1>10, <2>3, <3>3, <4>1 DEF c
      <3>4. CASE k = i + 1
        <4>1. M[h][k] = L[h][i] /\ CellAt(M, h, k - 1) = e /\ i # n + 1 /\ i \in 1 .. n
          BY <1>1, <1>3, <3>1, <3>4
        <4>2. nx[c] = L[h][i] /\ L[h][i] \in Elem \ {e}  BY <1>5, <2>1, <4>1 DEF n
        <4> QED BY <1>10, <2>3, <4>1, <4>2
      <3>5. CASE k > i + 1
        <4>1. /\ k - 1 \in 1 .. n /\ k - 1 # i /\ i \in 1 .. n /\ i # n + 1
              /\ ~(k - 1 < i) /\ ~(k < i) /\ k # i
          BY <1>3, <3>1, <3>5
        <4>2. M[h][k] = L[h][k - 1] /\ CellAt(M, h, k - 1) = CellAt(L, h, (k - 1) - 1)
          BY <1>1, <3>1, <4>1
        <4>3. L[h][k - 1] # nx[c]  BY <1>5, <4>1 DEF Queued, n
        <4>4. pv2[L[h][k - 1]] = pv[L[h][k - 1]]  BY <1>10, <2>1, <4>1, <4>3 DEF n
        <4>5. pv[L[h][k - 1]] = CellAt(L, h, (k - 1) - 1)  BY <1>10, <4>1 DEF BackChained, n
        <4> QED BY <2>3, <4>2, <4>4, <4>5
      <3> QED BY <1>3, <3>1, <3>2, <3>3, <3>4, <3>5
    <2> QED BY <2>2, <2>3
  <1> QED BY <1>8, <1>9, <1>10 DEF M, c

\* The pointers to be assigned for a removal from i to j: those of the cell before i, and back.
LEMMA CutPointers ==
  ASSUME NEW L, Queued(L), NEW nx, Chained(nx, L), NEW h \in Heads,
         NEW i \in 1 .. Len(L[h]), NEW j \in i .. Len(L[h])
  PROVE  /\ \A nx2 \in [Cell -> Elem \cup {Null}] :
              /\ nx2[CellAt(L, h, i - 1)] = nx[L[h][j]]
              /\ \A x \in Cell : x # CellAt(L, h, i - 1) /\ (\A k \in i .. j : x # L[h][k])
                                   => nx2[x] = nx[x]
              => Chained(nx2, Cut(L, h, i, j))
         /\ \A la, la2 \in [Heads -> Cell] :
              /\ KnowsEnd(la, L)
              /\ la2[h] = IF nx[L[h][j]] = Null THEN CellAt(L, h, i - 1) ELSE la[h]
              /\ \A g \in Heads \ {h} : la2[g] = la[g]
              => KnowsEnd(la2, Cut(L, h, i, j))
         /\ \A pv, pv2 \in [Elem -> Cell \cup {Null}] :
              /\ BackChained(pv, L)
              /\ \A x \in Elem : (\A k \in i .. j : x # L[h][k])
                   => pv2[x] = IF x = nx[L[h][j]] THEN CellAt(L, h, i - 1) ELSE pv[x]
              => BackChained(pv2, Cut(L, h, i, j))
  <1> DEFINE M == Cut(L, h, i, j)
             n == Len(L[h])
             c == CellAt(L, h, i - 1)
             d == j + 1 - i
  <1>1. /\ Queued(M)
        /\ \A g \in Heads \ {h} : M[g] = L[g]
        /\ Len(M[h]) = n - d
        /\ \A k \in 1 .. n - d : M[h][k] = IF k < i THEN L[h][k] ELSE L[h][k + d]
        /\ \A k \in 0 .. n - d :
             CellAt(M, h, k) = IF k < i THEN CellAt(L, h, k) ELSE CellAt(L, h, k + d)
    BY CutCells
  <1>2. /\ \A g \in Heads : Len(L[g]) \in Nat
        /\ \A g \in Heads : \A k \in 1 .. Len(L[g]) : L[g][k] \in Elem
        /\ \A g \in Heads : \A k \in 0 .. Len(L[g]) : CellAt(L, g, k) \in Cell
        /\ \A f, g \in Heads : \A k \in 0 .. Len(L[f]), m \in 0 .. Len(L[g]) :
             CellAt(L, f, k) = CellAt(L, g, m) => f = g /\ k = m
    BY CellsApart
  <1>3. /\ n \in Nat /\ i \in Nat /\ j \in Nat /\ i >= 1 /\ i <= j /\ j <= n
        /\ i - 1 \in 0 .. n /\ j \in 1 .. n /\ d = j + 1 - i
    BY <1>2
  <1>4. \A k \in 1 .. n : CellAt(L, h, k) = L[h][k]
    BY <1>2 DEF CellAt
  <1>5. nx[L[h][j]] = IF j = n THEN Null ELSE L[h][j + 1]
    BY <1>3, <1>4 DEF Chained
  <1>6. \A g \in Heads \ {h} : \A k : CellAt(M, g, k) = CellAt(L, g, k)
    BY <1>1 DEF CellAt
  <1> HIDE DEF M, n, c, d
  <1>7. ASSUME NEW nx2 \in [Cell -> Elem \cup {Null}], nx2[c] = nx[L[h][j]],
               \A x \in Cell : x # c /\ (\A k \in i .. j : x # L[h][k]) => nx2[x] = nx[x]
        PROVE  Chained(nx2, M)
    <2> SUFFICES ASSUME NEW g \in Heads, NEW k \in 0 .. Len(M[g])
                 PROVE  nx2[CellAt(M, g, k)] = IF k = Len(M[g]) THEN Null ELSE M[g][k + 1]
      BY <1>7 DEF Chained
    <2>1. \A m \in i .. j : m \in 0 .. n /\ m \in 1 .. n /\ L[h][m] = CellAt(L, h, m)
      BY <1>3, <1>4
    <2>2. CASE g # h
      <3>1. k \in 0 .. Len(L[g]) /\ CellAt(L, g, k) \in Cell
        BY <1>1, <1>2, <2>2
      <3>2. CellAt(L, g, k) # c /\ \A m \in i .. j : CellAt(L, g, k) # L[h][m]
        <4>1. \A m \in 0 .. n : CellAt(L, g, k) # CellAt(L, h, m)
          BY <1>2, <2>2, <3>1 DEF n
        <4> QED BY <1>3, <2>1, <4>1 DEF c
      <3>3. nx2[CellAt(L, g, k)] = nx[CellAt(L, g, k)]  BY <1>7, <3>1, <3>2
      <3> QED BY <1>1, <1>6, <2>2, <3>1, <3>3 DEF Chained
    <2>3. CASE g = h
      <3>1. k \in 0 .. n - d  BY <1>1, <2>3
      <3>2. CASE k < i - 1
        <4>1. k \in 0 .. n /\ k # i - 1 /\ k < i /\ k + 1 < i /\ k + 1 \in 1 .. n - d /\ k # n /\ k # n - d
          BY <1>3, <3>1, <3>2
        <4>2. CellAt(L, h, k) \in Cell /\ CellAt(L, h, k) # c  BY <1>2, <1>3, <4>1 DEF c, n
        <4>3. \A m \in i .. j : m # k  BY <1>3, <3>2, <4>1
        <4>4. \A m \in i .. j : CellAt(L, h, k) # L[h][m]  BY <1>2, <2>1, <4>1, <4>3 DEF n
        <4>5. nx2[CellAt(L, h, k)] = L[h][k + 1]  BY <1>7, <4>1, <4>2, <4>4 DEF Chained, n
        <4> QED BY <1>1, <2>3, <3>1, <4>1, <4>5
      <3>3. CASE k = i - 1
        <4>1. CellAt(M, h, k) = c  BY <1>1, <1>3, <3>1, <3>3 DEF c
        <4>2. CASE j = n
          <5>1. k = n - d  BY <1>3, <3>3, <4>2
          <5> QED BY <1>1, <1>5, <1>7, <2>3, <4>1, <4>2, <5>1
        <4>3. CASE j # n
          <5>1. k # n - d /\ k + 1 \in 1 .. n - d /\ ~(k + 1 < i) /\ (k + 1) + d = j + 1
            BY <1>3, <3>3, <4>3
          <5> QED BY <1>1, <1>5, <1>7, <2>3, <4>1, <4>3, <5>1
        <4> QED BY <4>2, <4>3
      <3>4. CASE k > i - 1
        <4>1. ~(k < i) /\ k + d \in 0 .. n /\ k + d # i - 1 /\ k + d > j /\ (k + d = n <=> k = n - d)
          BY <1>3, <3>1, <3>4
        <4>2. CellAt(M, h, k) = CellAt(L, h, k + d)  BY <1>1, <3>1, <4>1
        <4>3. CellAt(L, h, k + d) \in Cell /\ CellAt(L, h, k + d) # c
          BY SMTT(30), <1>2, <1>3, <4>1 DEF c, n
        <4>4. \A m \in i .. j : m # k + d  BY <1>3, <4>1
        <4>5. \A m \in i .. j : CellAt(L, h, k + d) # L[h][m]  BY <1>2, <2>1, <4>1, <4>4 DEF n
        <4>6. nx2[CellAt(L, h, k + d)] = IF k + d = n THEN Null ELSE L[h][(k + d) + 1]
          BY <1>7, <4>1, <4>3, <4>5 DEF Chained, n
        <4>7. CASE k = n - d  BY <1>1, <2>3, <4>1, <4>2, <4>6, <4>7
        <4>8. CASE k # n - d
          <5>1. k + 1 \in 1 .. n - d /\ ~(k + 1 < i) /\ (k + 1) + d = (k + d) + 1
            BY <1>3, <3>1, <3>4, <4>8
          <5> QED BY <1>1, <2>3, <4>1, <4>2, <4>6, <4>8, <5>1
        <4> QED BY <4>7, <4>8
      <3> QED BY <1>3, <3>1, <3>2, <3>3, <3>4
    <2> QED BY <2>2, <2>3
  <1>8. ASSUME NEW la \in [Heads -> Cell], NEW la2 \in [Heads -> Cell], KnowsEnd(la, L),
               la2[h] = IF nx[L[h][j]] = Null THEN c ELSE la[h],
               \A g \in Heads \ {h} : la2[g] = la[g]
        PROVE  KnowsEnd(la2, M)
    <2>1. \A g \in Heads \ {h} : la2[g] = CellAt(M, g, Len(M[g]))
      BY <1>1, <1>6, <1>8 DEF KnowsEnd
    <2>2. la2[h] = CellAt(M, h, Len(M[h]))
      <3>1. CASE j = n
        <4>1. n - d = i - 1 /\ n - d \in 0 .. n - d /\ n - d < i  BY <1>3, <3>1
        <4> QED BY <1>1, <1>5, <1>8, <3>1, <4>1 DEF c
      <3>2. CASE j # n
        <4>1. n - d \in 0 .. n - d /\ ~(n - d < i) /\ (n - d) + d = n /\ j + 1 \in 1 .. n
          BY <1>3, <3>2
        <4>2. nx[L[h][j]] # Null  BY <1>2, <1>5, <3>2, <4>1, CellsDiffer DEF n
        <4> QED BY <1>1, <1>8, <4>1, <4>2 DEF KnowsEnd, n
      <3> QED BY <3>1, <3>2
    <2> QED BY <2>1, <2>2 DEF KnowsEnd
  <1>9. ASSUME NEW pv \in [Elem -> Cell \cup {Null}], NEW pv2 \in [Elem -> Cell \cup {Null}],
               BackChained(pv, L),
               \A x \in Elem : (\A k \in i .. j : x # L[h][k])
                                 => pv2[x] = IF x = nx[L[h][j]] THEN c ELSE pv[x]
        PROVE  BackChained(pv2, M)
    <2> SUFFICES ASSUME NEW g \in Heads, NEW k \in 1 .. Len(M[g])
                 PROVE  pv2[M[g][k]] = CellAt(M, g, k - 1)
      BY DEF BackChained
    <2>1. \A m \in i .. j : m \in 1 .. n
      BY <1>3
    <2>2. CASE g # h
      <3>1. k \in 1 .. Len(L[g]) /\ M[g][k] = L[g][k]  BY <1>1, <2>2
      <3>2. L[g][k] \in Elem /\ \A m \in i .. j : L[g][k] # L[h][m]
        BY <1>2, <2>1, <2>2, <3>1 DEF Queued, n
      <3>3. L[g][k] # nx[L[h][j]]
        <4>1. CASE j = n  BY <1>5, <3>2, <4>1, CellsDiffer
        <4>2. CASE j # n
          <5>1. j + 1 \in 1 .. n  BY <1>3, <4>2
          <5> QED BY <1>5, <2>2, <3>1, <4>2, <5>1 DEF Queued, n
        <4> QED BY <4>1, <4>2
      <3>4. pv2[L[g][k]] = pv[L[g][k]]  BY <1>9, <3>2, <3>3
      <3> QED BY <1>6, <1>9, <2>2, <3>1, <3>4 DEF BackChained
    <2>3. CASE g = h
      <3>1. k \in 1 .. n - d  BY <1>1, <2>3
      <3>2. CASE k < i
        <4>1. k \in 1 .. n /\ k - 1 < i /\ k - 1 \in 0 .. n - d /\ k # j + 1  BY <1>3, <3>1, <3>2
        <4>2. \A m \in i .. j : m # k  BY <1>3, <3>2, <4>1
        <4>3. L[h][k] \in Elem /\ \A m \in i .. j : L[h][k] # L[h][m]
          BY <1>2, <2>1, <4>1, <4>2 DEF Queued, n
        <4>4. L[h][k] # nx[L[h][j]]
          <5>1. CASE j = n  BY <1>5, <4>3, <5>1, CellsDiffer
          <5>2. CASE j # n
            <6>1. j + 1 \in 1 .. n  BY <1>3, <5>2
            <6> QED BY <1>5, <4>1, <5>2, <6>1 DEF Queued, n
          <5> QED BY <5>1, <5>2
        <4>5. pv2[L[h][k]] = pv[L[h][k]]  BY <1>9, <4>3, <4>4
        <4>6. pv[L[h][k]] = CellAt(L, h, k - 1)  BY <1>9, <4>1 DEF BackChained, n
        <4>7. M[h][k] = L[h][k] /\ CellAt(M, h, k - 1) = CellAt(L, h, k - 1)
          BY <1>1, <3>1, <3>2, <4>1
        <4> QED BY <2>3, <4>5, <4>6, <4>7
      <3>3. CASE k >= i
        <4>1. k + d \in 1 .. n /\ k + d > j /\ ~(k < i) /\ k - 1 \in 0 .. n - d
          BY <1>3, <3>1, <3>3
        <4>2. M[h][k] = L[h][k + d]  BY <1>1, <3>1, <4>1
        <4>3. \A m \in i .. j : m # k + d  BY <1>3, <4>1
        <4>4. L[h][k + d] \in Elem /\ \A m \in i .. j : L[h][k + d] # L[h][m]
          BY <1>2, <2>1, <4>1, <4>3 DEF Queued, n
        <4>5. CASE k = i
          <5>1. k + d = j + 1 /\ k - 1 < i /\ k - 1 = i - 1 /\ j # n  BY <1>3, <3>1, <4>5
          <5>2. CellAt(M, h, k - 1) = c  BY <1>1, <4>1, <5>1 DEF c
          <5>3. nx[L[h][j]] = L[h][k + d]  BY <1>5, <5>1
          <5>4. pv2[L[h][k + d]] = c  BY <1>9, <4>4, <5>3
          <5> QED BY <2>3, <4>2, <5>2, <5>4
        <4>6. CASE k # i
          <5>1. /\ ~(k - 1 < i) /\ (k - 1) + d = (k + d) - 1 /\ k + d # j + 1
                /\ j # n /\ j + 1 \in 1 .. n
            BY <1>3, <3>1, <3>3, <4>6
          <5>2. CellAt(M, h, k - 1) = CellAt(L, h, (k + d) - 1)  BY <1>1, <4>1, <5>1
          <5>3. L[h][k + d] # nx[L[h][j]]  BY <1>5, <4>1, <5>1 DEF Queued, n
          <5>4. pv2[L[h][k + d]] = pv[L[h][k + d]]  BY <1>9, <4>4, <5>3
          <5>5. pv[L[h][k + d]] = CellAt(L, h, (k + d) - 1)  BY <1>9, <4>1 DEF BackChained, n
          <5> QED BY <2>3, <4>2, <5>2, <5>4, <5>5
        <4> QED BY <4>5, <4>6
      <3> QED BY <1>3, <3>1, <3>2, <3>3
    <2> QED BY <2>2, <2>3
  <1> QED BY <1>7, <1>8, <1>9 DEF M, c

\* The pointers to be assigned when the queue g is appended to h and emptied.
LEMMA JoinPointers ==
  ASSUME NEW L, Queued(L), NEW nx, Chained(nx, L), NEW h \in Heads, NEW g \in Heads \ {h}
  PROVE  /\ Queued(Joined(L, h, g))
         /\ \A nx2 \in [Cell -> Elem \cup {Null}] :
              /\ nx2[CellAt(L, h, Len(L[h]))] = nx[g] /\ nx2[g] = Null
              /\ \A x \in Cell \ {g, CellAt(L, h, Len(L[h]))} : nx2[x] = nx[x]
              => Chained(nx2, Joined(L, h, g))
         /\ \A la, la2 \in [Heads -> Cell] :
              /\ KnowsEnd(la, L)
              /\ la2[h] = (IF nx[g] = Null THEN la[h] ELSE la[g]) /\ la2[g] = g
              /\ \A f \in Heads \ {h, g} : la2[f] = la[f]
              => KnowsEnd(la2, Joined(L, h, g))
         /\ \A pv, pv2 \in [Elem -> Cell \cup {Null}] :
              /\ BackChained(pv, L)
              /\ \A x \in Elem : pv2[x] = IF x = nx[g] THEN CellAt(L, h, Len(L[h])) ELSE pv[x]
              => BackChained(pv2, Joined(L, h, g))
  <1> DEFINE M == Joined(L, h, g)
             n == Len(L[h])
             m == Len(L[g])
             c == CellAt(L, h, n)
  <1>1. /\ L \in [Heads -> Seq(Elem)] /\ n \in Nat /\ m \in Nat /\ n + m \in Nat /\ g # h
        /\ L[h] \in Seq(Elem) /\ L[g] \in Seq(Elem)
    BY DEF Queued
  <1>2. /\ M \in [Heads -> Seq(Elem)] /\ Len(M[h]) = n + m
        /\ M[g] = <<>> /\ Len(M[g]) = 0
        /\ \A f \in Heads \ {h, g} : M[f] = L[f]
        /\ \A k \in 1 .. n + m : M[h][k] = IF k <= n THEN L[h][k] ELSE L[g][k - n]
    <2>1. /\ L[h] \o L[g] \in Seq(Elem) /\ Len(L[h] \o L[g]) = n + m
          /\ \A k \in 1 .. n + m : (L[h] \o L[g])[k] = IF k <= n THEN L[h][k] ELSE L[g][k - n]
      BY <1>1, ConcatIs
    <2>2. /\ M \in [Heads -> Seq(Elem)] /\ M[h] = L[h] \o L[g] /\ M[g] = <<>>
          /\ \A f \in Heads \ {h, g} : M[f] = L[f]
      <3> DEFINE q == L[h] \o L[g]
      <3>1. q \in Seq(Elem) /\ <<>> \in Seq(Elem)  BY <2>1
      <3>2. M = [L EXCEPT ![h] = q, ![g] = <<>>]  BY DEF Joined
      <3> HIDE DEF q, M
      <3>3. M \in [Heads -> Seq(Elem)] /\ M[h] = q /\ M[g] = <<>>
        BY <1>1, <3>1, <3>2
      <3>4. \A f \in Heads \ {h, g} : M[f] = L[f]  BY <1>1, <3>2
      <3> QED BY <3>3, <3>4 DEF q
    <2> HIDE DEF M
    <2> QED BY <2>1, <2>2
  <1>3. /\ \A f \in Heads : Len(L[f]) \in Nat
        /\ \A f \in Heads : \A k \in 1 .. Len(L[f]) : L[f][k] \in Elem
        /\ \A f \in Heads : \A k \in 0 .. Len(L[f]) : CellAt(L, f, k) \in Cell
        /\ \A f1, f2 \in Heads : \A k \in 0 .. Len(L[f1]), l \in 0 .. Len(L[f2]) :
             CellAt(L, f1, k) = CellAt(L, f2, l) => f1 = f2 /\ k = l
    BY CellsApart
  <1>4. nx[g] = IF m = 0 THEN Null ELSE L[g][1]
    <2>1. 0 \in 0 .. m /\ CellAt(L, g, 0) = g  BY <1>1 DEF CellAt
    <2> QED BY <2>1 DEF Chained
  <1>5. c \in Cell /\ g \in Cell /\ c # g /\ g = CellAt(L, g, 0)
    <2>1. 0 \in 0 .. m /\ n \in 0 .. n /\ CellAt(L, g, 0) = g  BY <1>1 DEF CellAt
    <2> QED BY <1>1, <1>3, <2>1
  <1> HIDE DEF M, n, m, c
  <1>6. /\ \A f \in Heads \ {h, g} : \A k : CellAt(M, f, k) = CellAt(L, f, k)
        /\ CellAt(M, g, 0) = g
        /\ \A k \in 0 .. n + m : CellAt(M, h, k) = IF k <= n THEN CellAt(L, h, k) ELSE CellAt(L, g, k - n)
    <2>1. ASSUME NEW k \in 0 .. n + m
          PROVE  CellAt(M, h, k) = IF k <= n THEN CellAt(L, h, k) ELSE CellAt(L, g, k - n)
      <3>1. CASE k = 0  BY <1>1, <3>1 DEF CellAt
      <3>2. CASE k # 0
        <4>1. k \in 1 .. n + m /\ (~(k <= n) => k - n # 0)  BY <1>1, <3>2
        <4> QED BY <1>2, <3>2, <4>1 DEF CellAt
      <3> QED BY <3>1, <3>2
    <2> QED BY <1>2, <2>1 DEF CellAt
  \* Where an element of M was in L.
  <1> DEFINE Of(f, k) == IF f = h /\ k > n THEN g ELSE f
             From(f, k) == IF f = h /\ k > n THEN k - n ELSE k
  <1>7. ASSUME NEW f \in Heads, NEW k \in 1 .. Len(M[f])
        PROVE  /\ Of(f, k) \in Heads /\ From(f, k) \in 1 .. Len(L[Of(f, k)])
               /\ M[f][k] = L[Of(f, k)][From(f, k)] /\ f # g
    <2>1. CASE f # h
      <3>1. f # g  BY <1>2
      <3> QED BY <1>2, <2>1, <3>1
    <2>2. CASE f = h
      <3>1. k \in 1 .. n + m  BY <1>2, <2>2
      <3>2. CASE k <= n
        <4>1. ~(k > n) /\ k \in 1 .. n  BY <1>1, <3>1, <3>2
        <4> QED BY <1>1, <1>2, <2>2, <3>1, <3>2, <4>1 DEF n
      <3>3. CASE ~(k <= n)
        <4>1. k > n /\ k - n \in 1 .. m  BY <1>1, <3>1, <3>3
        <4> QED BY <1>1, <1>2, <2>2, <3>1, <3>3, <4>1 DEF m
      <3> QED BY <3>2, <3>3
    <2> QED BY <2>1, <2>2
  <1>8. Queued(M)
    <2> SUFFICES ASSUME NEW f1 \in Heads, NEW f2 \in Heads,
                        NEW k1 \in 1 .. Len(M[f1]), NEW k2 \in 1 .. Len(M[f2]), M[f1][k1] = M[f2][k2]
                 PROVE  f1 = f2 /\ k1 = k2
      BY <1>2 DEF Queued
    <2> HIDE DEF Of, From
    <2>1. Of(f1, k1) = Of(f2, k2) /\ From(f1, k1) = From(f2, k2) /\ f1 # g /\ f2 # g
      <3>1. /\ Of(f1, k1) \in Heads /\ From(f1, k1) \in 1 .. Len(L[Of(f1, k1)]) /\ f1 # g
            /\ M[f1][k1] = L[Of(f1, k1)][From(f1, k1)]
        BY <1>7
      <3>2. /\ Of(f2, k2) \in Heads /\ From(f2, k2) \in 1 .. Len(L[Of(f2, k2)]) /\ f2 # g
            /\ M[f2][k2] = L[Of(f2, k2)][From(f2, k2)]
        BY <1>7
      <3>3. L[Of(f1, k1)][From(f1, k1)] = L[Of(f2, k2)][From(f2, k2)]
        BY <3>1, <3>2
      <3> QED BY <3>1, <3>2, <3>3 DEF Queued
    <2>2. k1 \in Nat /\ k2 \in Nat  BY <1>2
    <2>3. f1 = f2  BY <1>1, <2>1 DEF Of
    <2>4. (f1 = h /\ k1 > n) <=> (f2 = h /\ k2 > n)  BY <1>1, <2>1, <2>3 DEF Of
    <2> QED BY <1>1, <2>1, <2>2, <2>3, <2>4 DEF From
  <1>9. ASSUME NEW nx2 \in [Cell -> Elem \cup {Null}], nx2[c] = nx[g], nx2[g] = Null,
               \A x \in Cell \ {g, c} : nx2[x] = nx[x]
        PROVE  Chained(nx2, M)
    <2> SUFFICES ASSUME NEW f \in Heads, NEW k \in 0 .. Len(M[f])
                 PROVE  nx2[CellAt(M, f, k)] = IF k = Len(M[f]) THEN Null ELSE M[f][k + 1]
      BY <1>9 DEF Chained
    <2>1. CASE f = g
      <3>1. k = 0 /\ k = Len(M[f])  BY <1>2, <2>1
      <3> QED BY <1>6, <1>9, <2>1, <3>1
    <2>2. CASE f # g /\ f # h
      <3>1. k \in 0 .. Len(L[f]) /\ CellAt(M, f, k) = CellAt(L, f, k)  BY <1>2, <1>6, <2>2
      <3>2. n \in 0 .. n /\ 0 \in 0 .. m  BY <1>1
      <3>3. CellAt(L, f, k) \in Cell \ {g, c}
        BY <1>3, <1>5, <2>2, <3>1, <3>2 DEF c, n, m
      <3> QED BY <1>2, <1>9, <2>2, <3>1, <3>3 DEF Chained
    <2>3. CASE f = h
      <3>1. k \in 0 .. n + m /\ n \in 0 .. n /\ 0 \in 0 .. m  BY <1>1, <1>2, <2>3
      <3>2. CASE k < n
        <4>1. /\ k \in 0 .. n /\ k <= n /\ k # n /\ k + 1 \in 1 .. n + m /\ k + 1 <= n /\ k # n + m
          BY <1>1, <3>1, <3>2
        <4>2. CellAt(L, h, k) \in Cell \ {g, c}  BY <1>1, <1>3, <1>5, <3>1, <4>1 DEF c, n, m
        <4>3. nx2[CellAt(L, h, k)] = L[h][k + 1]  BY <1>9, <4>1, <4>2 DEF Chained, n
        <4> QED BY <1>2, <1>6, <2>3, <3>1, <4>1, <4>3
      <3>3. CASE k = n
        <4>1. CellAt(M, h, k) = c /\ k <= n  BY <1>1, <1>6, <3>1, <3>3 DEF c
        <4>2. CASE m = 0
          <5>1. k = n + m  BY <1>1, <3>3, <4>2
          <5> QED BY <1>2, <1>4, <1>9, <2>3, <4>1, <4>2, <5>1
        <4>3. CASE m # 0
          <5>1. k # n + m /\ k + 1 \in 1 .. n + m /\ ~(k + 1 <= n) /\ (k + 1) - n = 1
            BY <1>1, <3>3, <4>3
          <5> QED BY <1>2, <1>4, <1>9, <2>3, <4>1, <4>3, <5>1
        <4> QED BY <4>2, <4>3
      <3>4. CASE k > n
        <4>1. ~(k <= n) /\ k - n \in 0 .. m /\ k - n # 0 /\ (k = n + m <=> k - n = m)
          BY <1>1, <3>1, <3>4
        <4>2. CellAt(M, h, k) = CellAt(L, g, k - n)  BY <1>6, <3>1, <4>1
        <4>3. CellAt(L, g, k - n) \in Cell \ {g, c}
          BY <1>1, <1>3, <1>5, <3>1, <4>1 DEF c, n, m
        <4>4. nx2[CellAt(L, g, k - n)] = IF k - n = m THEN Null ELSE L[g][(k - n) + 1]
          BY <1>9, <4>1, <4>3 DEF Chained, m
        <4>5. CASE k = n + m  BY <1>2, <2>3, <4>1, <4>2, <4>4, <4>5
        <4>6. CASE k # n + m
          <5>1. k + 1 \in 1 .. n + m /\ ~(k + 1 <= n) /\ (k + 1) - n = (k - n) + 1
            BY <1>1, <3>1, <3>4, <4>6
          <5> QED BY <1>2, <2>3, <4>1, <4>2, <4>4, <4>6, <5>1
        <4> QED BY <4>5, <4>6
      <3> QED BY <1>1, <3>1, <3>2, <3>3, <3>4
    <2> QED BY <2>1, <2>2, <2>3
  <1>10. ASSUME NEW la \in [Heads -> Cell], NEW la2 \in [Heads -> Cell], KnowsEnd(la, L),
                la2[h] = (IF nx[g] = Null THEN la[h] ELSE la[g]), la2[g] = g,
                \A f \in Heads \ {h, g} : la2[f] = la[f]
         PROVE  KnowsEnd(la2, M)
    <2>1. \A f \in Heads \ {h, g} : la2[f] = CellAt(M, f, Len(M[f]))
      BY SMTT(30), <1>2, <1>6, <1>10 DEF KnowsEnd
    <2>2. la2[g] = CellAt(M, g, Len(M[g]))
      BY <1>2, <1>6, <1>10
    <2>3. la2[h] = CellAt(M, h, Len(M[h]))
      <3>1. CASE m = 0
        <4>1. n + m = n /\ n + m <= n /\ n + m \in 0 .. n + m  BY <1>1, <3>1
        <4> QED BY SMTT(30), <1>2, <1>4, <1>6, <1>10, <3>1, <4>1 DEF KnowsEnd, n
      <3>2. CASE m # 0
        <4>1. ~(n + m <= n) /\ (n + m) - n = m /\ n + m \in 0 .. n + m /\ 1 \in 1 .. m  BY <1>1, <3>2
        <4>2. nx[g] # Null  BY <1>3, <1>4, <3>2, <4>1, CellsDiffer DEF m
        <4> QED BY <1>2, <1>6, <1>10, <4>1, <4>2 DEF KnowsEnd, m
      <3> QED BY <3>1, <3>2
    <2> QED BY <2>1, <2>2, <2>3 DEF KnowsEnd
  <1>11. ASSUME NEW pv \in [Elem -> Cell \cup {Null}], NEW pv2 \in [Elem -> Cell \cup {Null}],
                BackChained(pv, L),
                \A x \in Elem : pv2[x] = IF x = nx[g] THEN c ELSE pv[x]
         PROVE  BackChained(pv2, M)
    <2> SUFFICES ASSUME NEW f \in Heads, NEW k \in 1 .. Len(M[f])
                 PROVE  pv2[M[f][k]] = CellAt(M, f, k - 1)
      BY DEF BackChained
    <2>1. f # g  BY <1>7
    <2>2. ASSUME NEW f1 \in Heads, NEW l \in 1 .. Len(L[f1]), ~(f1 = g /\ l = 1)
          PROVE  pv2[L[f1][l]] = CellAt(L, f1, l - 1)
      <3>1. L[f1][l] \in Elem /\ L[f1][l] # Null  BY <1>3, CellsDiffer
      <3>2. L[f1][l] # nx[g]
        <4>1. CASE m = 0  BY <1>4, <3>1, <4>1
        <4>2. CASE m # 0
          <5>1. 1 \in 1 .. Len(L[g])  BY <1>1, <4>2 DEF m
          <5> QED BY <1>4, <2>2, <4>2, <5>1 DEF Queued
        <4> QED BY <4>1, <4>2
      <3> QED BY <1>11, <3>1, <3>2 DEF BackChained
    <2>3. CASE f # h
      <3>1. k \in 1 .. Len(L[f]) /\ M[f][k] = L[f][k]  BY <1>2, <2>1, <2>3
      <3> QED BY <1>6, <2>1, <2>2, <2>3, <3>1
    <2>4. CASE f = h
      <3>1. k \in 1 .. n + m /\ k - 1 \in 0 .. n + m  BY <1>1, <1>2, <2>4
      <3>2. CASE k <= n
        <4>1. k \in 1 .. Len(L[h]) /\ k - 1 <= n  BY <1>1, <3>1, <3>2 DEF n
        <4>2. M[h][k] = L[h][k] /\ CellAt(M, h, k - 1) = CellAt(L, h, k - 1)
          BY <1>2, <1>6, <3>1, <3>2, <4>1
        <4>3. pv2[L[h][k]] = CellAt(L, h, k - 1)  BY <1>1, <2>2, <4>1
        <4> QED BY <2>4, <4>2, <4>3
      <3>3. CASE k = n + 1
        <4>1. ~(k <= n) /\ k - n = 1 /\ k - 1 = n /\ k - 1 <= n /\ m # 0 /\ 1 \in 1 .. m  BY <1>1, <3>1, <3>3
        <4>2. M[h][k] = nx[g] /\ CellAt(M, h, k - 1) = c
          BY <1>2, <1>4, <1>6, <3>1, <4>1 DEF c
        <4>3. nx[g] \in Elem  BY <1>3, <1>4, <4>1 DEF m
        <4> QED BY <1>11, <2>4, <4>2, <4>3
      <3>4. CASE k > n + 1
        <4>1. /\ ~(k <= n) /\ ~(k - 1 <= n) /\ k - n \in 1 .. Len(L[g]) /\ k - n # 1
              /\ (k - 1) - n = (k - n) - 1
          BY <1>1, <3>1, <3>4 DEF m
        <4>2. M[h][k] = L[g][k - n] /\ CellAt(M, h, k - 1) = CellAt(L, g, (k - n) - 1)
          BY <1>2, <1>6, <3>1, <4>1
        <4>3. pv2[L[g][k - n]] = CellAt(L, g, (k - n) - 1)  BY <2>2, <4>1
        <4> QED BY <2>4, <4>2, <4>3
      <3> QED BY <1>1, <3>1, <3>2, <3>3, <3>4
    <2> QED BY <2>3, <2>4
  <1> QED BY <1>8, <1>9, <1>10, <1>11 DEF M, c, n

\* The pointers to be assigned when the queues g and h are exchanged.
LEMMA SwapPointers ==
  ASSUME NEW L, Queued(L), NEW nx, Chained(nx, L), NEW h \in Heads, NEW g \in Heads \ {h}
  PROVE  /\ Queued(Swapped(L, h, g))
         /\ \A nx2 \in [Cell -> Elem \cup {Null}] :
              /\ nx2[h] = nx[g] /\ nx2[g] = nx[h]
              /\ \A x \in Cell \ {h, g} : nx2[x] = nx[x]
              => Chained(nx2, Swapped(L, h, g))
         /\ \A la, la2 \in [Heads -> Cell] :
              /\ KnowsEnd(la, L)
              /\ la2[h] = (IF nx[g] = Null THEN h ELSE la[g])
              /\ la2[g] = (IF nx[h] = Null THEN g ELSE la[h])
              /\ \A f \in Heads \ {h, g} : la2[f] = la[f]
              => KnowsEnd(la2, Swapped(L, h, g))
         /\ \A pv, pv2 \in [Elem -> Cell \cup {Null}] :
              /\ BackChained(pv, L)
              /\ \A x \in Elem :
                   pv2[x] = IF x = nx[g] THEN h ELSE IF x = nx[h] THEN g ELSE pv[x]
              => BackChained(pv2, Swapped(L, h, g))
  <1> DEFINE M == Swapped(L, h, g)
             \* The other of the two queues.
             Other(f) == IF f = h THEN g ELSE IF f = g THEN h ELSE f
  <1>1. /\ L \in [Heads -> Seq(Elem)] /\ g # h
        /\ \A f \in Heads : Len(L[f]) \in Nat
        /\ \A f \in Heads : \A k \in 1 .. Len(L[f]) : L[f][k] \in Elem /\ CellAt(L, f, k) = L[f][k]
        /\ \A f \in Heads : \A k \in 0 .. Len(L[f]) : CellAt(L, f, k) \in Cell
        /\ \A f1, f2 \in Heads : \A k \in 0 .. Len(L[f1]), l \in 0 .. Len(L[f2]) :
             CellAt(L, f1, k) = CellAt(L, f2, l) => f1 = f2 /\ k = l
    <2>1. \A f \in Heads : \A k \in 1 .. Len(L[f]) : k # 0 /\ CellAt(L, f, k) = L[f][k]
      BY CellsApart DEF CellAt
    <2> QED BY CellsApart, <2>1 DEF Queued
  <1>2. /\ M \in [Heads -> Seq(Elem)]
        /\ \A f \in Heads : Other(f) \in Heads /\ M[f] = L[Other(f)]
        /\ \A f1, f2 \in Heads : Other(f1) = Other(f2) => f1 = f2
    BY <1>1 DEF Swapped
  <1>3. /\ Other(h) = g /\ Other(g) = h /\ \A f \in Heads \ {h, g} : Other(f) = f
    BY <1>1
  <1> HIDE DEF M, Other
  <1>4. \A f \in Heads : CellAt(M, f, 0) = f /\ CellAt(L, f, 0) = f /\ f \in Cell /\ 0 \in 0 .. Len(L[f])
    BY <1>1 DEF CellAt, Cell
  <1>5. \A f \in Heads : \A k \in 1 .. Len(L[Other(f)]) :
          CellAt(M, f, k) = CellAt(L, Other(f), k) /\ CellAt(M, f, k) # h /\ CellAt(M, f, k) # g
    <2> SUFFICES ASSUME NEW f \in Heads, NEW k \in 1 .. Len(L[Other(f)])
                 PROVE  CellAt(M, f, k) = CellAt(L, Other(f), k) /\ CellAt(M, f, k) # h /\ CellAt(M, f, k) # g
      OBVIOUS
    <2>1. k # 0 /\ k \in 0 .. Len(L[Other(f)])  BY <1>1, <1>2
    <2>2. CellAt(M, f, k) = CellAt(L, Other(f), k)  BY <1>2, <2>1 DEF CellAt
    <2>3. CellAt(M, f, k) \in Elem
      <3>1. Other(f) \in Heads  BY <1>2
      <3> QED BY <1>1, <2>2, <3>1
    <2> QED BY <2>2, <2>3, CellsDiffer
  <1>6. Queued(M)
    <2> SUFFICES ASSUME NEW f1 \in Heads, NEW f2 \in Heads,
                        NEW k \in 1 .. Len(M[f1]), NEW l \in 1 .. Len(M[f2]), M[f1][k] = M[f2][l]
                 PROVE  f1 = f2 /\ k = l
      BY <1>2 DEF Queued
    <2>1. Other(f1) \in Heads /\ Other(f2) \in Heads /\ M[f1] = L[Other(f1)] /\ M[f2] = L[Other(f2)]
      BY <1>2
    <2>2. Other(f1) = Other(f2) /\ k = l
      BY <2>1 DEF Queued
    <2> QED BY <1>2, <2>2
  <1>7. \A f \in Heads : nx[f] = IF Len(L[f]) = 0 THEN Null ELSE L[f][1]
    <2> SUFFICES ASSUME NEW f \in Heads PROVE nx[f] = IF Len(L[f]) = 0 THEN Null ELSE L[f][0 + 1]
      OBVIOUS
    <2> QED BY <1>4 DEF Chained
  <1>8. ASSUME NEW nx2 \in [Cell -> Elem \cup {Null}], nx2[h] = nx[g], nx2[g] = nx[h],
               \A x \in Cell \ {h, g} : nx2[x] = nx[x]
        PROVE  Chained(nx2, M)
    <2> SUFFICES ASSUME NEW f \in Heads, NEW k \in 0 .. Len(M[f])
                 PROVE  nx2[CellAt(M, f, k)] = IF k = Len(M[f]) THEN Null ELSE M[f][k + 1]
      BY <1>8 DEF Chained
    <2>1. k \in 0 .. Len(L[Other(f)]) /\ Other(f) \in Heads  BY <1>2
    <2>2. nx[CellAt(L, Other(f), k)] = IF k = Len(M[f]) THEN Null ELSE M[f][k + 1]
      BY SMTT(30), <1>2, <2>1 DEF Chained
    <2>3. CASE k = 0
      <3>1. CellAt(M, f, k) = f /\ CellAt(L, Other(f), k) = Other(f)  BY <1>4, <2>1, <2>3
      <3>2. nx2[f] = nx[Other(f)]  BY <1>3, <1>4, <1>8
      <3> QED BY <2>2, <3>1, <3>2
    <2>4. CASE k # 0
      <3>1. k \in 1 .. Len(L[Other(f)])  BY <1>1, <2>1, <2>4
      <3>2. CellAt(M, f, k) = CellAt(L, Other(f), k) /\ CellAt(M, f, k) \in Cell \ {h, g}
        BY <1>1, <1>5, <2>1, <3>1
      <3> QED BY <1>8, <2>2, <3>2
    <2> QED BY <2>3, <2>4
  <1>9. ASSUME NEW la \in [Heads -> Cell], NEW la2 \in [Heads -> Cell], KnowsEnd(la, L),
               la2[h] = (IF nx[g] = Null THEN h ELSE la[g]),
               la2[g] = (IF nx[h] = Null THEN g ELSE la[h]),
               \A f \in Heads \ {h, g} : la2[f] = la[f]
        PROVE  KnowsEnd(la2, M)
    <2> SUFFICES ASSUME NEW f \in Heads PROVE la2[f] = CellAt(M, f, Len(M[f]))
      BY DEF KnowsEnd
    <2>1. Other(f) \in Heads /\ M[f] = L[Other(f)]  BY <1>2
    <2>2. CASE Len(M[f]) = 0
      <3>1. nx[Other(f)] = Null  BY <1>7, <2>1, <2>2
      <3>2. CellAt(M, f, Len(M[f])) = f  BY <1>4, <2>2
      <3>3. CASE f = h \/ f = g  BY <1>3, <1>9, <3>1, <3>2, <3>3
      <3>4. CASE f # h /\ f # g
        <4>1. Other(f) = f  BY <1>3, <3>4
        <4>2. la[f] = CellAt(L, f, Len(L[f]))  BY <1>9 DEF KnowsEnd
        <4> QED BY <1>4, <1>9, <2>1, <2>2, <3>2, <3>4, <4>1, <4>2
      <3> QED BY <3>3, <3>4
    <2>3. CASE Len(M[f]) # 0
      <3>1. Len(L[Other(f)]) \in 1 .. Len(L[Other(f)]) /\ 1 \in 1 .. Len(L[Other(f)])
        BY <1>1, <2>1, <2>3
      <3>2. nx[Other(f)] # Null
        <4>1. L[Other(f)][1] \in Elem  BY <1>1, <2>1, <3>1
        <4>2. nx[Other(f)] = L[Other(f)][1]  BY <1>7, <2>1, <2>3
        <4> QED BY <4>1, <4>2, CellsDiffer
      <3>3. CellAt(M, f, Len(M[f])) = la[Other(f)]  BY <1>5, <1>9, <2>1, <3>1 DEF KnowsEnd
      <3> QED BY <1>3, <1>9, <3>2, <3>3
    <2> QED BY <2>2, <2>3
  <1>10. ASSUME NEW pv \in [Elem -> Cell \cup {Null}], NEW pv2 \in [Elem -> Cell \cup {Null}],
                BackChained(pv, L),
                \A x \in Elem :
                  pv2[x] = IF x = nx[g] THEN h ELSE IF x = nx[h] THEN g ELSE pv[x]
         PROVE  BackChained(pv2, M)
    <2> SUFFICES ASSUME NEW f \in Heads, NEW k \in 1 .. Len(M[f])
                 PROVE  pv2[M[f][k]] = CellAt(M, f, k - 1)
      BY DEF BackChained
    <2> DEFINE o == Other(f)
    <2>1. o \in Heads /\ M[f] = L[o] /\ k \in 1 .. Len(L[o]) /\ Len(L[o]) # 0 /\ Len(L[o]) \in Nat
      BY <1>1, <1>2
    <2>2. L[o][k] \in Elem /\ L[o][k] # Null  BY <1>1, <2>1, CellsDiffer
    <2>3. ASSUME NEW l \in Heads, L[o][k] = nx[l] PROVE l = o /\ k = 1
      <3>1. Len(L[l]) # 0  BY <1>7, <2>2, <2>3
      <3>2. 1 \in 1 .. Len(L[l])  BY <1>1, <3>1
      <3> QED BY <1>7, <2>1, <2>3, <3>1, <3>2 DEF Queued
    <2>4. pv[L[o][k]] = CellAt(L, o, k - 1)  BY <1>10, <2>1 DEF BackChained
    <2> HIDE DEF o
    <2>5. CASE k = 1
      <3>1. L[o][k] = nx[o] /\ CellAt(M, f, k - 1) = f /\ pv[L[o][k]] = o
        BY <1>4, <1>7, <2>1, <2>4, <2>5
      <3>2. (o = g <=> f = h) /\ (o = h <=> f = g) /\ (o # g /\ o # h => o = f)
        BY <1>1, <1>2, <1>3 DEF o
      <3> QED BY <1>10, <2>1, <2>2, <2>3, <3>1, <3>2
    <2>6. CASE k # 1
      <3>1. k - 1 \in 1 .. Len(L[o])  BY <2>1, <2>6
      <3>2. CellAt(M, f, k - 1) = CellAt(L, o, k - 1)  BY <1>5, <3>1 DEF o
      <3>3. L[o][k] # nx[g] /\ L[o][k] # nx[h]  BY <2>3, <2>6
      <3> QED BY <1>10, <2>1, <2>2, <2>4, <3>2, <3>3
    <2> QED BY <2>5, <2>6
  <1> QED BY <1>6, <1>8, <1>9, <1>10 DEF M

-----------------------------------------------------------------------------
(***************************************************************************)
(* The invariant, and the steps that the kinds of queues share.            *)
(***************************************************************************)
Contents == [h \in Heads |-> Walk(h)]

\* The pointers represent the sequences that walks over them find.
Represented == Queued(Contents) /\ Chained(next, Contents)

\* Queues that know their end or point back do so rightly.
QueuesInv ==
  /\ kind \in QueueKind
  /\ Represented
  /\ kind \in {"single", "tail"} => KnowsEnd(last, Contents)
  /\ kind \in {"double", "tail"} => BackChained(prev, Contents)

\* What a walk finds after a step is what the pointers represent then.
LEMMA ContentsNow ==
  ASSUME NEW M, Queued(M), Chained(next', M)
  PROVE  Contents' = M
  <1>1. \A h \in Heads : WalkFrom(next', h) = M[h]
    BY WalkFinds
  <1>2. Contents' = [h \in Heads |-> WalkFrom(next', h)]
    BY DEF Contents, Walk
  <1>3. M = [h \in Heads |-> M[h]]
    BY DEF Queued
  <1> QED BY <1>1, <1>2, <1>3

\* Elements are in a queue, at some place, or free.
LEMMA InOrFree ==
  ASSUME Queued(Contents)
  PROVE  /\ \A h \in Heads : Walk(h) = Contents[h] /\ Len(Contents[h]) \in Nat
         /\ \A h \in Heads : \A e : e \in In(h) <=> \E i \in 1 .. Len(Contents[h]) : Contents[h][i] = e
         /\ \A e \in Free : Unqueued(Contents, e)
         /\ \A e \in Elem \ Free : \E h \in Heads : e \in In(h)
         /\ \A h \in Heads : \A e \in In(h) : e \in Elem \ Free
         /\ \A h \in Heads : Final(h) = CellAt(Contents, h, Len(Contents[h]))
  <1>1. \A h \in Heads : Walk(h) = Contents[h] /\ Len(Contents[h]) \in Nat /\ Contents[h] \in Seq(Elem)
    BY DEF Contents, Queued
  <1>2. \A h \in Heads : DOMAIN Contents[h] = 1 .. Len(Contents[h])
                           /\ \A i \in 1 .. Len(Contents[h]) : Contents[h][i] \in Elem
    BY <1>1
  <1>3. \A h \in Heads : \A e : e \in In(h) <=> \E i \in 1 .. Len(Contents[h]) : Contents[h][i] = e
    BY <1>1, <1>2 DEF In
  <1>4. \A e : e \in Free <=> e \in Elem /\ \A h \in Heads : e \notin In(h)
    BY DEF Free
  <1>5. \A e \in Free : Unqueued(Contents, e)
    BY <1>3, <1>4 DEF Unqueued
  <1>6. \A h \in Heads : \A e \in In(h) : e \in Elem \ Free
    BY <1>2, <1>3, <1>4
  <1>7. ASSUME NEW h \in Heads PROVE Final(h) = CellAt(Contents, h, Len(Contents[h]))
    <2>1. Final(h) = EndOf(h, Contents[h])
      BY <1>1 DEF Final
    <2>2. Contents[h] = <<>> <=> Len(Contents[h]) = 0
      BY <1>1
    <2> QED BY <2>1, <2>2 DEF EndOf, CellAt
  <1> QED BY <1>1, <1>3, <1>4, <1>5, <1>6, <1>7

\* The fields when e is put behind the cell c of the queue h and before n, and the pointers
\* back when e is taken out from between c and n.
NextPut(e, c)    == [next EXCEPT ![e] = next[c], ![c] = e]
LastPut(h, e, c) == IF next[c] = Null THEN [last EXCEPT ![h] = e] ELSE last
BackPut(e, c, n) == [x \in Elem |-> CASE x = e  -> c
                                      [] x = n  -> e
                                      [] OTHER -> prev[x]]
BackCut(e, c, n) == [x \in Elem |-> CASE x = e  -> Null
                                      [] x = n  -> c
                                      [] OTHER -> prev[x]]

\* The element e is put behind the cell before the i-th element of h.
LEMMA PutStep ==
  ASSUME Queued(Contents), Chained(next, Contents), NEW h \in Heads,
         NEW i \in 1 .. Len(Contents[h]) + 1, NEW e, Unqueued(Contents, e),
         NEW c, c = CellAt(Contents, h, i - 1),
         next' = NextPut(e, c)
  PROVE  /\ Contents' = Put(Contents, h, i, e)
         /\ Queued(Contents') /\ Chained(next', Contents')
         /\ /\ KnowsEnd(last, Contents)
            /\ last' = LastPut(h, e, c)
            => KnowsEnd(last', Contents')
         /\ /\ BackChained(prev, Contents)
            /\ prev' = BackPut(e, c, next[c])
            => BackChained(prev', Contents')
  <1> DEFINE M == Put(Contents, h, i, e)
  <1>1. next \in [Cell -> Elem \cup {Null}]  BY DEF Chained
  <1>2. e \in Elem /\ e \in Cell  BY DEF Unqueued, Cell
  <1>3. i - 1 \in 0 .. Len(Contents[h]) /\ Len(Contents[h]) \in Nat  BY CellsApart
  <1>4. c \in Cell /\ c # e
    <2>1. c \in Cell  BY <1>3, CellsApart
    <2>2. CASE i - 1 = 0  BY <1>2, <2>1, <2>2, CellsDiffer DEF CellAt
    <2>3. CASE i - 1 # 0
      <3>1. i - 1 \in 1 .. Len(Contents[h])  BY <1>3, <2>3
      <3> QED BY <2>1, <2>3, <3>1 DEF CellAt, Unqueued
    <2> QED BY <2>1, <2>2, <2>3
  <1>5. /\ next' \in [Cell -> Elem \cup {Null}] /\ next'[e] = next[c] /\ next'[c] = e
        /\ \A x \in Cell \ {e, c} : next'[x] = next[x]
    BY <1>1, <1>2, <1>4 DEF NextPut
  <1>6. Chained(next', M)  BY <1>5, PutPointers
  <1>7. Queued(M)  BY PutCells
  <1>8. Contents' = M  BY <1>6, <1>7, ContentsNow
  <1>9. ASSUME KnowsEnd(last, Contents), last' = LastPut(h, e, c)
        PROVE  KnowsEnd(last', M)
    <2>1. last \in [Heads -> Cell]  BY <1>9 DEF KnowsEnd
    <2>2. /\ last' \in [Heads -> Cell] /\ last'[h] = (IF next[c] = Null THEN e ELSE last[h])
          /\ \A g \in Heads \ {h} : last'[g] = last[g]
      BY <1>2, <1>9, <2>1 DEF LastPut
    <2> QED BY <1>9, <2>1, <2>2, PutPointers
  <1>10. ASSUME BackChained(prev, Contents),
                prev' = BackPut(e, c, next[c])
         PROVE  BackChained(prev', M)
    <2>1. prev \in [Elem -> Cell \cup {Null}]  BY <1>10 DEF BackChained
    <2>2. prev' \in [Elem -> Cell \cup {Null}]  BY <1>2, <1>4, <1>10, <2>1 DEF BackPut
    <2>3. prev'[e] = c
      <3>1. next[c] = IF i - 1 = Len(Contents[h]) THEN Null ELSE Contents[h][(i - 1) + 1]
        BY <1>3 DEF Chained
      <3>2. i - 1 # Len(Contents[h]) => (i - 1) + 1 \in 1 .. Len(Contents[h])  BY <1>3
      <3>3. next[c] # e  BY <1>2, <3>1, <3>2, CellsDiffer DEF Unqueued
      <3> QED BY <1>2, <1>10, <3>3 DEF BackPut
    <2>4. ASSUME NEW x \in Elem \ {e} PROVE prev'[x] = IF x = next[c] THEN e ELSE prev[x]
      <3>1. CASE x = next[c]  BY <1>10, <3>1 DEF BackPut
      <3>2. CASE x # next[c]  BY <1>10, <3>2 DEF BackPut
      <3> QED BY <3>1, <3>2
    <2> QED BY <1>10, <2>1, <2>2, <2>3, <2>4, PutPointers
  <1> QED BY <1>6, <1>7, <1>8, <1>9, <1>10

\* The i-th element of h is taken out, and its fields are lost.
LEMMA CutStep ==
  ASSUME Queued(Contents), Chained(next, Contents), NEW h \in Heads,
         NEW i \in 1 .. Len(Contents[h]), NEW e, e = Contents[h][i],
         NEW c, c = CellAt(Contents, h, i - 1),
         next' = [next EXCEPT ![c] = next[e], ![e] = Null]
  PROVE  /\ Contents' = Cut(Contents, h, i, i)
         /\ Queued(Contents') /\ Chained(next', Contents')
         /\ /\ KnowsEnd(last, Contents)
            /\ last' = IF next[e] = Null THEN [last EXCEPT ![h] = c] ELSE last
            => KnowsEnd(last', Contents')
         /\ /\ BackChained(prev, Contents)
            /\ prev' = BackCut(e, c, next[e])
            => BackChained(prev', Contents')
  <1> DEFINE M == Cut(Contents, h, i, i)
  <1>1. next \in [Cell -> Elem \cup {Null}]  BY DEF Chained
  <1>2. /\ i - 1 \in 0 .. Len(Contents[h]) /\ i \in 0 .. Len(Contents[h]) /\ i # i - 1 /\ i # 0
        /\ i \in i .. Len(Contents[h]) /\ \A k \in i .. i : k = i
    BY CellsApart
  <1>3. e \in Elem /\ e \in Cell /\ c \in Cell /\ c # e
    <2>1. e \in Elem /\ e = CellAt(Contents, h, i)  BY <1>2, CellsApart DEF CellAt
    <2> QED BY <1>2, <2>1, CellsApart
  <1>4. /\ next' \in [Cell -> Elem \cup {Null}] /\ next'[c] = next[Contents[h][i]]
        /\ \A x \in Cell : x # c /\ x # e => next'[x] = next[x]
    BY <1>1, <1>3
  <1>5. Chained(next', M)
    <2>1. \A x \in Cell : x # c /\ (\A k \in i .. i : x # Contents[h][k]) => next'[x] = next[x]
      BY <1>2, <1>4
    <2> QED BY <1>2, <1>4, <2>1, CutPointers
  <1>6. Queued(M)  BY <1>2, CutCells
  <1>7. Contents' = M  BY <1>5, <1>6, ContentsNow
  <1>8. ASSUME KnowsEnd(last, Contents), last' = IF next[e] = Null THEN [last EXCEPT ![h] = c] ELSE last
        PROVE  KnowsEnd(last', M)
    <2>1. last \in [Heads -> Cell]  BY <1>8 DEF KnowsEnd
    <2>2. /\ last' \in [Heads -> Cell] /\ last'[h] = (IF next[Contents[h][i]] = Null THEN c ELSE last[h])
          /\ \A g \in Heads \ {h} : last'[g] = last[g]
      BY <1>3, <1>8, <2>1
    <2> QED BY <1>2, <1>8, <2>1, <2>2, CutPointers
  <1>9. ASSUME BackChained(prev, Contents),
               prev' = BackCut(e, c, next[e])
        PROVE  BackChained(prev', M)
    <2>1. prev \in [Elem -> Cell \cup {Null}]  BY <1>9 DEF BackChained
    <2>2. prev' \in [Elem -> Cell \cup {Null}]  BY <1>3, <1>9, <2>1 DEF BackCut
    <2>3. \A x \in Elem : (\A k \in i .. i : x # Contents[h][k])
                            => prev'[x] = IF x = next[Contents[h][i]] THEN c ELSE prev[x]
      BY <1>2, <1>9 DEF BackCut
    <2> QED BY <1>2, <1>9, <2>1, <2>2, <2>3, CutPointers
  <1> QED BY <1>5, <1>6, <1>7, <1>8, <1>9

\* The queue g is appended to h.
LEMMA JoinStep ==
  ASSUME Queued(Contents), Chained(next, Contents), NEW h \in Heads, NEW g \in Heads \ {h},
         NEW c, c = CellAt(Contents, h, Len(Contents[h])),
         IF next[g] = Null THEN next' = next
                           ELSE next' = [next EXCEPT ![c] = next[g], ![g] = Null]
  PROVE  /\ Contents' = Joined(Contents, h, g)
         /\ Queued(Contents') /\ Chained(next', Contents')
         /\ /\ KnowsEnd(last, Contents)
            /\ last' = IF next[g] = Null THEN last ELSE [last EXCEPT ![h] = last[g], ![g] = g]
            => KnowsEnd(last', Contents')
         /\ /\ BackChained(prev, Contents)
            /\ prev' = IF next[g] = Null THEN prev ELSE [prev EXCEPT ![next[g]] = c]
            => BackChained(prev', Contents')
  <1> DEFINE M == Joined(Contents, h, g)
  <1>1. next \in [Cell -> Elem \cup {Null}]  BY DEF Chained
  <1>2. /\ Len(Contents[h]) \in 0 .. Len(Contents[h]) /\ 0 \in 0 .. Len(Contents[g])
        /\ Len(Contents[g]) \in Nat /\ CellAt(Contents, g, 0) = g /\ g # h
    BY CellsApart DEF CellAt
  <1>3. c \in Cell /\ g \in Cell /\ c # g
    BY <1>2, CellsApart
  <1>4. next[c] = Null /\ next[g] = IF 0 = Len(Contents[g]) THEN Null ELSE Contents[g][0 + 1]
    BY <1>2 DEF Chained
  <1>5. next[g] = Null => Len(Contents[g]) = 0
    <2> SUFFICES ASSUME Len(Contents[g]) # 0 PROVE next[g] # Null
      OBVIOUS
    <2>1. 0 + 1 \in 1 .. Len(Contents[g])  BY <1>2
    <2>2. Contents[g][0 + 1] \in Elem  BY <2>1, CellsApart
    <2> QED BY <1>4, <2>2, CellsDiffer
  <1>6. /\ next' \in [Cell -> Elem \cup {Null}] /\ next'[c] = next[g] /\ next'[g] = Null
        /\ \A x \in Cell \ {g, c} : next'[x] = next[x]
    <2>1. CASE next[g] = Null  BY <1>1, <1>3, <1>4, <2>1
    <2>2. CASE next[g] # Null
      <3>1. next' = [next EXCEPT ![c] = next[g], ![g] = Null]  BY <2>2
      <3> QED BY <1>1, <1>3, <3>1
    <2> QED BY <2>1, <2>2
  <1>7. Queued(M) /\ Chained(next', M)  BY <1>6, JoinPointers
  <1>8. Contents' = M  BY <1>7, ContentsNow
  <1>9. ASSUME KnowsEnd(last, Contents),
               last' = IF next[g] = Null THEN last ELSE [last EXCEPT ![h] = last[g], ![g] = g]
        PROVE  KnowsEnd(last', M)
    <2>1. last \in [Heads -> Cell]  BY <1>9 DEF KnowsEnd
    <2>2. /\ last' \in [Heads -> Cell]
          /\ last'[h] = (IF next[g] = Null THEN last[h] ELSE last[g]) /\ last'[g] = g
          /\ \A f \in Heads \ {h, g} : last'[f] = last[f]
      <3>1. CASE next[g] = Null
        <4>1. last[g] = g  BY <1>2, <1>5, <1>9, <3>1 DEF KnowsEnd
        <4> QED BY <1>9, <2>1, <3>1, <4>1
      <3>2. CASE next[g] # Null  BY <1>2, <1>3, <1>9, <2>1, <3>2
      <3> QED BY <3>1, <3>2
    <2> QED BY <1>9, <2>1, <2>2, JoinPointers
  <1>10. ASSUME BackChained(prev, Contents),
                prev' = IF next[g] = Null THEN prev ELSE [prev EXCEPT ![next[g]] = c]
         PROVE  BackChained(prev', M)
    <2>1. prev \in [Elem -> Cell \cup {Null}]  BY <1>10 DEF BackChained
    <2>2. /\ prev' \in [Elem -> Cell \cup {Null}]
          /\ \A x \in Elem : prev'[x] = IF x = next[g] THEN c ELSE prev[x]
      <3>1. CASE next[g] = Null  BY <1>10, <2>1, <3>1, CellsDiffer
      <3>2. CASE next[g] # Null
        <4>1. next[g] \in Elem  BY <1>1, <1>3, <3>2
        <4> QED BY <1>3, <1>10, <2>1, <3>2, <4>1
      <3> QED BY <3>1, <3>2
    <2> QED BY <1>10, <2>1, <2>2, JoinPointers
  <1> QED BY <1>7, <1>8, <1>9, <1>10

\* The queues h and g are exchanged.
LEMMA SwapStep ==
  ASSUME Queued(Contents), Chained(next, Contents), NEW h \in Heads, NEW g \in Heads \ {h},
         next' = [next EXCEPT ![h] = next[g], ![g] = next[h]]
  PROVE  /\ Contents' = Swapped(Contents, h, g)
         /\ Queued(Contents') /\ Chained(next', Contents')
         /\ /\ KnowsEnd(last, Contents)
            /\ last' = [last EXCEPT ![h] = IF next[g] = Null THEN h ELSE last[g],
                                    ![g] = IF next[h] = Null THEN g ELSE last[h]]
            => KnowsEnd(last', Contents')
         /\ /\ BackChained(prev, Contents)
            /\ prev' = [x \in Elem |-> CASE x = next[g] -> h
                                         [] x = next[h] -> g
                                         [] OTHER       -> prev[x]]
            => BackChained(prev', Contents')
  <1> DEFINE M == Swapped(Contents, h, g)
  <1>1. next \in [Cell -> Elem \cup {Null}]  BY DEF Chained
  <1>2. /\ h \in Cell /\ g \in Cell /\ g # h
        /\ \A f \in Heads : 0 \in 0 .. Len(Contents[f]) /\ CellAt(Contents, f, 0) = f
        /\ \A f \in Heads : Len(Contents[f]) \in Nat
    BY CellsApart DEF CellAt, Cell
  <1>3. /\ next' \in [Cell -> Elem \cup {Null}] /\ next'[h] = next[g] /\ next'[g] = next[h]
        /\ \A x \in Cell \ {h, g} : next'[x] = next[x]
    BY <1>1, <1>2
  <1>4. Queued(M) /\ Chained(next', M)  BY <1>3, SwapPointers
  <1>5. Contents' = M  BY <1>4, ContentsNow
  <1>6. next[g] = next[h] => next[g] = Null
    <2>1. \A f \in Heads : next[f] = IF 0 = Len(Contents[f]) THEN Null ELSE Contents[f][0 + 1]
      BY <1>2 DEF Chained
    <2>2. \A f \in Heads : 0 # Len(Contents[f]) => 0 + 1 \in 1 .. Len(Contents[f])
                                                   /\ Contents[f][0 + 1] \in Elem
      BY <1>2, CellsApart
    <2> QED BY <1>2, <2>1, <2>2, CellsDiffer DEF Queued
  <1>7. ASSUME KnowsEnd(last, Contents),
               last' = [last EXCEPT ![h] = IF next[g] = Null THEN h ELSE last[g],
                                    ![g] = IF next[h] = Null THEN g ELSE last[h]]
        PROVE  KnowsEnd(last', M)
    <2>1. last \in [Heads -> Cell]  BY <1>7 DEF KnowsEnd
    <2>2. /\ last' \in [Heads -> Cell]
          /\ last'[h] = (IF next[g] = Null THEN h ELSE last[g])
          /\ last'[g] = (IF next[h] = Null THEN g ELSE last[h])
          /\ \A f \in Heads \ {h, g} : last'[f] = last[f]
      BY <1>2, <1>7, <2>1
    <2> QED BY <1>7, <2>1, <2>2, SwapPointers
  <1>8. ASSUME BackChained(prev, Contents),
               prev' = [x \in Elem |-> CASE x = next[g] -> h
                                         [] x = next[h] -> g
                                         [] OTHER       -> prev[x]]
        PROVE  BackChained(prev', M)
    <2>1. prev \in [Elem -> Cell \cup {Null}]  BY <1>8 DEF BackChained
    <2>2. prev' \in [Elem -> Cell \cup {Null}]  BY <1>2, <1>8, <2>1
    <2>3. ASSUME NEW x \in Elem
          PROVE  prev'[x] = IF x = next[g] THEN h ELSE IF x = next[h] THEN g ELSE prev[x]
      <3>1. x # Null  BY CellsDiffer
      <3>2. CASE x = next[g]  BY <1>6, <1>8, <3>1, <3>2
      <3>3. CASE x # next[g] /\ x = next[h]  BY <1>8, <3>3
      <3>4. CASE x # next[g] /\ x # next[h]  BY <1>8, <3>4
      <3> QED BY <3>2, <3>3, <3>4
    <2> QED BY <1>8, <2>1, <2>2, <2>3, SwapPointers
  <1> QED BY <1>4, <1>5, <1>7, <1>8

-----------------------------------------------------------------------------
(***************************************************************************)
(* Singly linked lists without an end (SLIST).                             *)
(***************************************************************************)
\* The operators of the instances are those above.
LEMMA ForwardWalks ==
  ASSUME NEW nx, NEW h
  PROVE  Forward!WalkFrom(nx, h) = WalkFrom(nx, h)
  <1>1. Forward!Cardinality(Elem) = Cardinality(Elem)
    BY DEF Forward!Cardinality, Cardinality
  <1> QED BY <1>1 DEF Forward!WalkFrom, WalkFrom, Forward!EndOf, EndOf

LEMMA ForwardCells ==
  /\ \A h : Forward!Walk(h) = Walk(h)
  /\ [h \in Heads |-> Forward!Walk(h)] = Contents
  /\ [h \in Heads |-> Forward!Walk(h)]' = Contents'
  /\ \A h : Forward!In(h) = In(h) /\ Forward!Final(h) = Final(h)
  /\ Forward!Free = Free
  <1>1. \A h : Forward!Walk(h) = Walk(h)
    BY ForwardWalks DEF Forward!Walk, Walk
  <1>2. [h \in Heads |-> Forward!Walk(h)] = Contents
    BY <1>1 DEF Contents
  <1>3. [h \in Heads |-> Forward!Walk(h)]' = Contents'
    BY ForwardWalks DEF Forward!Walk, Walk, Contents
  <1>4. \A h : Forward!In(h) = In(h) /\ Forward!Final(h) = Final(h)
    BY <1>1 DEF Forward!In, In, Forward!Final, Final, Forward!EndOf, EndOf
  <1>5. Forward!Free = Free
    BY <1>4 DEF Forward!Free, Free
  <1> QED BY <1>1, <1>2, <1>3, <1>4, <1>5

LEMMA ForwardPromises ==
  ASSUME Queued(Contents)
  PROVE  /\ \A h \in Heads : \A i, e :
              Unqueued(Contents, e) /\ Contents' = Put(Contents, h, i, e) => Forward!L!Put(h, i, e)
         /\ \A h \in Heads : \A i, j : Contents' = Cut(Contents, h, i, j) => Forward!L!Cut(h, i, j)
         /\ \A h, g \in Heads : Contents' = Joined(Contents, h, g) => Forward!L!Concat(h, g)
         /\ \A h, g \in Heads : Contents' = Swapped(Contents, h, g) => Forward!L!Swap(h, g)
         /\ \A h \in Heads : \A i \in 1 .. Len(Contents[h]) :
              /\ Forward!L!Pos(h, Contents[h][i]) = i
              /\ Contents[h][i] \in Forward!L!In(h)
  <1>1. \A h \in Heads : DOMAIN Contents[h] = 1 .. Len(Contents[h])
    BY DEF Queued
  <1>2. ASSUME NEW h \in Heads, NEW i, NEW e, Unqueued(Contents, e), Contents' = Put(Contents, h, i, e)
        PROVE  Forward!L!Put(h, i, e)
    <2>1. \A g \in Heads : e \notin Forward!L!In(g)
      BY <1>1, <1>2, ForwardCells DEF Forward!L!In, Unqueued
    <2> QED BY <1>2, <2>1, ForwardCells DEF Forward!L!Put, Put, WithElem
  <1>3. ASSUME NEW h \in Heads, NEW i, NEW j, Contents' = Cut(Contents, h, i, j)
        PROVE  Forward!L!Cut(h, i, j)
    BY <1>3, ForwardCells DEF Forward!L!Cut, Cut, WithoutElem
  <1>4. ASSUME NEW h \in Heads, NEW g \in Heads, Contents' = Joined(Contents, h, g)
        PROVE  Forward!L!Concat(h, g)
    BY <1>4, ForwardCells DEF Forward!L!Concat, Joined
  <1>5. ASSUME NEW h \in Heads, NEW g \in Heads, Contents' = Swapped(Contents, h, g)
        PROVE  Forward!L!Swap(h, g)
    BY <1>5, ForwardCells DEF Forward!L!Swap, Swapped
  <1>6. ASSUME NEW h \in Heads, NEW i \in 1 .. Len(Contents[h])
        PROVE  Forward!L!Pos(h, Contents[h][i]) = i /\ Contents[h][i] \in Forward!L!In(h)
    <2>1. \A j \in DOMAIN Contents[h] : Contents[h][j] = Contents[h][i] <=> j = i
      BY <1>1 DEF Queued
    <2>2. Forward!L!Pos(h, Contents[h][i]) = CHOOSE j \in DOMAIN Contents[h] : Contents[h][j] = Contents[h][i]
      BY ForwardCells DEF Forward!L!Pos
    <2>3. (CHOOSE j \in DOMAIN Contents[h] : Contents[h][j] = Contents[h][i]) = i
      BY <1>1, <2>1
    <2>4. Contents[h][i] \in Forward!L!In(h)
      BY <1>1, ForwardCells DEF Forward!L!In
    <2> QED BY <2>2, <2>3, <2>4
  <1> QED BY <1>2, <1>3, <1>4, <1>5, <1>6

\* Every operation does to the sequences what its name says, and keeps them represented.
LEMMA ForwardActs ==
  ASSUME Represented
  PROVE  /\ Forward!ActsOnLists
         /\ Forward!Next => Represented'
  <1> USE DEF Represented
  <1>1. /\ \A h \in Heads : Len(Contents[h]) \in Nat /\ 1 \in 1 .. Len(Contents[h]) + 1
        /\ \A h \in Heads : CellAt(Contents, h, 1 - 1) = h
        /\ \A h \in Heads : \A i \in 1 .. Len(Contents[h]) :
             /\ i + 1 \in 1 .. Len(Contents[h]) + 1
             /\ CellAt(Contents, h, (i + 1) - 1) = Contents[h][i]
    BY CellsApart DEF CellAt
  <1>2. ASSUME NEW h \in Heads, NEW e \in Elem, Forward!InsertHead(h, e)
        PROVE  Forward!L!InsertHead(h, e) /\ Represented'
    <2>1. Unqueued(Contents, e) /\ next' = NextPut(e, h)
      BY <1>2, InOrFree, ForwardCells DEF Forward!InsertHead, Forward!InsertBehind, NextPut
    <2>2. Contents' = Put(Contents, h, 1, e) /\ Represented'
      BY <1>1, <2>1, PutStep
    <2> QED BY <2>1, <2>2, ForwardPromises DEF Forward!L!InsertHead
  <1>3. ASSUME NEW h \in Heads, NEW l \in In(h), NEW e \in Elem, Forward!InsertAfter(l, e)
        PROVE  Forward!L!InsertAfter(h, l, e) /\ Represented'
    <2>1. Unqueued(Contents, e) /\ next' = NextPut(e, l)
      BY <1>3, InOrFree, ForwardCells DEF Forward!InsertAfter, Forward!InsertBehind, NextPut
    <2>2. PICK i \in 1 .. Len(Contents[h]) : Contents[h][i] = l
      BY InOrFree
    <2>3. Contents' = Put(Contents, h, i + 1, e) /\ Represented'
      BY <1>1, <2>1, <2>2, PutStep
    <2>4. Forward!L!Pos(h, l) = i /\ Forward!L!Put(h, i + 1, e)
      BY <2>1, <2>2, <2>3, ForwardPromises
    <2> QED BY <2>3, <2>4 DEF Forward!L!InsertAfter
  \* What the removals have in common: the i-th element goes, if there is one.
  <1>4. ASSUME NEW h \in Heads, NEW i \in 1 .. Len(Contents[h]) + 1, NEW c,
               c = CellAt(Contents, h, i - 1), next[c] # Null, Forward!RemoveBehind(c)
        PROVE  /\ i \in 1 .. Len(Contents[h]) /\ next[c] = Contents[h][i]
               /\ Forward!L!Cut(h, i, i) /\ Represented'
    <2>1. /\ i - 1 \in 0 .. Len(Contents[h])
          /\ next[c] = IF i - 1 = Len(Contents[h]) THEN Null ELSE Contents[h][(i - 1) + 1]
      BY <1>1, <1>4 DEF Chained
    <2>2. i \in 1 .. Len(Contents[h]) /\ next[c] = Contents[h][i]
      BY <1>1, <1>4, <2>1
    <2>3. next' = [next EXCEPT ![c] = next[next[c]], ![next[c]] = Null]
      BY <1>4 DEF Forward!RemoveBehind
    <2>4. Contents' = Cut(Contents, h, i, i) /\ Represented'
      BY <1>4, <2>2, <2>3, CutStep
    <2> QED BY <2>2, <2>4, ForwardPromises
  <1>5. ASSUME NEW h \in Heads, Forward!RemoveHead(h)
        PROVE  Forward!L!RemoveHead(h) /\ Represented'
    BY <1>1, <1>4, <1>5 DEF Forward!RemoveHead, Forward!L!RemoveHead
  <1>6. ASSUME NEW h \in Heads, NEW l \in In(h), Forward!RemoveAfter(l)
        PROVE  Forward!L!RemoveAfter(h, l) /\ Represented'
    <2>1. PICK i \in 1 .. Len(Contents[h]) : Contents[h][i] = l
      BY InOrFree
    <2>2. Forward!L!Cut(h, i + 1, i + 1) /\ Represented'
      BY <1>1, <1>4, <1>6, <2>1 DEF Forward!RemoveAfter
    <2>3. Forward!L!Pos(h, l) = i
      BY <2>1, ForwardPromises
    <2> QED BY <2>2, <2>3 DEF Forward!L!RemoveAfter
  <1>7. ASSUME NEW h \in Heads, NEW e \in Elem, Forward!Remove(h, e)
        PROVE  Forward!L!RemoveElem(h, e) /\ Represented'
    <2>1. PICK c \in {h} \cup In(h) : next[c] = e /\ Forward!RemoveBehind(c)
      BY <1>7, ForwardCells DEF Forward!Remove
    <2>2. PICK i \in 1 .. Len(Contents[h]) + 1 : c = CellAt(Contents, h, i - 1)
      <3>1. CASE c = h  BY <1>1, <3>1
      <3>2. CASE c \in In(h)
        <4>1. PICK i \in 1 .. Len(Contents[h]) : Contents[h][i] = c  BY <3>2, InOrFree
        <4> QED BY <1>1, <4>1
      <3> QED BY <3>1, <3>2
    <2>3. next[c] # Null  BY <2>1, CellsDiffer
    <2>4. i \in 1 .. Len(Contents[h]) /\ e = Contents[h][i] /\ Forward!L!Cut(h, i, i) /\ Represented'
      BY <1>4, <2>1, <2>2, <2>3
    <2>5. Forward!L!Pos(h, e) = i
      BY <2>4, ForwardPromises
    <2> QED BY <2>4, <2>5 DEF Forward!L!RemoveElem
  <1>8. ASSUME NEW h \in Heads, NEW g \in Heads \ {h}, Forward!Concat(h, g)
        PROVE  Forward!L!Concat(h, g) /\ Represented'
    <2>1. /\ Final(h) = CellAt(Contents, h, Len(Contents[h]))
          /\ IF next[g] = Null THEN next' = next
                               ELSE next' = [next EXCEPT ![Final(h)] = next[g], ![g] = Null]
      BY <1>8, InOrFree, ForwardCells DEF Forward!Concat
    <2>2. Contents' = Joined(Contents, h, g) /\ Represented'
      BY <2>1, JoinStep
    <2> QED BY <2>2, ForwardPromises
  <1>9. ASSUME NEW h \in Heads, NEW g \in Heads \ {h}, Forward!Swap(h, g)
        PROVE  Forward!L!Swap(h, g) /\ Represented'
    <2>1. Contents' = Swapped(Contents, h, g) /\ Represented'
      BY <1>9, SwapStep DEF Forward!Swap
    <2> QED BY <2>1, ForwardPromises
  <1>10. Forward!ActsOnLists
    BY <1>2, <1>3, <1>5, <1>6, <1>7, <1>8, <1>9, ForwardCells DEF Forward!ActsOnLists
  <1>11. ASSUME Forward!Next PROVE Represented'
    <2>1. ASSUME NEW l \in Elem, Forward!RemoveAfter(l) PROVE Represented'
      <3>1. PICK h \in Heads : l \in In(h)
        BY <2>1, InOrFree, ForwardCells DEF Forward!RemoveAfter
      <3> QED BY <1>6, <2>1, <3>1
    <2>2. ASSUME NEW l \in Elem, NEW e \in Elem, Forward!InsertAfter(l, e) PROVE Represented'
      <3>1. PICK h \in Heads : l \in In(h)
        BY <2>2, InOrFree, ForwardCells DEF Forward!InsertAfter
      <3> QED BY <1>3, <2>2, <3>1
    <2> QED BY <1>2, <1>5, <1>7, <1>8, <1>9, <1>11, <2>1, <2>2 DEF Forward!Next
  <1> QED BY <1>10, <1>11

-----------------------------------------------------------------------------
(***************************************************************************)
(* Singly linked queues that know their end (STAILQ).                      *)
(***************************************************************************)
LEMMA SingleWalks ==
  ASSUME NEW nx, NEW h
  PROVE  Single!WalkFrom(nx, h) = WalkFrom(nx, h)
  <1>1. Single!Cardinality(Elem) = Cardinality(Elem)
    BY DEF Single!Cardinality, Cardinality
  <1> QED BY <1>1 DEF Single!WalkFrom, WalkFrom, Single!EndOf, EndOf

LEMMA SingleCells ==
  /\ \A h : Single!Walk(h) = Walk(h)
  /\ [h \in Heads |-> Single!Walk(h)] = Contents
  /\ [h \in Heads |-> Single!Walk(h)]' = Contents'
  /\ \A h : Single!In(h) = In(h) /\ Single!Final(h) = Final(h)
  /\ Single!Free = Free
  <1>1. \A h : Single!Walk(h) = Walk(h)
    BY SingleWalks DEF Single!Walk, Walk
  <1>2. [h \in Heads |-> Single!Walk(h)] = Contents
    BY <1>1 DEF Contents
  <1>3. [h \in Heads |-> Single!Walk(h)]' = Contents'
    BY SingleWalks DEF Single!Walk, Walk, Contents
  <1>4. \A h : Single!In(h) = In(h) /\ Single!Final(h) = Final(h)
    BY <1>1 DEF Single!In, In, Single!Final, Final, Single!EndOf, EndOf
  <1>5. Single!Free = Free
    BY <1>4 DEF Single!Free, Free
  <1> QED BY <1>1, <1>2, <1>3, <1>4, <1>5

LEMMA SinglePromises ==
  ASSUME Queued(Contents)
  PROVE  /\ \A h \in Heads : \A i, e :
              Unqueued(Contents, e) /\ Contents' = Put(Contents, h, i, e) => Single!L!Put(h, i, e)
         /\ \A h \in Heads : \A i, j : Contents' = Cut(Contents, h, i, j) => Single!L!Cut(h, i, j)
         /\ \A h, g \in Heads : Contents' = Joined(Contents, h, g) => Single!L!Concat(h, g)
         /\ \A h, g \in Heads : Contents' = Swapped(Contents, h, g) => Single!L!Swap(h, g)
         /\ \A h \in Heads : \A i \in 1 .. Len(Contents[h]) :
              /\ Single!L!Pos(h, Contents[h][i]) = i
              /\ Contents[h][i] \in Single!L!In(h)
  <1>1. \A h \in Heads : DOMAIN Contents[h] = 1 .. Len(Contents[h])
    BY DEF Queued
  <1>2. ASSUME NEW h \in Heads, NEW i, NEW e, Unqueued(Contents, e), Contents' = Put(Contents, h, i, e)
        PROVE  Single!L!Put(h, i, e)
    <2>1. \A g \in Heads : e \notin Single!L!In(g)
      BY <1>1, <1>2, SingleCells DEF Single!L!In, Unqueued
    <2> QED BY <1>2, <2>1, SingleCells DEF Single!L!Put, Put, WithElem
  <1>3. ASSUME NEW h \in Heads, NEW i, NEW j, Contents' = Cut(Contents, h, i, j)
        PROVE  Single!L!Cut(h, i, j)
    BY <1>3, SingleCells DEF Single!L!Cut, Cut, WithoutElem
  <1>4. ASSUME NEW h \in Heads, NEW g \in Heads, Contents' = Joined(Contents, h, g)
        PROVE  Single!L!Concat(h, g)
    BY <1>4, SingleCells DEF Single!L!Concat, Joined
  <1>5. ASSUME NEW h \in Heads, NEW g \in Heads, Contents' = Swapped(Contents, h, g)
        PROVE  Single!L!Swap(h, g)
    BY <1>5, SingleCells DEF Single!L!Swap, Swapped
  <1>6. ASSUME NEW h \in Heads, NEW i \in 1 .. Len(Contents[h])
        PROVE  Single!L!Pos(h, Contents[h][i]) = i /\ Contents[h][i] \in Single!L!In(h)
    <2>1. \A j \in DOMAIN Contents[h] : Contents[h][j] = Contents[h][i] <=> j = i
      BY <1>1 DEF Queued
    <2>2. Single!L!Pos(h, Contents[h][i]) = CHOOSE j \in DOMAIN Contents[h] : Contents[h][j] = Contents[h][i]
      BY SingleCells DEF Single!L!Pos
    <2>3. (CHOOSE j \in DOMAIN Contents[h] : Contents[h][j] = Contents[h][i]) = i
      BY <1>1, <2>1
    <2>4. Contents[h][i] \in Single!L!In(h)
      BY <1>1, SingleCells DEF Single!L!In
    <2> QED BY <2>2, <2>3, <2>4
  <1> QED BY <1>2, <1>3, <1>4, <1>5, <1>6

\* Every operation does to the sequences what its name says, and moves the end with them.
LEMMA SingleActs ==
  ASSUME Represented, KnowsEnd(last, Contents)
  PROVE  /\ Single!ActsOnLists
         /\ Single!Next => Represented' /\ KnowsEnd(last', Contents')
  <1> USE DEF Represented
  <1> DEFINE Kept == Represented' /\ KnowsEnd(last', Contents')
  <1>1. /\ \A h \in Heads : /\ Len(Contents[h]) \in Nat /\ 1 \in 1 .. Len(Contents[h]) + 1
                            /\ Len(Contents[h]) + 1 \in 1 .. Len(Contents[h]) + 1
                            /\ (Len(Contents[h]) + 1) - 1 = Len(Contents[h])
                            /\ Len(Contents[h]) \in 0 .. Len(Contents[h])
        /\ \A h \in Heads : CellAt(Contents, h, 1 - 1) = h
        /\ \A h \in Heads : \A i \in 1 .. Len(Contents[h]) :
             /\ i + 1 \in 1 .. Len(Contents[h]) + 1
             /\ CellAt(Contents, h, (i + 1) - 1) = Contents[h][i]
    BY CellsApart DEF CellAt
  <1>2. ASSUME NEW h \in Heads, NEW e \in Elem, Single!InsertHead(h, e)
        PROVE  Single!L!InsertHead(h, e) /\ Kept
    <2>1. /\ Unqueued(Contents, e) /\ next' = NextPut(e, h)
          /\ last' = LastPut(h, e, h)
      BY <1>2, InOrFree, SingleCells DEF Single!InsertHead, Single!InsertBehind, NextPut, LastPut
    <2>2. 1 \in 1 .. Len(Contents[h]) + 1 /\ h = CellAt(Contents, h, 1 - 1)
      BY <1>1
    <2>3. Contents' = Put(Contents, h, 1, e) /\ Kept
      BY <2>1, <2>2, PutStep
    <2> QED BY <2>1, <2>3, SinglePromises DEF Single!L!InsertHead
  <1>3. ASSUME NEW h \in Heads, NEW l \in Elem, NEW e \in Elem, Single!InsertAfter(h, l, e)
        PROVE  Single!L!InsertAfter(h, l, e) /\ Kept
    <2>1. /\ Unqueued(Contents, e) /\ next' = NextPut(e, l)
          /\ last' = LastPut(h, e, l)
          /\ l \in In(h)
      BY <1>3, InOrFree, SingleCells DEF Single!InsertAfter, Single!InsertBehind, NextPut, LastPut
    <2>2. PICK i \in 1 .. Len(Contents[h]) : Contents[h][i] = l
      BY <2>1, InOrFree
    <2>3. i + 1 \in 1 .. Len(Contents[h]) + 1 /\ l = CellAt(Contents, h, (i + 1) - 1)
      BY <1>1, <2>2
    <2>4. Contents' = Put(Contents, h, i + 1, e) /\ Kept
      BY <2>1, <2>3, PutStep
    <2>5. Single!L!Pos(h, l) = i /\ Single!L!Put(h, i + 1, e)
      BY <2>1, <2>2, <2>4, SinglePromises
    <2> QED BY <2>4, <2>5 DEF Single!L!InsertAfter
  <1>4. ASSUME NEW h \in Heads, NEW e \in Elem, Single!InsertTail(h, e)
        PROVE  Single!L!InsertTail(h, e) /\ Kept
    <2> DEFINE c == last[h]
    <2>1. c = CellAt(Contents, h, Len(Contents[h])) /\ next[c] = Null
      BY <1>1 DEF KnowsEnd, Chained
    <2>2. /\ Unqueued(Contents, e) /\ next' = NextPut(e, c)
          /\ last' = LastPut(h, e, c)
      BY <1>4, <2>1, InOrFree, SingleCells DEF Single!InsertTail, NextPut, LastPut
    <2> HIDE DEF c
    <2>3. Contents' = Put(Contents, h, Len(Contents[h]) + 1, e) /\ Kept
      BY <1>1, <2>1, <2>2, PutStep
    <2>4. Single!L!Put(h, Len(Contents[h]) + 1, e)
      BY <2>2, <2>3, SinglePromises
    <2> QED BY <2>3, <2>4, SingleCells DEF Single!L!InsertTail
  \* What the removals have in common: the i-th element goes, if there is one.
  <1>5. ASSUME NEW h \in Heads, NEW i \in 1 .. Len(Contents[h]) + 1, NEW c,
               c = CellAt(Contents, h, i - 1), next[c] # Null, Single!RemoveBehind(h, c)
        PROVE  /\ i \in 1 .. Len(Contents[h]) /\ next[c] = Contents[h][i]
               /\ Single!L!Cut(h, i, i) /\ Kept
    <2>1. /\ i - 1 \in 0 .. Len(Contents[h])
          /\ next[c] = IF i - 1 = Len(Contents[h]) THEN Null ELSE Contents[h][(i - 1) + 1]
      BY <1>1, <1>5 DEF Chained
    <2>2. i \in 1 .. Len(Contents[h]) /\ next[c] = Contents[h][i]
      BY <1>1, <1>5, <2>1
    <2>3. /\ next' = [next EXCEPT ![c] = next[next[c]], ![next[c]] = Null]
          /\ last' = IF next[next[c]] = Null THEN [last EXCEPT ![h] = c] ELSE last
      BY <1>5 DEF Single!RemoveBehind
    <2>4. Contents' = Cut(Contents, h, i, i) /\ Kept
      BY <1>5, <2>2, <2>3, CutStep
    <2> QED BY <2>2, <2>4, SinglePromises
  <1>6. ASSUME NEW h \in Heads, Single!RemoveHead(h)
        PROVE  Single!L!RemoveHead(h) /\ Kept
    BY <1>1, <1>5, <1>6 DEF Single!RemoveHead, Single!L!RemoveHead
  <1>7. ASSUME NEW h \in Heads, NEW l \in Elem, Single!RemoveAfter(h, l)
        PROVE  Single!L!RemoveAfter(h, l) /\ Kept
    <2>1. PICK i \in 1 .. Len(Contents[h]) : Contents[h][i] = l
      BY <1>7, InOrFree, SingleCells DEF Single!RemoveAfter
    <2>2. Single!L!Cut(h, i + 1, i + 1) /\ Kept
      BY <1>1, <1>5, <1>7, <2>1 DEF Single!RemoveAfter
    <2>3. Single!L!Pos(h, l) = i
      BY <2>1, SinglePromises
    <2> QED BY <2>2, <2>3 DEF Single!L!RemoveAfter
  <1>8. ASSUME NEW h \in Heads, NEW e \in Elem, Single!Remove(h, e)
        PROVE  Single!L!RemoveElem(h, e) /\ Kept
    <2>1. PICK c \in {h} \cup In(h) : next[c] = e /\ Single!RemoveBehind(h, c)
      BY <1>8, SingleCells DEF Single!Remove
    <2>2. PICK i \in 1 .. Len(Contents[h]) + 1 : c = CellAt(Contents, h, i - 1)
      <3>1. CASE c = h  BY <1>1, <3>1
      <3>2. CASE c \in In(h)
        <4>1. PICK i \in 1 .. Len(Contents[h]) : Contents[h][i] = c  BY <3>2, InOrFree
        <4> QED BY <1>1, <4>1
      <3> QED BY <3>1, <3>2
    <2>3. next[c] # Null  BY <2>1, CellsDiffer
    <2>4. i \in 1 .. Len(Contents[h]) /\ e = Contents[h][i] /\ Single!L!Cut(h, i, i) /\ Kept
      BY <1>5, <2>1, <2>2, <2>3
    <2>5. Single!L!Pos(h, e) = i
      BY <2>4, SinglePromises
    <2> QED BY <2>4, <2>5 DEF Single!L!RemoveElem
  <1>9. ASSUME NEW h \in Heads, NEW e \in Elem, Single!RemoveHeadUntil(h, e)
        PROVE  Single!L!RemoveHeadUntil(h, e) /\ Kept
    <2>1. PICK i \in 1 .. Len(Contents[h]) :
            /\ Contents[h][i] = e
            /\ next' = [c \in Cell |-> CASE c = h                                -> next[e]
                                         [] \E k \in 1 .. i : Contents[h][k] = c -> Null
                                         [] OTHER                                -> next[c]]
      <3>1. DOMAIN Contents[h] = 1 .. Len(Contents[h]) /\ Single!Walk(h) = Contents[h]
        BY InOrFree, SingleCells DEF Queued
      <3>2. Single!Cell = Cell  BY DEF Single!Cell, Cell
      <3> QED BY <1>9, <3>1, <3>2 DEF Single!RemoveHeadUntil
    <2>2. last' = IF next[e] = Null THEN [last EXCEPT ![h] = h] ELSE last
      BY <1>9 DEF Single!RemoveHeadUntil
    <2>3. 1 \in 1 .. Len(Contents[h]) /\ i \in 1 .. Len(Contents[h]) /\ CellAt(Contents, h, 1 - 1) = h
      BY <1>1
    <2>4. next \in [Cell -> Elem \cup {Null}] /\ e \in Cell /\ h \in Cell
      BY DEF Chained, Cell
    <2>5. next' \in [Cell -> Elem \cup {Null}] /\ next'[h] = next[Contents[h][i]]
      <3>1. \A k \in 1 .. i : Contents[h][k] # h
        <4>1. \A k \in 1 .. i : k \in 1 .. Len(Contents[h])  BY <1>1
        <4> QED BY <4>1, CellsApart, CellsDiffer
      <3>2. next'[h] = next[e]  BY <2>1, <2>4, <3>1
      <3>3. \A c \in Cell : next'[c] \in Elem \cup {Null}
        <4> SUFFICES ASSUME NEW c \in Cell PROVE next'[c] \in Elem \cup {Null}
          OBVIOUS
        <4>1. CASE c = h  BY <2>4, <3>2, <4>1
        <4>2. CASE c # h /\ \E k \in 1 .. i : Contents[h][k] = c  BY <2>1, <4>2
        <4>3. CASE c # h /\ ~\E k \in 1 .. i : Contents[h][k] = c  BY <2>1, <2>4, <4>3
        <4> QED BY <4>1, <4>2, <4>3
      <3>4. next' = [c \in Cell |-> next'[c]]  BY <2>1
      <3> QED BY <2>1, <3>2, <3>3, <3>4
    <2>6. \A x \in Cell : x # h /\ (\A k \in 1 .. i : x # Contents[h][k]) => next'[x] = next[x]
      BY <2>1
    <2>7. Chained(next', Cut(Contents, h, 1, i))
      BY <2>3, <2>5, <2>6, CutPointers
    <2>8. Queued(Cut(Contents, h, 1, i))
      BY <2>3, CutCells
    <2>9. Contents' = Cut(Contents, h, 1, i)
      BY <2>7, <2>8, ContentsNow
    <2>10. KnowsEnd(last', Cut(Contents, h, 1, i))
      <3>1. last \in [Heads -> Cell]  BY DEF KnowsEnd
      <3>2. /\ last' \in [Heads -> Cell] /\ last'[h] = (IF next[Contents[h][i]] = Null THEN h ELSE last[h])
            /\ \A g \in Heads \ {h} : last'[g] = last[g]
        BY <2>1, <2>2, <2>4, <3>1
      <3> QED BY <2>3, <3>1, <3>2, CutPointers
    <2>11. Single!L!Pos(h, e) = i /\ Single!L!Cut(h, 1, i)
      BY <2>1, <2>9, SinglePromises
    <2> QED BY <2>7, <2>8, <2>9, <2>10, <2>11 DEF Single!L!RemoveHeadUntil
  <1>10. ASSUME NEW h \in Heads, NEW g \in Heads \ {h}, Single!Concat(h, g)
         PROVE  Single!L!Concat(h, g) /\ Kept
    <2> DEFINE c == last[h]
    <2>1. c = CellAt(Contents, h, Len(Contents[h]))
      BY DEF KnowsEnd
    <2>2. /\ IF next[g] = Null THEN next' = next
                               ELSE next' = [next EXCEPT ![c] = next[g], ![g] = Null]
          /\ last' = IF next[g] = Null THEN last ELSE [last EXCEPT ![h] = last[g], ![g] = g]
      BY <1>10 DEF Single!Concat
    <2> HIDE DEF c
    <2>3. Contents' = Joined(Contents, h, g) /\ Kept
      BY <2>1, <2>2, JoinStep
    <2> QED BY <2>3, SinglePromises
  <1>11. ASSUME NEW h \in Heads, NEW g \in Heads \ {h}, Single!Swap(h, g)
         PROVE  Single!L!Swap(h, g) /\ Kept
    <2>1. Contents' = Swapped(Contents, h, g) /\ Kept
      BY <1>11, SwapStep DEF Single!Swap
    <2> QED BY <2>1, SinglePromises
  <1>12. Single!ActsOnLists
    BY <1>2, <1>3, <1>4, <1>6, <1>7, <1>8, <1>9, <1>10, <1>11 DEF Single!ActsOnLists
  <1>13. ASSUME Single!Next PROVE Kept
    BY <1>2, <1>3, <1>4, <1>6, <1>7, <1>8, <1>9, <1>10, <1>11, <1>13 DEF Single!Next
  <1> QED BY <1>12, <1>13

-----------------------------------------------------------------------------
(***************************************************************************)
(* Doubly linked lists without an end (LIST).                              *)
(***************************************************************************)
LEMMA DoubleWalks ==
  ASSUME NEW nx, NEW h
  PROVE  Double!WalkFrom(nx, h) = WalkFrom(nx, h)
  <1>1. Double!Cardinality(Elem) = Cardinality(Elem)
    BY DEF Double!Cardinality, Cardinality
  <1> QED BY <1>1 DEF Double!WalkFrom, WalkFrom, Double!EndOf, EndOf

LEMMA DoubleCells ==
  /\ \A h : Double!Walk(h) = Walk(h)
  /\ [h \in Heads |-> Double!Walk(h)] = Contents
  /\ [h \in Heads |-> Double!Walk(h)]' = Contents'
  /\ \A h : Double!In(h) = In(h) /\ Double!Final(h) = Final(h)
  /\ Double!Free = Free
  <1>1. \A h : Double!Walk(h) = Walk(h)
    BY DoubleWalks DEF Double!Walk, Walk
  <1>2. [h \in Heads |-> Double!Walk(h)] = Contents
    BY <1>1 DEF Contents
  <1>3. [h \in Heads |-> Double!Walk(h)]' = Contents'
    BY DoubleWalks DEF Double!Walk, Walk, Contents
  <1>4. \A h : Double!In(h) = In(h) /\ Double!Final(h) = Final(h)
    BY <1>1 DEF Double!In, In, Double!Final, Final, Double!EndOf, EndOf
  <1>5. Double!Free = Free
    BY <1>4 DEF Double!Free, Free
  <1> QED BY <1>1, <1>2, <1>3, <1>4, <1>5

LEMMA DoublePromises ==
  ASSUME Queued(Contents)
  PROVE  /\ \A h \in Heads : \A i, e :
              Unqueued(Contents, e) /\ Contents' = Put(Contents, h, i, e) => Double!L!Put(h, i, e)
         /\ \A h \in Heads : \A i, j : Contents' = Cut(Contents, h, i, j) => Double!L!Cut(h, i, j)
         /\ \A h, g \in Heads : Contents' = Joined(Contents, h, g) => Double!L!Concat(h, g)
         /\ \A h, g \in Heads : Contents' = Swapped(Contents, h, g) => Double!L!Swap(h, g)
         /\ \A h \in Heads : \A i \in 1 .. Len(Contents[h]) :
              /\ Double!L!Pos(h, Contents[h][i]) = i
              /\ Contents[h][i] \in Double!L!In(h)
  <1>1. \A h \in Heads : DOMAIN Contents[h] = 1 .. Len(Contents[h])
    BY DEF Queued
  <1>2. ASSUME NEW h \in Heads, NEW i, NEW e, Unqueued(Contents, e), Contents' = Put(Contents, h, i, e)
        PROVE  Double!L!Put(h, i, e)
    <2>1. \A g \in Heads : e \notin Double!L!In(g)
      BY <1>1, <1>2, DoubleCells DEF Double!L!In, Unqueued
    <2> QED BY <1>2, <2>1, DoubleCells DEF Double!L!Put, Put, WithElem
  <1>3. ASSUME NEW h \in Heads, NEW i, NEW j, Contents' = Cut(Contents, h, i, j)
        PROVE  Double!L!Cut(h, i, j)
    BY <1>3, DoubleCells DEF Double!L!Cut, Cut, WithoutElem
  <1>4. ASSUME NEW h \in Heads, NEW g \in Heads, Contents' = Joined(Contents, h, g)
        PROVE  Double!L!Concat(h, g)
    BY <1>4, DoubleCells DEF Double!L!Concat, Joined
  <1>5. ASSUME NEW h \in Heads, NEW g \in Heads, Contents' = Swapped(Contents, h, g)
        PROVE  Double!L!Swap(h, g)
    BY <1>5, DoubleCells DEF Double!L!Swap, Swapped
  <1>6. ASSUME NEW h \in Heads, NEW i \in 1 .. Len(Contents[h])
        PROVE  Double!L!Pos(h, Contents[h][i]) = i /\ Contents[h][i] \in Double!L!In(h)
    <2>1. \A j \in DOMAIN Contents[h] : Contents[h][j] = Contents[h][i] <=> j = i
      BY <1>1 DEF Queued
    <2>2. Double!L!Pos(h, Contents[h][i]) = CHOOSE j \in DOMAIN Contents[h] : Contents[h][j] = Contents[h][i]
      BY DoubleCells DEF Double!L!Pos
    <2>3. (CHOOSE j \in DOMAIN Contents[h] : Contents[h][j] = Contents[h][i]) = i
      BY <1>1, <2>1
    <2>4. Contents[h][i] \in Double!L!In(h)
      BY <1>1, DoubleCells DEF Double!L!In
    <2> QED BY <2>2, <2>3, <2>4
  <1> QED BY <1>2, <1>3, <1>4, <1>5, <1>6

\* Every operation does to the sequences what its name says, and keeps the pointers back.
LEMMA DoubleActs ==
  ASSUME Represented, BackChained(prev, Contents)
  PROVE  /\ Double!ActsOnLists
         /\ Double!Next => Represented' /\ BackChained(prev', Contents')
  <1> USE DEF Represented
  <1> DEFINE Kept == Represented' /\ BackChained(prev', Contents')
  <1>1. /\ \A h \in Heads : /\ Len(Contents[h]) \in Nat /\ 1 \in 1 .. Len(Contents[h]) + 1
                            /\ Len(Contents[h]) + 1 \in 1 .. Len(Contents[h]) + 1
                            /\ (Len(Contents[h]) + 1) - 1 = Len(Contents[h])
                            /\ Len(Contents[h]) \in 0 .. Len(Contents[h])
        /\ \A h \in Heads : h = CellAt(Contents, h, 1 - 1)
        /\ \A h \in Heads : \A i \in 1 .. Len(Contents[h]) :
             /\ i \in 1 .. Len(Contents[h]) + 1 /\ i + 1 \in 1 .. Len(Contents[h]) + 1
             /\ i - 1 \in 0 .. Len(Contents[h]) /\ i - 1 # Len(Contents[h]) /\ (i - 1) + 1 = i
             /\ Contents[h][i] = CellAt(Contents, h, (i + 1) - 1)
    BY CellsApart DEF CellAt
  <1>2. prev \in [Elem -> Cell \cup {Null}]
    BY DEF BackChained
  \* What the insertions behind a cell have in common.
  <1>3. ASSUME NEW h \in Heads, NEW c, NEW e, Double!InsertBehind(c, e)
        PROVE  /\ next' = NextPut(e, c)
               /\ prev' = BackPut(e, c, next[c])
    BY <1>3 DEF Double!InsertBehind, BackPut, NextPut
  <1>4. ASSUME NEW h \in Heads, NEW e \in Elem, Double!InsertHead(h, e)
        PROVE  Double!L!InsertHead(h, e) /\ Kept
    <2>1. Unqueued(Contents, e) /\ Double!InsertBehind(h, e)
      BY <1>4, InOrFree, DoubleCells DEF Double!InsertHead
    <2>2. 1 \in 1 .. Len(Contents[h]) + 1 /\ h = CellAt(Contents, h, 1 - 1)
      BY <1>1
    <2>3. Contents' = Put(Contents, h, 1, e) /\ Kept
      BY <1>3, <2>1, <2>2, PutStep
    <2> QED BY <2>1, <2>3, DoublePromises DEF Double!L!InsertHead
  <1>5. ASSUME NEW h \in Heads, NEW l \in In(h), NEW e \in Elem, Double!InsertAfter(l, e)
        PROVE  Double!L!InsertAfter(h, l, e) /\ Kept
    <2>1. Unqueued(Contents, e) /\ Double!InsertBehind(l, e)
      BY <1>5, InOrFree, DoubleCells DEF Double!InsertAfter
    <2>2. PICK i \in 1 .. Len(Contents[h]) : Contents[h][i] = l
      BY InOrFree
    <2>3. i + 1 \in 1 .. Len(Contents[h]) + 1 /\ l = CellAt(Contents, h, (i + 1) - 1)
      BY <1>1, <2>2
    <2>4. Contents' = Put(Contents, h, i + 1, e) /\ Kept
      BY <1>3, <2>1, <2>3, PutStep
    <2>5. Double!L!Pos(h, l) = i /\ Double!L!Put(h, i + 1, e)
      BY <2>1, <2>2, <2>4, DoublePromises
    <2> QED BY <2>4, <2>5 DEF Double!L!InsertAfter
  \* The pointer back leads to the cell before the element, as if a head was given.
  <1>6. ASSUME NEW h \in Heads, NEW l \in In(h), NEW e \in Elem, Double!InsertBefore(l, e)
        PROVE  Double!L!InsertBefore(l, e) /\ Kept
    <2> DEFINE c == prev[l]
    <2>1. PICK i \in 1 .. Len(Contents[h]) : Contents[h][i] = l
      BY InOrFree
    <2>2. i \in 1 .. Len(Contents[h]) + 1 /\ c = CellAt(Contents, h, i - 1)
      BY <1>1, <2>1 DEF BackChained
    <2>3. next[c] = l
      BY <1>1, <2>1, <2>2 DEF Chained
    <2>4. Unqueued(Contents, e) /\ e \in Elem /\ l # e /\ l \in Elem
      BY <1>6, <2>1, InOrFree, DoubleCells DEF Double!InsertBefore, Unqueued
    <2>5. /\ next' = [next EXCEPT ![e] = l, ![c] = e]
          /\ prev' = [prev EXCEPT ![e] = c, ![l] = e]
      BY <1>6 DEF Double!InsertBefore
    <2> HIDE DEF c
    <2>6. prev' = BackPut(e, c, next[c])
      <3> SUFFICES ASSUME NEW x \in Elem
                   PROVE  prev'[x] = CASE x = e       -> c
                                       [] x = next[c] -> e
                                       [] OTHER       -> prev[x]
        BY <1>2, <2>5 DEF BackPut
      <3>1. CASE x = e  BY <1>2, <2>3, <2>4, <2>5, <3>1
      <3>2. CASE x = l  BY <1>2, <2>3, <2>4, <2>5, <3>2
      <3>3. CASE x # e /\ x # l  BY <1>2, <2>3, <2>5, <3>3
      <3> QED BY <3>1, <3>2, <3>3
    <2>7. next' = NextPut(e, c)
      BY <2>3, <2>5 DEF NextPut
    <2>8. Contents' = Put(Contents, h, i, e) /\ Kept
      BY <2>2, <2>4, <2>6, <2>7, PutStep
    <2>9. Double!L!Pos(h, l) = i /\ l \in Double!L!In(h) /\ Double!L!Put(h, i, e)
      BY <2>1, <2>4, <2>8, DoublePromises
    <2> QED BY <2>8, <2>9 DEF Double!L!InsertBefore
  <1>7. ASSUME NEW h \in Heads, NEW e \in In(h), Double!Remove(e)
        PROVE  Double!L!RemoveElem(h, e) /\ Kept
    <2> DEFINE c == prev[e]
    <2>1. PICK i \in 1 .. Len(Contents[h]) : Contents[h][i] = e
      BY InOrFree
    <2>2. c = CellAt(Contents, h, i - 1)
      BY <2>1 DEF BackChained
    <2>3. /\ next' = [next EXCEPT ![c] = next[e], ![e] = Null]
          /\ prev' = BackCut(e, c, next[e])
      BY <1>7 DEF Double!Remove, BackCut
    <2> HIDE DEF c
    <2>4. Contents' = Cut(Contents, h, i, i) /\ Kept
      BY <2>1, <2>2, <2>3, CutStep
    <2>5. Double!L!Pos(h, e) = i /\ Double!L!Cut(h, i, i)
      BY <2>1, <2>4, DoublePromises
    <2> QED BY <2>4, <2>5 DEF Double!L!RemoveElem
  <1>8. ASSUME NEW h \in Heads, NEW g \in Heads \ {h}, Double!Concat(h, g)
        PROVE  Double!L!Concat(h, g) /\ Kept
    <2> DEFINE c == Final(h)
    <2>1. c = CellAt(Contents, h, Len(Contents[h]))
      BY InOrFree
    <2>2. /\ IF next[g] = Null THEN next' = next
                               ELSE next' = [next EXCEPT ![c] = next[g], ![g] = Null]
          /\ prev' = IF next[g] = Null THEN prev ELSE [prev EXCEPT ![next[g]] = c]
      BY <1>8, DoubleCells DEF Double!Concat, Double!vars
    <2> HIDE DEF c
    <2>3. Contents' = Joined(Contents, h, g) /\ Kept
      BY <2>1, <2>2, JoinStep
    <2> QED BY <2>3, DoublePromises
  <1>9. ASSUME NEW h \in Heads, NEW g \in Heads \ {h}, Double!Swap(h, g)
        PROVE  Double!L!Swap(h, g) /\ Kept
    <2>1. Contents' = Swapped(Contents, h, g) /\ Kept
      BY <1>9, SwapStep DEF Double!Swap
    <2> QED BY <2>1, DoublePromises
  <1>10. Double!ActsOnLists
    BY <1>4, <1>5, <1>6, <1>7, <1>8, <1>9, DoubleCells DEF Double!ActsOnLists
  <1>11. ASSUME Double!Next PROVE Kept
    <2>1. ASSUME NEW e \in Elem, Double!Remove(e) PROVE Kept
      <3>1. PICK h \in Heads : e \in In(h)
        BY <2>1, InOrFree, DoubleCells DEF Double!Remove
      <3> QED BY <1>7, <2>1, <3>1
    <2>2. ASSUME NEW l \in Elem, NEW e \in Elem, Double!InsertAfter(l, e) PROVE Kept
      <3>1. PICK h \in Heads : l \in In(h)
        BY <2>2, InOrFree, DoubleCells DEF Double!InsertAfter
      <3> QED BY <1>5, <2>2, <3>1
    <2>3. ASSUME NEW l \in Elem, NEW e \in Elem, Double!InsertBefore(l, e) PROVE Kept
      <3>1. PICK h \in Heads : l \in In(h)
        BY <2>3, InOrFree, DoubleCells DEF Double!InsertBefore
      <3> QED BY <1>6, <2>3, <3>1
    <2> QED BY <1>4, <1>8, <1>9, <1>11, <2>1, <2>2, <2>3 DEF Double!Next
  <1> QED BY <1>10, <1>11

-----------------------------------------------------------------------------
(***************************************************************************)
(* Doubly linked queues that know their end (TAILQ).                       *)
(***************************************************************************)
LEMMA TailQWalks ==
  ASSUME NEW nx, NEW h
  PROVE  TailQ!WalkFrom(nx, h) = WalkFrom(nx, h)
  <1>1. TailQ!Cardinality(Elem) = Cardinality(Elem)
    BY DEF TailQ!Cardinality, Cardinality
  <1> QED BY <1>1 DEF TailQ!WalkFrom, WalkFrom, TailQ!EndOf, EndOf

LEMMA TailQCells ==
  /\ \A h : TailQ!Walk(h) = Walk(h)
  /\ [h \in Heads |-> TailQ!Walk(h)] = Contents
  /\ [h \in Heads |-> TailQ!Walk(h)]' = Contents'
  /\ \A h : TailQ!In(h) = In(h) /\ TailQ!Final(h) = Final(h)
  /\ TailQ!Free = Free
  <1>1. \A h : TailQ!Walk(h) = Walk(h)
    BY TailQWalks DEF TailQ!Walk, Walk
  <1>2. [h \in Heads |-> TailQ!Walk(h)] = Contents
    BY <1>1 DEF Contents
  <1>3. [h \in Heads |-> TailQ!Walk(h)]' = Contents'
    BY TailQWalks DEF TailQ!Walk, Walk, Contents
  <1>4. \A h : TailQ!In(h) = In(h) /\ TailQ!Final(h) = Final(h)
    BY <1>1 DEF TailQ!In, In, TailQ!Final, Final, TailQ!EndOf, EndOf
  <1>5. TailQ!Free = Free
    BY <1>4 DEF TailQ!Free, Free
  <1> QED BY <1>1, <1>2, <1>3, <1>4, <1>5

LEMMA TailQPromises ==
  ASSUME Queued(Contents)
  PROVE  /\ \A h \in Heads : \A i, e :
              Unqueued(Contents, e) /\ Contents' = Put(Contents, h, i, e) => TailQ!L!Put(h, i, e)
         /\ \A h \in Heads : \A i, j : Contents' = Cut(Contents, h, i, j) => TailQ!L!Cut(h, i, j)
         /\ \A h, g \in Heads : Contents' = Joined(Contents, h, g) => TailQ!L!Concat(h, g)
         /\ \A h, g \in Heads : Contents' = Swapped(Contents, h, g) => TailQ!L!Swap(h, g)
         /\ \A h \in Heads : \A i \in 1 .. Len(Contents[h]) :
              /\ TailQ!L!Pos(h, Contents[h][i]) = i
              /\ Contents[h][i] \in TailQ!L!In(h)
  <1>1. \A h \in Heads : DOMAIN Contents[h] = 1 .. Len(Contents[h])
    BY DEF Queued
  <1>2. ASSUME NEW h \in Heads, NEW i, NEW e, Unqueued(Contents, e), Contents' = Put(Contents, h, i, e)
        PROVE  TailQ!L!Put(h, i, e)
    <2>1. \A g \in Heads : e \notin TailQ!L!In(g)
      BY <1>1, <1>2, TailQCells DEF TailQ!L!In, Unqueued
    <2> QED BY <1>2, <2>1, TailQCells DEF TailQ!L!Put, Put, WithElem
  <1>3. ASSUME NEW h \in Heads, NEW i, NEW j, Contents' = Cut(Contents, h, i, j)
        PROVE  TailQ!L!Cut(h, i, j)
    BY <1>3, TailQCells DEF TailQ!L!Cut, Cut, WithoutElem
  <1>4. ASSUME NEW h \in Heads, NEW g \in Heads, Contents' = Joined(Contents, h, g)
        PROVE  TailQ!L!Concat(h, g)
    BY <1>4, TailQCells DEF TailQ!L!Concat, Joined
  <1>5. ASSUME NEW h \in Heads, NEW g \in Heads, Contents' = Swapped(Contents, h, g)
        PROVE  TailQ!L!Swap(h, g)
    BY <1>5, TailQCells DEF TailQ!L!Swap, Swapped
  <1>6. ASSUME NEW h \in Heads, NEW i \in 1 .. Len(Contents[h])
        PROVE  TailQ!L!Pos(h, Contents[h][i]) = i /\ Contents[h][i] \in TailQ!L!In(h)
    <2>1. \A j \in DOMAIN Contents[h] : Contents[h][j] = Contents[h][i] <=> j = i
      BY <1>1 DEF Queued
    <2>2. TailQ!L!Pos(h, Contents[h][i]) = CHOOSE j \in DOMAIN Contents[h] : Contents[h][j] = Contents[h][i]
      BY TailQCells DEF TailQ!L!Pos
    <2>3. (CHOOSE j \in DOMAIN Contents[h] : Contents[h][j] = Contents[h][i]) = i
      BY <1>1, <2>1
    <2>4. Contents[h][i] \in TailQ!L!In(h)
      BY <1>1, TailQCells DEF TailQ!L!In
    <2> QED BY <2>2, <2>3, <2>4
  <1> QED BY <1>2, <1>3, <1>4, <1>5, <1>6

\* Every operation does to the sequences what its name says, and keeps the pointers back and the ends.
LEMMA TailQActs ==
  ASSUME Represented, BackChained(prev, Contents), KnowsEnd(last, Contents)
  PROVE  /\ TailQ!ActsOnLists
         /\ TailQ!Next => Represented' /\ BackChained(prev', Contents') /\ KnowsEnd(last', Contents')
  <1> USE DEF Represented
  <1> DEFINE Kept == Represented' /\ BackChained(prev', Contents') /\ KnowsEnd(last', Contents')
  <1>1. /\ \A h \in Heads : /\ Len(Contents[h]) \in Nat /\ 1 \in 1 .. Len(Contents[h]) + 1
                            /\ Len(Contents[h]) + 1 \in 1 .. Len(Contents[h]) + 1
                            /\ (Len(Contents[h]) + 1) - 1 = Len(Contents[h])
                            /\ Len(Contents[h]) \in 0 .. Len(Contents[h])
        /\ \A h \in Heads : h = CellAt(Contents, h, 1 - 1)
        /\ \A h \in Heads : \A i \in 1 .. Len(Contents[h]) :
             /\ i \in 1 .. Len(Contents[h]) + 1 /\ i + 1 \in 1 .. Len(Contents[h]) + 1
             /\ i - 1 \in 0 .. Len(Contents[h]) /\ i - 1 # Len(Contents[h]) /\ (i - 1) + 1 = i
             /\ Contents[h][i] = CellAt(Contents, h, (i + 1) - 1)
    BY CellsApart DEF CellAt
  <1>2. prev \in [Elem -> Cell \cup {Null}]
    BY DEF BackChained
  \* What the insertions behind a cell have in common.
  <1>3. ASSUME NEW h \in Heads, NEW c, NEW e, TailQ!InsertBehind(h, c, e)
        PROVE  /\ next' = NextPut(e, c)
               /\ prev' = BackPut(e, c, next[c])
               /\ last' = LastPut(h, e, c)
    BY <1>3 DEF TailQ!InsertBehind, BackPut, NextPut, LastPut
  <1>4. ASSUME NEW h \in Heads, NEW e \in Elem, TailQ!InsertHead(h, e)
        PROVE  TailQ!L!InsertHead(h, e) /\ Kept
    <2>1. Unqueued(Contents, e) /\ TailQ!InsertBehind(h, h, e)
      BY <1>4, InOrFree, TailQCells DEF TailQ!InsertHead
    <2>2. 1 \in 1 .. Len(Contents[h]) + 1 /\ h = CellAt(Contents, h, 1 - 1)
      BY <1>1
    <2>3. Contents' = Put(Contents, h, 1, e) /\ Kept
      BY <1>3, <2>1, <2>2, PutStep
    <2> QED BY <2>1, <2>3, TailQPromises DEF TailQ!L!InsertHead
  <1>5. ASSUME NEW h \in Heads, NEW l \in In(h), NEW e \in Elem, TailQ!InsertAfter(h, l, e)
        PROVE  TailQ!L!InsertAfter(h, l, e) /\ Kept
    <2>1. Unqueued(Contents, e) /\ TailQ!InsertBehind(h, l, e)
      BY <1>5, InOrFree, TailQCells DEF TailQ!InsertAfter
    <2>2. PICK i \in 1 .. Len(Contents[h]) : Contents[h][i] = l
      BY InOrFree
    <2>3. i + 1 \in 1 .. Len(Contents[h]) + 1 /\ l = CellAt(Contents, h, (i + 1) - 1)
      BY <1>1, <2>2
    <2>4. Contents' = Put(Contents, h, i + 1, e) /\ Kept
      BY <1>3, <2>1, <2>3, PutStep
    <2>5. TailQ!L!Pos(h, l) = i /\ TailQ!L!Put(h, i + 1, e)
      BY <2>1, <2>2, <2>4, TailQPromises
    <2> QED BY <2>4, <2>5 DEF TailQ!L!InsertAfter
  \* The pointer back leads to the cell before the element, as if a head was given.
  <1>6. ASSUME NEW h \in Heads, NEW l \in In(h), NEW e \in Elem, TailQ!InsertBefore(l, e)
        PROVE  TailQ!L!InsertBefore(l, e) /\ Kept
    <2> DEFINE c == prev[l]
    <2>1. PICK i \in 1 .. Len(Contents[h]) : Contents[h][i] = l
      BY InOrFree
    <2>2. i \in 1 .. Len(Contents[h]) + 1 /\ c = CellAt(Contents, h, i - 1)
      BY <1>1, <2>1 DEF BackChained
    <2>3. next[c] = l
      BY <1>1, <2>1, <2>2 DEF Chained
    <2>4. Unqueued(Contents, e) /\ e \in Elem /\ l # e /\ l \in Elem
      BY <1>6, <2>1, InOrFree, TailQCells DEF TailQ!InsertBefore, Unqueued
    <2>5. /\ next' = [next EXCEPT ![e] = l, ![c] = e]
          /\ prev' = [prev EXCEPT ![e] = c, ![l] = e]
          /\ last' = last
      BY <1>6 DEF TailQ!InsertBefore
    <2> HIDE DEF c
    <2>6. prev' = BackPut(e, c, next[c])
      <3> SUFFICES ASSUME NEW x \in Elem
                   PROVE  prev'[x] = CASE x = e       -> c
                                       [] x = next[c] -> e
                                       [] OTHER       -> prev[x]
        BY <1>2, <2>5 DEF BackPut
      <3>1. CASE x = e  BY <1>2, <2>3, <2>4, <2>5, <3>1
      <3>2. CASE x = l  BY <1>2, <2>3, <2>4, <2>5, <3>2
      <3>3. CASE x # e /\ x # l  BY <1>2, <2>3, <2>5, <3>3
      <3> QED BY <3>1, <3>2, <3>3
    <2>7. next' = NextPut(e, c) /\ last' = LastPut(h, e, c)
      BY <2>3, <2>4, <2>5, CellsDiffer DEF NextPut, LastPut
    <2>8. Contents' = Put(Contents, h, i, e) /\ Kept
      BY <2>2, <2>4, <2>6, <2>7, PutStep
    <2>9. TailQ!L!Pos(h, l) = i /\ l \in TailQ!L!In(h) /\ TailQ!L!Put(h, i, e)
      BY <2>1, <2>4, <2>8, TailQPromises
    <2> QED BY <2>8, <2>9 DEF TailQ!L!InsertBefore
  <1>7. ASSUME NEW h \in Heads, NEW e \in In(h), TailQ!Remove(h, e)
        PROVE  TailQ!L!RemoveElem(h, e) /\ Kept
    <2> DEFINE c == prev[e]
    <2>1. PICK i \in 1 .. Len(Contents[h]) : Contents[h][i] = e
      BY InOrFree
    <2>2. c = CellAt(Contents, h, i - 1)
      BY <2>1 DEF BackChained
    <2>3. /\ next' = [next EXCEPT ![c] = next[e], ![e] = Null]
          /\ prev' = BackCut(e, c, next[e])
          /\ last' = IF next[e] = Null THEN [last EXCEPT ![h] = c] ELSE last
      BY <1>7 DEF TailQ!Remove, BackCut
    <2> HIDE DEF c
    <2>4. Contents' = Cut(Contents, h, i, i) /\ Kept
      BY <2>1, <2>2, <2>3, CutStep
    <2>5. TailQ!L!Pos(h, e) = i /\ TailQ!L!Cut(h, i, i)
      BY <2>1, <2>4, TailQPromises
    <2> QED BY <2>4, <2>5 DEF TailQ!L!RemoveElem
  <1>8. ASSUME NEW h \in Heads, NEW g \in Heads \ {h}, TailQ!Concat(h, g)
        PROVE  TailQ!L!Concat(h, g) /\ Kept
    <2> DEFINE c == last[h]
    <2>1. c = CellAt(Contents, h, Len(Contents[h]))
      BY DEF KnowsEnd
    <2>2. /\ IF next[g] = Null THEN next' = next
                               ELSE next' = [next EXCEPT ![c] = next[g], ![g] = Null]
          /\ prev' = IF next[g] = Null THEN prev ELSE [prev EXCEPT ![next[g]] = c]
          /\ last' = IF next[g] = Null THEN last ELSE [last EXCEPT ![h] = last[g], ![g] = g]
      BY <1>8 DEF TailQ!Concat
    <2> HIDE DEF c
    <2>3. Contents' = Joined(Contents, h, g) /\ Kept
      BY <2>1, <2>2, JoinStep
    <2> QED BY <2>3, TailQPromises
  <1>9. ASSUME NEW h \in Heads, NEW g \in Heads \ {h}, TailQ!Swap(h, g)
        PROVE  TailQ!L!Swap(h, g) /\ Kept
    <2>1. Contents' = Swapped(Contents, h, g) /\ Kept
      BY <1>9, SwapStep DEF TailQ!Swap
    <2> QED BY <2>1, TailQPromises
  <1>10. ASSUME NEW h \in Heads, NEW e \in Elem, TailQ!InsertTail(h, e)
         PROVE  TailQ!L!InsertTail(h, e) /\ Kept
    <2> DEFINE c == last[h]
    <2>1. c = CellAt(Contents, h, Len(Contents[h])) /\ next[c] = Null
      BY <1>1 DEF KnowsEnd, Chained
    <2>2. Unqueued(Contents, e) /\ next' = NextPut(e, c) /\ last' = LastPut(h, e, c)
      BY <1>10, <2>1, InOrFree, TailQCells DEF TailQ!InsertTail, NextPut, LastPut
    <2>3. prev' = [prev EXCEPT ![e] = c]
      BY <1>10 DEF TailQ!InsertTail
    <2> HIDE DEF c
    <2>4. prev' = BackPut(e, c, next[c])
      <3> SUFFICES ASSUME NEW x \in Elem
                   PROVE  prev'[x] = CASE x = e       -> c
                                       [] x = next[c] -> e
                                       [] OTHER       -> prev[x]
        BY <1>2, <2>3 DEF BackPut
      <3>1. x # next[c]  BY <2>1, CellsDiffer
      <3>2. CASE x = e  BY <1>2, <2>3, <3>1, <3>2
      <3>3. CASE x # e  BY <1>2, <2>3, <3>1, <3>3
      <3> QED BY <3>2, <3>3
    <2>5. /\ Len(Contents[h]) + 1 \in 1 .. Len(Contents[h]) + 1
          /\ c = CellAt(Contents, h, (Len(Contents[h]) + 1) - 1)
      BY <1>1, <2>1
    <2>6. Contents' = Put(Contents, h, Len(Contents[h]) + 1, e) /\ Kept
      BY <2>2, <2>4, <2>5, PutStep
    <2>7. TailQ!L!Put(h, Len(Contents[h]) + 1, e)
      BY <2>2, <2>6, TailQPromises
    <2> QED BY <2>6, <2>7, TailQCells DEF TailQ!L!InsertTail
  <1>11. ASSUME NEW l \in Elem, NEW e \in Elem, TailQ!InsertBefore(l, e)
         PROVE  TailQ!L!InsertBefore(l, e) /\ Kept
    <2>1. PICK h \in Heads : l \in In(h)
      BY <1>11, InOrFree, TailQCells DEF TailQ!InsertBefore
    <2> QED BY <1>6, <1>11, <2>1
  <1>12. ASSUME NEW h \in Heads, NEW l \in Elem, NEW e \in Elem, TailQ!InsertAfter(h, l, e)
         PROVE  TailQ!L!InsertAfter(h, l, e) /\ Kept
    BY <1>5, <1>12, TailQCells DEF TailQ!InsertAfter
  <1>13. ASSUME NEW h \in Heads, NEW e \in Elem, TailQ!Remove(h, e)
         PROVE  TailQ!L!RemoveElem(h, e) /\ Kept
    BY <1>7, <1>13, TailQCells DEF TailQ!Remove
  <1>14. TailQ!ActsOnLists
    BY <1>4, <1>8, <1>9, <1>10, <1>11, <1>12, <1>13 DEF TailQ!ActsOnLists
  <1>15. ASSUME TailQ!Next PROVE Kept
    BY <1>4, <1>8, <1>9, <1>10, <1>11, <1>12, <1>13, <1>15 DEF TailQ!Next
  <1> QED BY <1>14, <1>15

-----------------------------------------------------------------------------
(***************************************************************************)
(* What can be read from the fields.                                       *)
(***************************************************************************)
\* The head and the elements, as the properties list the cells of a queue.
LEMMA CellsOf ==
  ASSUME NEW L, Queued(L), NEW h \in Heads
  PROVE  /\ Len(<<h>> \o L[h]) = Len(L[h]) + 1
         /\ \A i \in 1 .. Len(L[h]) + 1 : (<<h>> \o L[h])[i] = CellAt(L, h, i - 1)
  <1> DEFINE s == L[h]
  <1>1. s \in Seq(Cell) /\ <<h>> \in Seq(Cell) /\ Len(<<h>>) = 1 /\ Len(s) \in Nat
    <2>1. s \in Seq(Elem)  BY DEF Queued
    <2> QED BY <2>1 DEF Cell
  <1> HIDE DEF s
  <1>2. /\ Len(<<h>> \o s) = 1 + Len(s)
        /\ \A k \in 1 .. 1 + Len(s) : (<<h>> \o s)[k] = IF k <= 1 THEN <<h>>[k] ELSE s[k - 1]
    BY <1>1, ConcatIs
  <1>3. Len(<<h>> \o s) = Len(s) + 1
    BY <1>1, <1>2
  <1>4. ASSUME NEW i \in 1 .. Len(s) + 1
        PROVE  (<<h>> \o s)[i] = IF i - 1 = 0 THEN h ELSE s[i - 1]
    BY <1>1, <1>2
  <1> QED BY <1>3, <1>4 DEF CellAt, s

\* Places in a queue.
LEMMA Places ==
  ASSUME NEW L, Queued(L), NEW h \in Heads
  PROVE  /\ Len(L[h]) \in Nat /\ Len(L[h]) \in 0 .. Len(L[h]) /\ 0 \in 0 .. Len(L[h])
         /\ L[h] = <<>> <=> Len(L[h]) = 0
         /\ CellAt(L, h, 0) = h
         /\ \A i \in 1 .. Len(L[h]) :
              /\ i - 1 \in 0 .. Len(L[h]) /\ i - 1 # Len(L[h]) /\ (i - 1) + 1 = i
              /\ CellAt(L, h, i) = L[h][i] /\ L[h][i] \in Elem
              /\ i = 1 => CellAt(L, h, i - 1) = h
              /\ i # 1 => i - 1 \in 1 .. Len(L[h])
  <1>1. L[h] \in Seq(Elem)  BY DEF Queued
  <1> QED BY <1>1 DEF CellAt

\* The end of a singly linked queue, and its last element.
LEMMA SingleRight ==
  ASSUME Represented, KnowsEnd(last, Contents)
  PROVE  Single!EndsAtLast /\ Single!AnswersFromLists
  <1>1. Queued(Contents) /\ Chained(next, Contents)
    BY DEF Represented
  <1>2. ASSUME NEW h \in Heads
        PROVE  /\ last[h] = Single!Final(h) /\ next[last[h]] = Null
               /\ Single!LastElem(h) = Single!L!LastOf(h)
    <2> DEFINE n == Len(Contents[h])
    <2>1. last[h] = CellAt(Contents, h, n)
      BY DEF KnowsEnd
    <2>2. last[h] = Single!Final(h)
      BY <1>1, <2>1, InOrFree, SingleCells
    <2>3. next[last[h]] = Null
      BY <1>1, <2>1, Places DEF Chained
    <2>4. Single!L!LastOf(h) = IF Contents[h] = <<>> THEN Null ELSE Contents[h][n]
      BY SingleCells DEF Single!L!LastOf
    <2>5. next[h] = IF 0 = n THEN Null ELSE Contents[h][0 + 1]
      BY <1>1, Places DEF Chained
    <2>6. CASE n = 0
      BY <1>1, <2>2, <2>3, <2>4, <2>5, <2>6, Places DEF Single!LastElem
    <2>7. CASE n # 0
      <3>1. n \in 1 .. n /\ 0 + 1 \in 1 .. n
        BY <1>1, <2>7, Places
      <3>2. next[h] # Null /\ last[h] = Contents[h][n] /\ Contents[h] # <<>>
        BY <1>1, <2>1, <2>5, <2>7, <3>1, Places, CellsDiffer
      <3> QED BY <2>2, <2>3, <2>4, <3>2 DEF Single!LastElem
    <2> QED BY <2>6, <2>7
  <1> QED BY <1>2 DEF Single!EndsAtLast, Single!AnswersFromLists

\* The pointers back of a doubly linked list, and the element before.
LEMMA DoubleRight ==
  ASSUME Represented, BackChained(prev, Contents)
  PROVE  Double!Linked /\ Double!AnswersFromLists
  <1>1. Queued(Contents) /\ Chained(next, Contents)
    BY DEF Represented
  <1>2. ASSUME NEW h \in Heads, NEW i \in 1 .. Len(Contents[h])
        PROVE  /\ prev[(<<h>> \o Contents[h])[i + 1]] = (<<h>> \o Contents[h])[i]
               /\ Double!PrevElem(h, Contents[h][i]) = Double!L!PrevOf(h, Contents[h][i])
    <2>1. prev[Contents[h][i]] = CellAt(Contents, h, i - 1)
      BY DEF BackChained
    <2>2. i \in 1 .. Len(Contents[h]) + 1 /\ i + 1 \in 1 .. Len(Contents[h]) + 1 /\ (i + 1) - 1 = i
      BY <1>1, Places
    <2>3. /\ (<<h>> \o Contents[h])[i] = CellAt(Contents, h, i - 1)
          /\ (<<h>> \o Contents[h])[i + 1] = CellAt(Contents, h, (i + 1) - 1)
      BY <1>1, <2>2, CellsOf
    <2>4. CellAt(Contents, h, i) = Contents[h][i]
      BY <1>1, Places
    <2>5. Double!L!PrevOf(h, Contents[h][i]) = IF i = 1 THEN Null ELSE Contents[h][i - 1]
      BY <1>1, DoubleCells, DoublePromises DEF Double!L!PrevOf
    <2>6. CASE i = 1
      BY <1>1, <2>1, <2>2, <2>3, <2>4, <2>5, <2>6, Places DEF Double!PrevElem
    <2>7. CASE i # 1
      <3>1. i - 1 \in 1 .. Len(Contents[h])
        BY <1>1, <2>7, Places
      <3>2. prev[Contents[h][i]] = Contents[h][i - 1] /\ Contents[h][i - 1] # h
        BY <1>1, <2>1, <3>1, Places, CellsDiffer
      <3> QED BY <2>1, <2>2, <2>3, <2>4, <2>5, <2>7, <3>2 DEF Double!PrevElem
    <2> QED BY <2>6, <2>7
  <1>3. Double!Linked
    BY ZenonT(30), <1>1, <1>2, DoubleCells, InOrFree DEF Double!Linked
  <1>4. Double!AnswersFromLists
    <2> SUFFICES ASSUME NEW h \in Heads, NEW e \in In(h)
                 PROVE  Double!PrevElem(h, e) = Double!L!PrevOf(h, e)
      BY DoubleCells DEF Double!AnswersFromLists
    <2>1. PICK i \in 1 .. Len(Contents[h]) : Contents[h][i] = e
      BY <1>1, InOrFree
    <2> QED BY <1>2, <2>1
  <1> QED BY <1>3, <1>4

\* The pointers of a tail queue, the last element and the element before, for which the field
\* behind a cell is read: that is the cell before it, or for a head the last one.
LEMMA TailQRight ==
  ASSUME Represented, BackChained(prev, Contents), KnowsEnd(last, Contents)
  PROVE  TailQ!Linked /\ TailQ!AnswersFromLists
  <1>1. Queued(Contents) /\ Chained(next, Contents)
    BY DEF Represented
  <1>2. ASSUME NEW h \in Heads
        PROVE  last[h] = CellAt(Contents, h, Len(Contents[h])) /\ next[last[h]] = Null
    BY <1>1, Places DEF KnowsEnd, Chained
  <1>3. ASSUME NEW h \in Heads, NEW i \in 1 .. Len(Contents[h])
        PROVE  prev[Contents[h][i]] = CellAt(Contents, h, i - 1) /\ next[CellAt(Contents, h, i - 1)] = Contents[h][i]
    BY <1>1, Places DEF BackChained, Chained
  \* What is read behind a cell.
  <1>4. ASSUME NEW h \in Heads, NEW i \in 0 .. Len(Contents[h])
        PROVE  next[TailQ!Behind(CellAt(Contents, h, i))] = IF i = 0 THEN Null ELSE Contents[h][i]
    <2>1. CASE i = 0
      BY <1>1, <1>2, <2>1, Places DEF TailQ!Behind
    <2>2. CASE i # 0
      <3>1. i \in 1 .. Len(Contents[h])
        BY <1>1, <2>2, Places
      <3>2. CellAt(Contents, h, i) = Contents[h][i] /\ Contents[h][i] \notin Heads
        BY <1>1, <3>1, Places, CellsDiffer
      <3> QED BY <1>3, <2>2, <3>1, <3>2 DEF TailQ!Behind
    <2> QED BY <2>1, <2>2
  <1>5. ASSUME NEW h \in Heads, NEW i \in 1 .. Len(Contents[h])
        PROVE  /\ prev[(<<h>> \o Contents[h])[i + 1]] = (<<h>> \o Contents[h])[i]
               /\ TailQ!PrevElem(Contents[h][i]) = TailQ!L!PrevOf(h, Contents[h][i])
    <2>1. i \in 1 .. Len(Contents[h]) + 1 /\ i + 1 \in 1 .. Len(Contents[h]) + 1 /\ (i + 1) - 1 = i
      BY <1>1, Places
    <2>2. /\ (<<h>> \o Contents[h])[i] = CellAt(Contents, h, i - 1)
          /\ (<<h>> \o Contents[h])[i + 1] = CellAt(Contents, h, (i + 1) - 1)
      BY <1>1, <2>1, CellsOf
    <2>3. CellAt(Contents, h, i) = Contents[h][i] /\ i - 1 \in 0 .. Len(Contents[h]) /\ (i = 1 <=> i - 1 = 0)
      BY <1>1, Places
    <2>4. TailQ!L!PrevOf(h, Contents[h][i]) = IF i = 1 THEN Null ELSE Contents[h][i - 1]
      BY <1>1, TailQCells, TailQPromises DEF TailQ!L!PrevOf
    <2> QED BY <1>3, <1>4, <2>1, <2>2, <2>3, <2>4 DEF TailQ!PrevElem
  <1>6. ASSUME NEW h \in Heads PROVE TailQ!LastElem(h) = TailQ!L!LastOf(h)
    <2>1. TailQ!L!LastOf(h) = IF Contents[h] = <<>> THEN Null ELSE Contents[h][Len(Contents[h])]
      BY TailQCells DEF TailQ!L!LastOf
    <2> QED BY <1>1, <1>2, <1>4, <2>1, Places DEF TailQ!LastElem
  <1>7. TailQ!Linked
    <2>1. ASSUME NEW h \in Heads
          PROVE  last[h] = (<<h>> \o Contents[h])[Len(<<h>> \o Contents[h])]
      <3>1. /\ Len(Contents[h]) + 1 \in 1 .. Len(Contents[h]) + 1
            /\ (Len(Contents[h]) + 1) - 1 = Len(Contents[h])
        BY <1>1, Places
      <3> QED BY <1>1, <1>2, <3>1, CellsOf
    <2>2. \A h \in Heads : TailQ!Walk(h) = Contents[h]
      BY <1>1, TailQCells, InOrFree
    <2>3. ASSUME NEW h \in Heads
          PROVE  LET cells == <<h>> \o Contents[h] IN
                   /\ \A i \in 1 .. Len(Contents[h]) : prev[cells[i + 1]] = cells[i]
                   /\ last[h] = cells[Len(cells)] /\ next[last[h]] = Null
      BY <1>2, <1>5, <2>1
    <2>4. ASSUME NEW h \in Heads
          PROVE  LET cells == <<h>> \o TailQ!Walk(h) IN
                   /\ \A i \in 1 .. Len(TailQ!Walk(h)) : prev[cells[i + 1]] = cells[i]
                   /\ last[h] = cells[Len(cells)] /\ next[last[h]] = Null
      <3>1. TailQ!Walk(h) = Contents[h]
        BY <2>2
      <3> QED BY <2>3, <3>1
    <2> QED BY <2>4, Zenon DEF TailQ!Linked
  <1>8. TailQ!AnswersFromLists
    <2>1. ASSUME NEW h \in Heads, NEW e \in In(h) PROVE TailQ!PrevElem(e) = TailQ!L!PrevOf(h, e)
      <3>1. PICK i \in 1 .. Len(Contents[h]) : Contents[h][i] = e
        BY <1>1, <2>1, InOrFree
      <3> QED BY <1>5, <3>1
    <2> QED BY <1>6, <2>1, TailQCells DEF TailQ!AnswersFromLists
  <1> QED BY <1>7, <1>8

-----------------------------------------------------------------------------
(***************************************************************************)
(* The queues.                                                             *)
(***************************************************************************)
\* QueuesInit: SLIST_INIT, LIST_INIT, STAILQ_INIT and TAILQ_INIT make empty queues.
LEMMA StartsEmpty == QueuesInit => QueuesInv
  <1> SUFFICES ASSUME QueuesInit PROVE QueuesInv
    OBVIOUS
  <1> DEFINE L == [h \in Heads |-> <<>>]
  <1>1. /\ kind \in QueueKind
        /\ next = [c \in Cell |-> Null] /\ last = [h \in Heads |-> h] /\ prev = [e \in Elem |-> Null]
    <2>1. TailQ!Cell = Cell  BY DEF TailQ!Cell, Cell
    <2> QED BY <2>1 DEF QueuesInit, TailQ!Init
  <1>2. \A h \in Heads : Len(L[h]) = 0 /\ L[h] = <<>>
    OBVIOUS
  <1>3. Queued(L)
    BY <1>2 DEF Queued
  <1>4. \A h \in Heads : \A i \in 0 .. Len(L[h]) : i = 0 /\ CellAt(L, h, i) = h
    BY <1>2 DEF CellAt
  <1>5. Chained(next, L)
    BY <1>1, <1>2, <1>4 DEF Chained, Cell
  <1>6. BackChained(prev, L)
    BY <1>1, <1>2 DEF BackChained
  <1>7. KnowsEnd(last, L)
    BY <1>1, <1>2 DEF KnowsEnd, Cell, CellAt
  <1>8. Contents = L
    <2>1. \A h \in Heads : WalkFrom(next, h) = L[h]
      BY <1>3, <1>5, WalkFinds
    <2> QED BY <2>1 DEF Contents, Walk
  <1> QED BY <1>1, <1>3, <1>5, <1>6, <1>7, <1>8 DEF QueuesInv, Represented

\* The operations of each kind of queue, and steps of the program that use no queue.
LEMMA StaysRight == QueuesInv /\ [QueuesNext]_queueVars => QueuesInv'
  <1> SUFFICES ASSUME QueuesInv, [QueuesNext]_queueVars PROVE QueuesInv'
    OBVIOUS
  <1>1. CASE UNCHANGED queueVars
    BY <1>1 DEF queueVars, QueuesInv, Represented, Contents, Walk, Chained, BackChained, KnowsEnd
  <1>2. ASSUME QueuesNext PROVE kind' = kind /\ QueueStep
    BY <1>2 DEF QueuesNext
  <1>3. ASSUME QueuesNext, kind = "forward" PROVE QueuesInv'
    BY <1>2, <1>3, ForwardActs DEF QueueStep, QueuesInv
  <1>4. ASSUME QueuesNext, kind = "single" PROVE QueuesInv'
    BY <1>2, <1>4, SingleActs DEF QueueStep, QueuesInv
  <1>5. ASSUME QueuesNext, kind = "double" PROVE QueuesInv'
    BY <1>2, <1>5, DoubleActs DEF QueueStep, QueuesInv
  <1>6. ASSUME QueuesNext, kind = "tail" PROVE QueuesInv'
    BY <1>2, <1>6, TailQActs DEF QueueStep, QueuesInv
  <1> QED BY <1>1, <1>3, <1>4, <1>5, <1>6 DEF QueuesInv, QueueKind

\* Queues of all kinds represent sequences at all times: no walk runs in circles or into an
\* element of another queue (SLIST 216-307, STAILQ 340-444, LIST 521-619, TAILQ 711-861).
THEOREM QueuesSafe == QueuesSpec => []QueuesInv
  <1> QED BY StartsEmpty, StaysRight, PTL DEF QueuesSpec

\* Whatever a cell of a LIST or TAILQ points to points back, as the checks of the kernel
\* verify it at single elements (488-518, 665-703), and stqh_last is the cell at the end,
\* into which STAILQ_INSERT_TAIL writes (389-393).
THEOREM LinkedAlways == QueuesSpec => []Linked
  <1>1. QueuesInv => Linked
    BY SingleRight, DoubleRight, TailQRight DEF QueuesInv, Linked
  <1> QED BY <1>1, QueuesSafe, PTL

\* STAILQ_LAST, LIST_PREV, TAILQ_LAST and TAILQ_PREV find the elements that are there in the
\* sequences.
THEOREM AnswersRight == QueuesSpec => []AnswersOfQueues
  <1>1. QueuesInv => AnswersOfQueues
    BY SingleRight, DoubleRight, TailQRight DEF QueuesInv, AnswersOfQueues
  <1> QED BY <1>1, QueuesSafe, PTL

\* Every operation of every kind does to the sequences what its name says, and nothing to
\* the other queues.
THEOREM ActOnLists == QueuesSpec => QueuesActOnLists
  <1> DEFINE Acts == CASE kind = "forward" -> Forward!ActsOnLists
                       [] kind = "single"  -> Single!ActsOnLists
                       [] kind = "double"  -> Double!ActsOnLists
                       [] kind = "tail"    -> TailQ!ActsOnLists
                       [] OTHER            -> TRUE
  <1>1. QueuesInv => Acts
    BY ForwardActs, SingleActs, DoubleActs, TailQActs DEF QueuesInv
  <1>2. QueuesActOnLists <=> [][Acts]_queueVars
    BY PTL DEF QueuesActOnLists
  <1> QED BY <1>1, <1>2, QueuesSafe, PTL

-----------------------------------------------------------------------------
(***************************************************************************)
(* The arithmetic of Bintime is exact and its conversions round down, for  *)
(* every width of the fraction and every unit that meets the assumptions,  *)
(* hence for 64 bits, nanoseconds and microseconds.                        *)
(***************************************************************************)

(***************************************************************************)
(* Division.                                                               *)
(***************************************************************************)
LEMMA DivMod ==
  ASSUME NEW a \in Int, NEW b \in Nat, b # 0
  PROVE  /\ a \div b \in Int /\ a % b \in 0 .. b - 1
         /\ a = b * (a \div b) + (a % b)
  OBVIOUS

LEMMA DivUnique ==
  ASSUME NEW a \in Int, NEW b \in Nat, b # 0, NEW q \in Int, NEW r \in 0 .. b - 1,
         a = b * q + r
  PROVE  a \div b = q /\ a % b = r
  OBVIOUS

LEMMA Wrap ==
  ASSUME NEW w \in Nat, w # 0, NEW r \in 0 .. w - 1
  PROVE  r % w = r /\ (r + w) % w = r /\ (r - w) % w = r
  <1>1. r = w * 0 + r /\ r + w = w * 1 + r /\ r - w = w * (-1) + r
    OBVIOUS
  <1> QED BY <1>1, DivUnique

LEMMA TimesMono ==
  ASSUME NEW a \in Int, NEW b \in Int, NEW c \in Nat, a <= b
  PROVE  a * c <= b * c
  OBVIOUS

LEMMA TimesCancel ==
  ASSUME NEW a \in Int, NEW b \in Int, NEW c \in Nat, a * c < b * c
  PROVE  a < b
  OBVIOUS

LEMMA WordNat == Half \in Nat /\ Half # 0 /\ Word \in Nat /\ Word # 0
  BY BintimeAssumption DEF Word

-----------------------------------------------------------------------------
(***************************************************************************)
(* Each function returns a time, of the right value.                       *)
(***************************************************************************)
LEMMA AddXExact ==
  ASSUME NEW b \in Bintime, NEW x \in 0 .. Word - 1
  PROVE  AddX(b, x) \in Bintime /\ Value(AddX(b, x)) = Value(b) + x
  <1> DEFINE s == b.sec
             f == b.frac
             m == (f + x) % Word
  <1>1. s \in Int /\ f \in 0 .. Word - 1 /\ Word \in Nat /\ Word # 0
    BY WordNat DEF Bintime
  <1>2. CASE f + x < Word
    <2>1. m = f + x
      <3>1. f + x \in 0 .. Word - 1
        BY <1>1, <1>2
      <3> QED BY <3>1, <1>1, Wrap
    <2>2. ~(f > m)  BY <2>1, <1>1
    <2>3. AddX(b, x) = Time(s, f + x)  BY <2>1, <2>2, <1>1 DEF AddX
    <2> QED BY <2>3, <1>1, <1>2 DEF Time, Value, Bintime
  <1>3. CASE f + x >= Word
    <2>1. m = f + x - Word
      <3>1. f + x - Word \in 0 .. Word - 1 /\ (f + x - Word) + Word = f + x
        BY <1>1, <1>3
      <3> QED BY <3>1, <1>1, Wrap
    <2>2. f > m  BY <2>1, <1>1
    <2>3. AddX(b, x) = Time(s + 1, f + x - Word)  BY <2>1, <2>2, <1>1 DEF AddX
    <2>4. (s + 1) * Word = s * Word + Word  BY <1>1
    <2> QED BY <2>3, <2>4, <1>1, <1>3 DEF Time, Value, Bintime
  <1> QED BY <1>1, <1>2, <1>3

\* Adding a time is adding its fraction and then its seconds.
LEMMA AddExact ==
  ASSUME NEW b \in Bintime, NEW b2 \in Bintime
  PROVE  Add(b, b2) \in Bintime /\ Value(Add(b, b2)) = Value(b) + Value(b2)
  <1> DEFINE a == AddX(b, b2.frac)
  <1>1. a \in Bintime /\ Value(a) = Value(b) + b2.frac
    BY AddXExact DEF Bintime
  <1>2. Add(b, b2) = Time(a.sec + b2.sec, a.frac)
    BY DEF Add, AddX, Time
  <1>3. /\ a.sec \in Int /\ b2.sec \in Int /\ a.frac \in 0 .. Word - 1 /\ b2.frac \in Int
        /\ b.sec \in Int /\ b.frac \in Int /\ Word \in Nat
    BY <1>1, WordNat DEF Bintime
  <1>4. (a.sec + b2.sec) * Word = a.sec * Word + b2.sec * Word
    BY <1>3
  <1>5. Add(b, b2) \in Bintime
    BY <1>2, <1>3 DEF Time, Bintime
  <1>6. Value(Add(b, b2)) = (a.sec + b2.sec) * Word + a.frac
    BY <1>2 DEF Time, Value
  <1>7. Value(a) = a.sec * Word + a.frac /\ Value(b2) = b2.sec * Word + b2.frac
    BY DEF Value
  <1>8. /\ Value(b) \in Int /\ Value(b2) \in Int
        /\ a.sec * Word \in Int /\ b2.sec * Word \in Int
    BY <1>3 DEF Value
  <1> HIDE DEF a
  <1> QED BY <1>1, <1>3, <1>4, <1>5, <1>6, <1>7, <1>8

LEMMA SubExact ==
  ASSUME NEW b \in Bintime, NEW b2 \in Bintime
  PROVE  Sub(b, b2) \in Bintime /\ Value(Sub(b, b2)) = Value(b) - Value(b2)
  <1> DEFINE s == b.sec
             f == b.frac
             x == b2.frac
             m == (f - x) % Word
  <1>1. /\ s \in Int /\ f \in 0 .. Word - 1 /\ x \in 0 .. Word - 1 /\ b2.sec \in Int
        /\ Word \in Nat /\ Word # 0
    BY WordNat DEF Bintime
  <1>2. CASE f >= x
    <2>1. m = f - x
      <3>1. f - x \in 0 .. Word - 1
        BY <1>1, <1>2
      <3> QED BY <3>1, <1>1, Wrap
    <2>2. ~(f < m)  BY <2>1, <1>1
    <2>3. Sub(b, b2) = Time(s - b2.sec, f - x)  BY <2>1, <2>2, <1>1 DEF Sub
    <2>4. (s - b2.sec) * Word = s * Word - b2.sec * Word  BY <1>1
    <2> QED BY <2>3, <2>4, <1>1, <1>2 DEF Time, Value, Bintime
  <1>3. CASE f < x
    <2>1. m = f - x + Word
      <3>1. f - x + Word \in 0 .. Word - 1 /\ (f - x + Word) - Word = f - x
        BY <1>1, <1>3
      <3> QED BY <3>1, <1>1, Wrap
    <2>2. f < m  BY <2>1, <1>1
    <2>3. Sub(b, b2) = Time(s - 1 - b2.sec, f - x + Word)  BY <2>1, <2>2, <1>1 DEF Sub
    <2>4. (s - 1 - b2.sec) * Word = s * Word - Word - b2.sec * Word  BY <1>1
    <2> QED BY <2>3, <2>4, <1>1, <1>3 DEF Time, Value, Bintime
  <1> QED BY <1>1, <1>2, <1>3

\* Neither product exceeds 64 bits, and together they are the product with the fraction.
LEMMA MulExact ==
  ASSUME NEW b \in Bintime, NEW x \in 0 .. Half - 1
  PROVE  Mul(b, x) \in Bintime /\ Value(Mul(b, x)) = Value(b) * x
  <1> DEFINE hi == b.frac \div Half
             lo == b.frac % Half
             c  == (lo * x) \div Half
             d  == (lo * x) % Half
             p2 == hi * x + c
             q  == p2 \div Half
             r  == p2 % Half
  <1>1. /\ b.sec \in Int /\ b.frac \in 0 .. Word - 1 /\ b.frac \in Int
        /\ x \in Nat /\ x <= Half - 1
        /\ Half \in Nat /\ Half # 0 /\ Word \in Nat /\ Word = Half * Half /\ Word # 0
    BY WordNat DEF Bintime, Word
  <1>2. hi \in Int /\ lo \in 0 .. Half - 1 /\ b.frac = Half * hi + lo
    BY <1>1, DivMod, Zenon
  <1>3. hi \in 0 .. Half - 1
    BY SMTT(30), <1>1, <1>2
  <1>4. lo * x \in 0 .. Word - 1 /\ lo * x \in Int
    <2>1. lo * x <= (Half - 1) * x  BY <1>1, <1>2, TimesMono
    <2>2. x * (Half - 1) <= (Half - 1) * (Half - 1)  BY <1>1, TimesMono
    <2>3. (Half - 1) * (Half - 1) = Word - 2 * Half + 1  BY <1>1
    <2> QED BY <2>1, <2>2, <2>3, <1>1, <1>2
  <1>5. c \in Int /\ d \in 0 .. Half - 1 /\ lo * x = Half * c + d
    BY <1>1, <1>4, DivMod, Zenon
  <1>6. c \in 0 .. Half - 1
    <2> HIDE DEF hi, lo, c, d
    <2>1. c * Half = lo * x - d
      BY <1>1, <1>4, <1>5
    <2>2. c * Half < Half * Half
      BY <2>1, <1>1, <1>4, <1>5
    <2>3. (-1) * Half < c * Half
      BY <2>1, <1>1, <1>4, <1>5
    <2>4. c < Half
      BY <2>2, <1>1, <1>5, TimesCancel
    <2>5. -1 < c
      BY <2>3, <1>1, <1>5, TimesCancel
    <2> QED BY <2>4, <2>5, <1>1, <1>5
  <1>7. p2 \in 0 .. Word - 1 /\ p2 \in Int
    <2>1. hi * x <= (Half - 1) * x  BY <1>1, <1>3, TimesMono
    <2>2. x * (Half - 1) <= (Half - 1) * (Half - 1)  BY <1>1, TimesMono
    <2>3. (Half - 1) * (Half - 1) = Word - 2 * Half + 1  BY <1>1
    <2> QED BY <2>1, <2>2, <2>3, <1>1, <1>3, <1>6
  <1>8. q \in Int /\ r \in 0 .. Half - 1 /\ p2 = Half * q + r
    BY <1>1, <1>7, DivMod, Zenon
  <1>9. Mul(b, x) = Time(b.sec * x + q, r * Half + d)
    <2>1. ((b.frac % Half) * x) % Word = lo * x  BY <1>1, <1>4, Wrap
    <2>2. (hi * x + c) % Word = p2  BY <1>1, <1>7, Wrap
    <2> QED BY <2>1, <2>2 DEF Mul
  <1> HIDE DEF hi, lo, c, d, q, r
  <1>10. r * Half + d \in 0 .. Word - 1
    <2>1. r * Half <= (Half - 1) * Half  BY <1>1, <1>8, TimesMono
    <2>2. (Half - 1) * Half = Word - Half  BY <1>1
    <2>3. r * Half >= 0  BY <1>1, <1>8
    <2> QED BY <2>1, <2>2, <2>3, <1>1, <1>5, <1>8
  <1>11. b.frac * x = q * Word + (r * Half + d)
    <2>1. b.frac * x = Half * (hi * x) + lo * x  BY <1>1, <1>2
    <2>2. hi * x \in Int  BY <1>1, <1>2
    <2>3. Half * (hi * x) + lo * x = Half * (hi * x + c) + d  BY <1>1, <1>5, <2>2
    <2>4. Half * (Half * q + r) = q * Word + r * Half  BY <1>1, <1>8
    <2> QED BY <2>1, <2>3, <2>4, <1>8, <1>1, <1>5
  <1>12. (b.sec * x + q) * Word = (b.sec * Word) * x + q * Word
    BY <1>1, <1>8
  <1>13. (b.sec * Word + b.frac) * x = (b.sec * Word) * x + b.frac * x
    BY <1>1
  <1>14. Mul(b, x) \in Bintime
    BY <1>9, <1>10, <1>1, <1>8 DEF Time, Bintime
  <1>15. Value(Mul(b, x)) = (b.sec * x + q) * Word + (r * Half + d)
    BY <1>9 DEF Time, Value
  <1>16. (b.sec * Word) * x \in Int /\ q * Word \in Int /\ r * Half + d \in Int
    BY <1>1, <1>8, <1>10
  <1>17. (b.sec * x + q) * Word + (r * Half + d) = (b.sec * Word + b.frac) * x
    BY <1>11, <1>12, <1>13, <1>16
  <1> QED BY <1>14, <1>15, <1>17 DEF Value

LEMMA ShiftLeftExact ==
  ASSUME NEW b \in Bintime, NEW f \in Factors
  PROVE  ShiftLeft(b, f) \in Bintime /\ Value(ShiftLeft(b, f)) = Value(b) * f
  <1> DEFINE g == Word \div f
             q == b.frac \div g
             r == b.frac % g
  <1>0. f \in Nat /\ f # 0 /\ f * g = Word
    BY BintimeAssumption
  <1>1. /\ b.sec \in Int /\ b.frac \in 0 .. Word - 1 /\ b.frac \in Int
        /\ Word \in Nat /\ Word # 0 /\ Word \in Int /\ g \in Int
        /\ f \in Nat /\ f # 0 /\ f * g = Word
    <2>1. b.sec \in Int /\ b.frac \in 0 .. Word - 1 /\ Word \in Nat /\ Word # 0
      BY WordNat DEF Bintime
    <2>2. b.frac \in Int /\ Word \in Int
      BY <2>1
    <2>3. g \in Int
      BY <2>2, <1>0, DivMod, Zenon
    <2> QED BY <2>1, <2>2, <2>3, <1>0
  <1>2. g \in Nat /\ g # 0
    BY <1>1
  <1>3. q \in Int /\ r \in 0 .. g - 1 /\ b.frac = g * q + r
    BY <1>1, <1>2, DivMod, Zenon
  <1> HIDE DEF g, q, r
  <1>4. r * f \in 0 .. Word - 1
    <2>1. r * f <= (g - 1) * f  BY <1>1, <1>2, <1>3, TimesMono
    <2>2. (g - 1) * f = Word - f  BY <1>1, <1>2
    <2>3. r * f >= 0  BY <1>1, <1>3
    <2>4. r * f \in Int  BY <1>1, <1>3
    <2> QED BY <2>1, <2>2, <2>3, <2>4, <1>1
  <1>5. b.frac * f = Word * q + r * f
    <2>1. (g * q + r) * f = (f * g) * q + r * f  BY <1>1, <1>2, <1>3
    <2> QED BY <2>1, <1>1, <1>3
  <1>6. (b.frac * f) % Word = r * f
    <2>1. b.frac * f \in Int /\ Word * q + r * f \in Int
      BY <1>1, <1>3, <1>4
    <2>2. /\ b.frac * f \in Int /\ Word \in Nat /\ Word # 0 /\ q \in Int
          /\ r * f \in 0 .. Word - 1 /\ b.frac * f = Word * q + r * f
      BY <2>1, <1>1, <1>3, <1>4, <1>5
    <2> QED BY <2>2, DivUnique, Zenon
  <1>7. ShiftLeft(b, f) = Time(b.sec * f + q, r * f)
    BY <1>6 DEF ShiftLeft, q, g
  <1>8. ShiftLeft(b, f) \in Bintime
    BY <1>7, <1>4, <1>1, <1>3 DEF Time, Bintime
  <1>9. Value(ShiftLeft(b, f)) = (b.sec * f + q) * Word + r * f
    BY <1>7 DEF Time, Value
  <1>10. (b.sec * f + q) * Word = (b.sec * Word) * f + Word * q
    BY <1>1, <1>3
  <1>11. (b.sec * Word + b.frac) * f = (b.sec * Word) * f + b.frac * f
    BY <1>1
  <1>12. (b.sec * Word) * f \in Int /\ Word * q \in Int /\ r * f \in Int
    BY <1>1, <1>3
  <1>13. (b.sec * f + q) * Word + r * f = (b.sec * Word + b.frac) * f
    BY <1>5, <1>10, <1>11, <1>12
  <1> QED BY <1>8, <1>9, <1>13 DEF Value

\* The bits that leave the seconds enter the fraction; the lowest ones of it are lost.
LEMMA ShiftRightExact ==
  ASSUME NEW b \in Bintime, NEW f \in Factors
  PROVE  ShiftRight(b, f) \in Bintime /\ Value(ShiftRight(b, f)) = Value(b) \div f
  <1> DEFINE g == Word \div f
             q == b.frac \div f
             r == b.frac % f
             s == b.sec \div f
             t == b.sec % f
  <1>0. f \in Nat /\ f # 0 /\ f * g = Word
    BY BintimeAssumption
  <1>1. /\ b.sec \in Int /\ b.frac \in 0 .. Word - 1 /\ b.frac \in Int
        /\ Word \in Nat /\ Word # 0 /\ Word \in Int /\ g \in Int
        /\ f \in Nat /\ f # 0 /\ f * g = Word
    <2>1. b.sec \in Int /\ b.frac \in 0 .. Word - 1 /\ Word \in Nat /\ Word # 0
      BY WordNat DEF Bintime
    <2>2. b.frac \in Int /\ Word \in Int
      BY <2>1
    <2>3. g \in Int
      BY <2>2, <1>0, DivMod, Zenon
    <2> QED BY <2>1, <2>2, <2>3, <1>0
  <1>2. g \in Nat /\ g # 0
    BY <1>1
  <1>3. q \in Int /\ r \in 0 .. f - 1 /\ b.frac = f * q + r
    BY <1>1, DivMod, Zenon
  <1>4. s \in Int /\ t \in 0 .. f - 1 /\ b.sec = f * s + t
    BY <1>1, DivMod, Zenon
  <1>5. ShiftRight(b, f) = Time(s, q + t * g)
    BY DEF ShiftRight
  <1> HIDE DEF g, q, r, s, t
  <1>6. q \in 0 .. g - 1
    BY <1>1, <1>2, <1>3
  <1>7. q + t * g \in 0 .. Word - 1
    <2>1. t * g <= (f - 1) * g  BY <1>1, <1>2, <1>4, TimesMono
    <2>2. (f - 1) * g = Word - g  BY <1>1, <1>2
    <2>3. t * g >= 0 /\ t * g \in Int  BY <1>1, <1>2, <1>4
    <2> QED BY <2>1, <2>2, <2>3, <1>1, <1>2, <1>6
  <1>8. ShiftRight(b, f) \in Bintime
    BY <1>5, <1>7, <1>4 DEF Time, Bintime
  <1>9. Value(ShiftRight(b, f)) = s * Word + (q + t * g)
    BY <1>5 DEF Time, Value
  <1>10. b.sec * Word + b.frac = f * (s * Word + (q + t * g)) + r
    <2>1. (f * s + t) * Word = f * (s * Word) + t * Word  BY <1>1, <1>4
    <2>2. t * (f * g) = f * (t * g)  BY <1>1, <1>2, <1>4
    <2>3. /\ s * Word \in Int /\ t * g \in Int /\ f * (s * Word) \in Int
          /\ f * (t * g) \in Int /\ f * q \in Int
      BY <1>1, <1>2, <1>3, <1>4
    <2>4. f * (s * Word + (q + t * g)) = f * (s * Word) + f * q + f * (t * g)
      BY <2>3, <1>1, <1>3
    <2> QED BY <2>1, <2>2, <2>3, <2>4, <1>1, <1>3, <1>4
  <1>11. s * Word + (q + t * g) \in Int
    BY <1>1, <1>2, <1>3, <1>4
  <1>12. (b.sec * Word + b.frac) \div f = s * Word + (q + t * g)
    <2>1. b.sec * Word + b.frac \in Int  BY <1>1
    <2> QED BY <2>1, <1>1, <1>3, <1>10, <1>11, DivUnique
  <1> QED BY <1>8, <1>9, <1>12 DEF Value
-----------------------------------------------------------------------------
(***************************************************************************)
(* The conversions.                                                        *)
(***************************************************************************)
LEMMA TimesCancelLe ==
  ASSUME NEW a \in Int, NEW b \in Int, NEW c \in Nat, c # 0, a * c <= b * c
  PROVE  a <= b
  OBVIOUS

\* A fraction of a second is k units and a rest, of which the lower half of the fraction and
\* the lower half of the product are a part.
LEMMA ToUnitsIs ==
  ASSUME NEW u \in Units, NEW f \in 0 .. Word - 1
  PROVE  \E k \in 0 .. u - 1 : \E m \in 0 .. Half - 1 : \E l \in 0 .. Half - 1 :
           ToUnits(u, f) = k /\ u * f = k * Word + m * Half + u * l
  <1> DEFINE hi == f \div Half
             l  == f % Half
             p  == u * hi
             k  == p \div Half
             m  == p % Half
  <1>1. /\ u \in Nat /\ u # 0 /\ u * u + u * Half <= Word /\ f \in Int
        /\ Half \in Nat /\ Half # 0 /\ Word \in Nat /\ Word = Half * Half /\ Word # 0
    BY BintimeAssumption, WordNat DEF Word
  <1>2. hi \in Int /\ l \in 0 .. Half - 1 /\ f = Half * hi + l
    BY <1>1, DivMod, Zenon
  <1> HIDE DEF hi, l
  <1>3. hi \in 0 .. Half - 1
    BY <1>1, <1>2
  <1>4. p \in 0 .. u * (Half - 1) /\ u * (Half - 1) = u * Half - u /\ u * Half <= Word /\ p \in Int
    <2>1. hi * u <= (Half - 1) * u  BY <1>1, <1>3, TimesMono
    <2>2. u * (Half - 1) = u * Half - u /\ hi * u = u * hi /\ u * u >= 0 /\ u * u \in Int
      BY <1>1, <1>3
    <2>3. u * hi >= 0 /\ u * Half \in Int /\ u * hi \in Int  BY <1>1, <1>3
    <2> QED BY <2>1, <2>2, <2>3, <1>1
  <1>5. p % Word = p
    <2>1. p \in 0 .. Word - 1  BY <1>1, <1>4
    <2> QED BY <2>1, <1>1, Wrap
  <1>6. k \in Int /\ m \in 0 .. Half - 1 /\ p = Half * k + m
    BY <1>1, <1>4, DivMod, Zenon
  <1>7. ToUnits(u, f) = k
    BY <1>5 DEF ToUnits, hi
  <1> HIDE DEF p, k, m
  <1>8. k \in 0 .. u - 1
    <2>1. k * Half = p - m  BY <1>1, <1>4, <1>6
    <2>2. k * Half < u * Half  BY <2>1, <1>1, <1>4, <1>6
    <2>3. (-1) * Half < k * Half  BY <2>1, <1>1, <1>4, <1>6
    <2>4. k < u  BY <2>2, <1>1, <1>6, TimesCancel
    <2>5. -1 < k  BY <2>3, <1>1, <1>6, TimesCancel
    <2> QED BY <2>4, <2>5, <1>1, <1>6
  <1>9. u * f = k * Word + m * Half + u * l
    <2>1. u * f = u * (Half * hi) + u * l  BY <1>1, <1>2
    <2>2. u * (Half * hi) = (u * hi) * Half  BY <1>1, <1>2
    <2>3. (u * hi) * Half = (Half * k + m) * Half  BY <1>6 DEF p
    <2>4. (Half * k + m) * Half = k * (Half * Half) + m * Half  BY <1>1, <1>6
    <2> QED BY <2>1, <2>2, <2>3, <2>4, <1>1
  <1> QED BY <1>2, <1>6, <1>7, <1>8, <1>9

\* The number of fractions in a unit, rounded down: no product with it exceeds 64 bits.
LEMMA FromUnitsIs ==
  ASSUME NEW u \in Units, NEW n \in 0 .. u - 1
  PROVE  /\ Word \div u \in Nat
         /\ FromUnits(u, n) = n * (Word \div u)
         /\ n * (Word \div u) \in 0 .. Word - 1
         /\ \E e \in 0 .. u - 1 : u * (n * (Word \div u)) = n * Word - n * e
  <1> DEFINE P == Word \div u
             e == Word % u
  <1>1. /\ u \in Nat /\ u # 0 /\ u * u + u * Half <= Word /\ n \in Nat /\ n <= u - 1
        /\ Half \in Nat /\ Half # 0 /\ Word \in Nat /\ Word \in Int /\ Word # 0
    BY BintimeAssumption, WordNat
  <1>2. P \in Int /\ e \in 0 .. u - 1 /\ Word = u * P + e
    BY <1>1, DivMod, Zenon
  <1> HIDE DEF P, e
  <1>3. P \in Nat /\ P # 0
    <2>1. u <= Word
      <3>1. 1 * u <= Half * u  BY <1>1, TimesMono
      <3> QED BY <3>1, <1>1
    <2>2. 0 * u < P * u
      <3>1. P * u = Word - e  BY <1>1, <1>2
      <3> QED BY <3>1, <2>1, <1>1, <1>2
    <2>3. 0 < P  BY <2>2, <1>1, <1>2, TimesCancel
    <2> QED BY <2>3, <1>2
  <1>4. n * P \in 0 .. Word - 1
    <2>1. n * P <= (u - 1) * P  BY <1>1, <1>3, TimesMono
    <2>2. (u - 1) * P = Word - e - P  BY <1>1, <1>2, <1>3
    <2>3. n * P \in Nat  BY <1>1, <1>3
    <2> QED BY <2>1, <2>2, <2>3, <1>1, <1>2, <1>3
  <1>5. FromUnits(u, n) = n * P
    BY <1>4, <1>1, Wrap DEF FromUnits, P
  <1>6. u * (n * P) = n * Word - n * e
    <2>1. u * (n * P) = n * (u * P)  BY <1>1, <1>3
    <2>2. n * (u * P + e) = n * (u * P) + n * e  BY <1>1, <1>2, <1>3
    <2>3. n * (u * P) \in Int /\ n * e \in Int  BY <1>1, <1>2, <1>3
    <2> QED BY <2>1, <2>2, <2>3, <1>2
  <1> QED BY <1>2, <1>3, <1>4, <1>5, <1>6 DEF P

LEMMA RoundedDown ==
  ASSUME NEW u \in Units, NEW f \in 0 .. Word - 1
  PROVE  /\ ToUnits(u, f) \in 0 .. u - 1
         /\ ToUnits(u, f) * Word <= u * f
         /\ FromUnits(u, ToUnits(u, f)) \in 0 .. Word - 1
         /\ FromUnits(u, ToUnits(u, f)) <= f
  <1>1. PICK k \in 0 .. u - 1, m \in 0 .. Half - 1, l \in 0 .. Half - 1 :
          ToUnits(u, f) = k /\ u * f = k * Word + m * Half + u * l
    BY ToUnitsIs
  <1>2. u \in Nat /\ u # 0 /\ Half \in Nat /\ Word \in Nat /\ f \in Int
    BY BintimeAssumption, WordNat
  <1>3. k * Word <= u * f
    <2>1. m * Half \in Nat /\ u * l \in Nat /\ k * Word \in Nat  BY <1>1, <1>2
    <2> QED BY <2>1, <1>1
  <1>4. PICK e \in 0 .. u - 1 : u * (k * (Word \div u)) = k * Word - k * e
    BY <1>1, FromUnitsIs
  <1>5. /\ FromUnits(u, k) = k * (Word \div u) /\ k * (Word \div u) \in 0 .. Word - 1
    BY <1>1, FromUnitsIs
  <1> DEFINE F == k * (Word \div u)
  <1>6. F \in Int /\ u * F = k * Word - k * e /\ F \in 0 .. Word - 1
    BY <1>4, <1>5
  <1> HIDE DEF F
  <1>7. F * u <= f * u
    <2>1. k * e \in Nat /\ k * Word \in Nat  BY <1>1, <1>2, <1>4
    <2>2. F * u = u * F /\ f * u = u * f /\ u * f \in Int  BY <1>2, <1>6
    <2> QED BY <2>1, <2>2, <1>3, <1>6
  <1>8. F <= f
    BY <1>7, <1>6, <1>2, TimesCancelLe
  <1>9. FromUnits(u, k) = F
    BY <1>5 DEF F
  <1> QED BY <1>1, <1>3, <1>6, <1>8, <1>9

\* What the two roundings lose together is less than two units.
LEMMA RoundTrip ==
  ASSUME NEW u \in Units, NEW n \in 0 .. u - 1
  PROVE  ToUnits(u, FromUnits(u, n)) \in {n - 1, n}
  <1> DEFINE F == FromUnits(u, n)
  <1>1. /\ u \in Nat /\ u # 0 /\ u * u + u * Half <= Word /\ n \in Nat /\ n <= u - 1
        /\ Half \in Nat /\ Half # 0 /\ Word \in Nat /\ Word # 0 /\ Word = Half * Half
    BY BintimeAssumption, WordNat DEF Word
  <1>2. F \in 0 .. Word - 1 /\ \E e \in 0 .. u - 1 : u * F = n * Word - n * e
    BY FromUnitsIs
  <1>3. PICK e \in 0 .. u - 1 : u * F = n * Word - n * e
    BY <1>2
  <1>4. PICK k \in 0 .. u - 1, m \in 0 .. Half - 1, l \in 0 .. Half - 1 :
          ToUnits(u, F) = k /\ u * F = k * Word + m * Half + u * l
    BY <1>2, ToUnitsIs
  <1> HIDE DEF F
  <1>5. F \in Int /\ n * Word \in Int /\ k * Word \in Int /\ u * F \in Int
    BY <1>1, <1>2, <1>4
  <1> DEFINE lost == n * e + m * Half + u * l
  <1>6. lost \in Nat /\ lost < 2 * Word
    <2>1. n * e <= u * e /\ e * u <= u * u /\ n * e \in Nat /\ u * e = e * u
      BY <1>1, <1>3, TimesMono
    <2>2. m * Half <= (Half - 1) * Half /\ (Half - 1) * Half = Word - Half /\ m * Half \in Nat
      BY <1>1, <1>4, TimesMono
    <2>3. l * u <= Half * u /\ l * u = u * l /\ Half * u = u * Half /\ u * l \in Nat
      BY <1>1, <1>4, TimesMono
    <2>4. u * u \in Nat /\ u * Half \in Nat  BY <1>1
    <2> QED BY <2>1, <2>2, <2>3, <2>4, <1>1
  <1>7. (n - k) * Word = lost
    <2>1. (n - k) * Word = n * Word - k * Word  BY <1>1, <1>4
    <2>2. n * e \in Int /\ m * Half \in Int /\ u * l \in Int  BY <1>1, <1>3, <1>4
    <2> QED BY <2>1, <2>2, <1>3, <1>4, <1>5
  <1> HIDE DEF lost
  <1>8. n - k < 2
    <2>1. (n - k) * Word < 2 * Word  BY <1>6, <1>7
    <2> QED BY <2>1, <1>1, <1>4, TimesCancel
  <1>9. -1 < n - k
    <2>1. (-1) * Word < (n - k) * Word  BY <1>6, <1>7, <1>1
    <2>2. n - k \in Int /\ -1 \in Int  BY <1>1, <1>4
    <2> QED BY <2>1, <2>2, <1>1, TimesCancel
  <1> QED BY <1>1, <1>4, <1>8, <1>9 DEF F

\* The detour by sbintime_t clears the lower half of the fraction.
LEMMA SbtIs ==
  ASSUME NEW b \in Bintime
  PROVE  /\ ToSbt(FromSbt(ToSbt(b))) = ToSbt(b)
         /\ FromSbt(ToSbt(b)) \in Bintime
         /\ FromSbt(ToSbt(b)).sec = b.sec
         /\ Value(FromSbt(ToSbt(b))) <= Value(b)
         /\ Value(b) < Value(FromSbt(ToSbt(b))) + Half
  <1> DEFINE s == b.sec
             hi == b.frac \div Half
             lo == b.frac % Half
  <1>1. /\ s \in Int /\ b.frac \in 0 .. Word - 1 /\ b.frac \in Int
        /\ Half \in Nat /\ Half # 0 /\ Word \in Nat /\ Word = Half * Half
    BY WordNat DEF Bintime, Word
  <1>2. hi \in Int /\ lo \in 0 .. Half - 1 /\ b.frac = Half * hi + lo
    BY <1>1, DivMod, Zenon
  <1>3. ToSbt(b) = s * Half + hi
    BY DEF ToSbt
  <1> HIDE DEF hi, lo, s
  <1>4. hi \in 0 .. Half - 1
    BY <1>1, <1>2
  <1>5. (s * Half + hi) \div Half = s /\ (s * Half + hi) % Half = hi
    <2>1. s * Half + hi \in Int /\ s * Half + hi = Half * s + hi  BY <1>1, <1>2
    <2> QED BY <2>1, <1>1, <1>4, DivUnique
  <1>6. FromSbt(ToSbt(b)) = Time(s, hi * Half)
    BY <1>3, <1>5 DEF FromSbt
  <1>7. hi * Half \in 0 .. Word - 1 /\ hi * Half = b.frac - lo
    <2>1. hi * Half = Half * hi /\ hi * Half >= 0 /\ hi * Half \in Int  BY <1>1, <1>4
    <2> QED BY <2>1, <1>1, <1>2
  <1>8. (hi * Half) \div Half = hi
    <2>1. hi * Half \in Int /\ hi * Half = Half * hi + 0 /\ 0 \in 0 .. Half - 1  BY <1>1, <1>2
    <2> QED BY <2>1, <1>1, <1>2, DivUnique
  <1>9. ToSbt(FromSbt(ToSbt(b))) = ToSbt(b)
    BY <1>3, <1>6, <1>8 DEF ToSbt, Time
  <1>10. Value(FromSbt(ToSbt(b))) = s * Word + hi * Half
    BY <1>6 DEF Value, Time
  <1>11. Value(b) = s * Word + b.frac
    BY DEF Value, s
  <1>12. s * Word \in Int
    BY <1>1
  <1>13. FromSbt(ToSbt(b)) \in Bintime /\ FromSbt(ToSbt(b)).sec = s
    BY <1>6, <1>7, <1>1 DEF Time, Bintime
  <1> QED BY <1>1, <1>2, <1>7, <1>9, <1>10, <1>11, <1>12, <1>13 DEF s

LEMMA BeforeIs ==
  ASSUME NEW a \in Bintime, NEW b \in Bintime
  PROVE  Before(a, b) <=> Value(a) < Value(b)
  <1>1. /\ a.sec \in Int /\ a.frac \in 0 .. Word - 1
        /\ b.sec \in Int /\ b.frac \in 0 .. Word - 1 /\ Word \in Nat
    BY WordNat DEF Bintime
  <1>2. a.sec * Word \in Int /\ b.sec * Word \in Int
    BY <1>1
  <1>3. CASE a.sec = b.sec
    BY <1>1, <1>2, <1>3 DEF Before, Value
  <1>4. CASE a.sec < b.sec
    <2>1. (a.sec + 1) * Word <= b.sec * Word  BY <1>1, <1>4, TimesMono
    <2>2. (a.sec + 1) * Word = a.sec * Word + Word  BY <1>1
    <2> QED BY <2>1, <2>2, <1>1, <1>2, <1>4 DEF Before, Value
  <1>5. CASE b.sec < a.sec
    <2>1. (b.sec + 1) * Word <= a.sec * Word  BY <1>1, <1>5, TimesMono
    <2>2. (b.sec + 1) * Word = b.sec * Word + Word  BY <1>1
    <2> QED BY <2>1, <2>2, <1>1, <1>2, <1>5 DEF Before, Value
  <1> QED BY <1>1, <1>3, <1>4, <1>5

LEMMA TimersIs ==
  ASSUME NEW u \in Units, NEW a \in [sec : Int, frac : 0 .. u - 1],
         NEW b \in [sec : Int, frac : 0 .. u - 1]
  PROVE  LET sum == TimerAdd(u, a, b)
             dif == TimerSub(u, a, b)
         IN  /\ sum.frac \in 0 .. u - 1 /\ dif.frac \in 0 .. u - 1
             /\ sum.sec * u + sum.frac = a.sec * u + a.frac + b.sec * u + b.frac
             /\ dif.sec * u + dif.frac = a.sec * u + a.frac - (b.sec * u + b.frac)
  <1>1. /\ u \in Nat /\ u # 0 /\ a.sec \in Int /\ b.sec \in Int
        /\ a.frac \in 0 .. u - 1 /\ b.frac \in 0 .. u - 1
    BY BintimeAssumption
  <1>2. /\ (a.sec + b.sec + 1) * u = a.sec * u + b.sec * u + u
        /\ (a.sec + b.sec) * u = a.sec * u + b.sec * u
        /\ (a.sec - b.sec) * u = a.sec * u - b.sec * u
        /\ (a.sec - b.sec - 1) * u = a.sec * u - b.sec * u - u
    BY <1>1
  <1>3. a.sec * u \in Int /\ b.sec * u \in Int
    BY <1>1
  <1>4. /\ TimerAdd(u, a, b).frac \in 0 .. u - 1
        /\ TimerAdd(u, a, b).sec * u + TimerAdd(u, a, b).frac
             = a.sec * u + a.frac + b.sec * u + b.frac
    <2>1. CASE a.frac + b.frac >= u
      <3>1. TimerAdd(u, a, b) = Time(a.sec + b.sec + 1, a.frac + b.frac - u)
        BY <2>1, <1>1 DEF TimerAdd
      <3> QED BY <3>1, <2>1, <1>1, <1>2, <1>3 DEF Time
    <2>2. CASE ~(a.frac + b.frac >= u)
      <3>1. TimerAdd(u, a, b) = Time(a.sec + b.sec, a.frac + b.frac)
        BY <2>2, <1>1 DEF TimerAdd
      <3> QED BY <3>1, <2>2, <1>1, <1>2, <1>3 DEF Time
    <2> QED BY <2>1, <2>2
  <1>5. /\ TimerSub(u, a, b).frac \in 0 .. u - 1
        /\ TimerSub(u, a, b).sec * u + TimerSub(u, a, b).frac
             = a.sec * u + a.frac - (b.sec * u + b.frac)
    <2>1. CASE a.frac - b.frac < 0
      <3>1. TimerSub(u, a, b) = Time(a.sec - b.sec - 1, a.frac - b.frac + u)
        BY <2>1, <1>1 DEF TimerSub
      <3> QED BY <3>1, <2>1, <1>1, <1>2, <1>3 DEF Time
    <2>2. CASE ~(a.frac - b.frac < 0)
      <3>1. TimerSub(u, a, b) = Time(a.sec - b.sec, a.frac - b.frac)
        BY <2>2, <1>1 DEF TimerSub
      <3> QED BY <3>1, <2>2, <1>1, <1>2, <1>3 DEF Time
    <2> QED BY <2>1, <2>2
  <1> QED BY <1>4, <1>5

-----------------------------------------------------------------------------
(***************************************************************************)
(* The theorems.                                                           *)
(***************************************************************************)
\* A time of the program is one of the type, and every property but TypeOK follows from that.
LEMMA TimesAreBintimes == Times \subseteq Bintime
  BY BintimeAssumption DEF Times, Bintime, Seconds

\* time.h (57-250): the fraction never leaves its 64 bits, whatever is computed.
THEOREM Typed == Spec => []TypeOK
  <1>1. Init => TypeOK
    BY WordNat, BintimeAssumption DEF Init, TypeOK, Times, Seconds, Time
  <1>2. TypeOK /\ [Next]_bt => TypeOK'
    <2> SUFFICES ASSUME TypeOK, Next PROVE bt' \in Bintime /\ bt'.sec \in Seconds
      BY DEF TypeOK, Times, Bintime
    <2>0. bt \in Bintime /\ bt'.sec \in Seconds
      BY TimesAreBintimes DEF TypeOK, Next
    <2>1. ASSUME NEW x \in 0 .. Word - 1, bt' = AddX(bt, x) PROVE bt' \in Bintime
      BY <2>0, <2>1, AddXExact
    <2>2. ASSUME NEW b \in Times, bt' = Add(bt, b) \/ bt' = Sub(bt, b) PROVE bt' \in Bintime
      BY <2>0, <2>2, TimesAreBintimes, AddExact, SubExact
    <2>3. ASSUME NEW x \in 0 .. Half - 1, bt' = Mul(bt, x) PROVE bt' \in Bintime
      BY <2>0, <2>3, MulExact
    <2>4. ASSUME NEW f \in Factors, bt' = ShiftLeft(bt, f) \/ bt' = ShiftRight(bt, f)
          PROVE  bt' \in Bintime
      BY <2>0, <2>4, ShiftLeftExact, ShiftRightExact
    <2>5. ASSUME NEW u \in Units, bt' = Time(bt.sec, FromUnits(u, ToUnits(u, bt.frac)))
          PROVE  bt' \in Bintime
      <3>1. bt.frac \in 0 .. Word - 1 /\ bt.sec \in Int  BY <2>0 DEF Bintime
      <3>2. FromUnits(u, ToUnits(u, bt.frac)) \in 0 .. Word - 1  BY <3>1, RoundedDown
      <3> QED BY <3>1, <3>2, <2>5 DEF Time, Bintime
    <2>6. ASSUME bt' = FromSbt(ToSbt(bt)) PROVE bt' \in Bintime
      BY <2>0, <2>6, SbtIs
    <2> QED BY <2>0, <2>1, <2>2, <2>3, <2>4, <2>5, <2>6 DEF Next
  <1> QED BY <1>1, <1>2, PTL DEF Spec

LEMMA ExactWhenTyped == TypeOK => ArithmeticIsExact
  <1> SUFFICES ASSUME TypeOK PROVE ArithmeticIsExact
    OBVIOUS
  <1>1. bt \in Bintime
    BY TimesAreBintimes DEF TypeOK
  <1>2. \A x \in 0 .. Word - 1 : Value(AddX(bt, x)) = Value(bt) + x
    BY <1>1, AddXExact
  <1>3. \A b \in Times : /\ Value(Add(bt, b)) = Value(bt) + Value(b)
                         /\ Value(Sub(bt, b)) = Value(bt) - Value(b)
                         /\ Before(bt, b) <=> Value(bt) < Value(b)
    BY <1>1, TimesAreBintimes, AddExact, SubExact, BeforeIs
  <1>4. \A x \in 0 .. Half - 1 : Value(Mul(bt, x)) = Value(bt) * x
    BY <1>1, MulExact
  <1>5. \A f \in Factors : /\ Value(ShiftLeft(bt, f)) = Value(bt) * f
                           /\ Value(ShiftRight(bt, f)) = Value(bt) \div f
    BY <1>1, ShiftLeftExact, ShiftRightExact
  <1> QED BY <1>2, <1>3, <1>4, <1>5 DEF ArithmeticIsExact

\* time.h (68-135): additions, subtractions, products, shifts and comparisons are exact for
\* every time, with the width and the exponents that the code has.
THEOREM Exact == Spec => []ArithmeticIsExact
  BY Typed, ExactWhenTyped, PTL

LEMMA DownWhenTyped == TypeOK => UnitsRoundDown
  <1> SUFFICES ASSUME TypeOK, NEW u \in Units
               PROVE  /\ ToUnits(u, bt.frac) \in 0 .. u - 1
                      /\ ToUnits(u, bt.frac) * Word <= u * bt.frac
                      /\ \A n \in 0 .. u - 1 :
                           /\ FromUnits(u, n) = n * (Word \div u)
                           /\ ToUnits(u, FromUnits(u, n)) \in {n - 1, n}
                      /\ FromUnits(u, ToUnits(u, bt.frac)) <= bt.frac
    BY DEF UnitsRoundDown
  <1>1. bt.frac \in 0 .. Word - 1
    BY DEF TypeOK, Times
  <1> QED BY <1>1, RoundedDown, FromUnitsIs, RoundTrip

LEMMA SbtWhenTyped == TypeOK => SbtRoundsDown
  <1> SUFFICES ASSUME TypeOK PROVE SbtRoundsDown
    OBVIOUS
  <1>1. bt \in Bintime
    BY TimesAreBintimes DEF TypeOK
  <1> QED BY <1>1, SbtIs DEF SbtRoundsDown

\* time.h (148-250): a second is never rounded up; a number of units comes back as it was or
\* one less, and a detour by sbintime_t loses less than 2^-32 seconds, and only once.
THEOREM RoundDown == Spec => []ConversionsRoundDown
  <1>1. TypeOK => ConversionsRoundDown
    BY DownWhenTyped, SbtWhenTyped DEF ConversionsRoundDown
  <1> QED BY <1>1, Typed, PTL

LEMMA TimersWhenTyped == TypeOK => TimersAreExact
  <1> SUFFICES ASSUME TypeOK, NEW u \in Units, NEW b \in [sec : Seconds, frac : 0 .. u - 1]
               PROVE  LET a   == Time(bt.sec, ToUnits(u, bt.frac))
                          sum == TimerAdd(u, a, b)
                          dif == TimerSub(u, a, b)
                      IN  /\ sum.frac \in 0 .. u - 1 /\ dif.frac \in 0 .. u - 1
                          /\ sum.sec * u + sum.frac = a.sec * u + a.frac + b.sec * u + b.frac
                          /\ dif.sec * u + dif.frac
                               = a.sec * u + a.frac - (b.sec * u + b.frac)
    BY DEF TimersAreExact
  <1> DEFINE a == Time(bt.sec, ToUnits(u, bt.frac))
  <1>1. bt.frac \in 0 .. Word - 1 /\ bt.sec \in Int
    BY TimesAreBintimes DEF TypeOK, Bintime
  <1>2. ToUnits(u, bt.frac) \in 0 .. u - 1
    BY <1>1, RoundedDown
  <1>3. a \in [sec : Int, frac : 0 .. u - 1]
    BY <1>1, <1>2 DEF Time
  <1>4. b \in [sec : Int, frac : 0 .. u - 1]
    BY BintimeAssumption DEF Seconds
  <1> HIDE DEF a
  <1>5. LET sum == TimerAdd(u, a, b)
            dif == TimerSub(u, a, b)
        IN  /\ sum.frac \in 0 .. u - 1 /\ dif.frac \in 0 .. u - 1
            /\ sum.sec * u + sum.frac = a.sec * u + a.frac + b.sec * u + b.frac
            /\ dif.sec * u + dif.frac = a.sec * u + a.frac - (b.sec * u + b.frac)
    BY <1>3, <1>4, TimersIs
  <1> QED BY <1>5 DEF a

\* _timeval.h (81-98): the carry of timeradd and the borrow of timersub are right for every
\* pair of times below a whole second.
THEOREM TimersExact == Spec => []TimersAreExact
  BY Typed, TimersWhenTyped, PTL
================================================================================
