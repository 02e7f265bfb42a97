------------------------------ MODULE TreesProofs ------------------------------
(***************************************************************************)
(* What the proofs about both trees need: loops, and trees as families of  *)
(* sets of elements.                                                       *)
(***************************************************************************)
EXTENDS Trees, FiniteSetTheorems, WellFoundedInduction, TLAPS

-----------------------------------------------------------------------------
(***************************************************************************)
(* Loops.                                                                  *)
(***************************************************************************)
\* A set of numbers has a least one.
LEMMA LeastNumber ==
  ASSUME NEW T, T \subseteq Nat, T # {}
  PROVE  \E x \in T : \A y \in T : x <= y
  <1> DEFINE R == OpToRel(<, Nat)
  <1>1. IsWellFoundedOn(R, Nat)  BY NatLessThanWellFounded
  <1>2. \E x \in T : \A y \in T : <<y, x>> \notin R
    <2> HIDE DEF R
    <2> QED BY <1>1, WFMin
  <1>3. \A x, y \in Nat : <<y, x>> \notin R => x <= y
    BY DEF OpToRel
  <1> QED BY <1>2, <1>3

\* The set has an element for which f is the least.
LEMMA LeastValue ==
  ASSUME NEW T, T # {}, NEW f, \A x \in T : f[x] \in Nat
  PROVE  \E x \in T : \A y \in T : f[x] <= f[y]
  <1> DEFINE V == {f[x] : x \in T}
  <1>1. V \subseteq Nat /\ V # {}  OBVIOUS
  <1>2. PICK v \in V : \A w \in V : v <= w
    <2> HIDE DEF V
    <2> QED BY <1>1, LeastNumber
  <1>3. PICK x \in T : v = f[x]  OBVIOUS
  <1>4. \A y \in T : f[y] \in V  OBVIOUS
  <1> QED BY <1>2, <1>3, <1>4

\* The states of a loop form a sequence.
IsRun(f, step, x, m) == f = [n \in 0 .. m |-> IF n = 0 THEN x ELSE step[f[n - 1]]]

LEMMA RunExists ==
  ASSUME NEW step, NEW x, NEW N \in Nat
  PROVE  \E f : IsRun(f, step, x, N)
  <1> USE DEF IsRun
  <1> DEFINE Run(f, m) == IsRun(f, step, x, m)
             T == {m \in Nat : ~ \E f : Run(f, m)}
  <1> SUFFICES ASSUME T # {} PROVE FALSE
    OBVIOUS
  <1>1. PICK m \in T : \A k \in T : m <= k
    <2>1. T \subseteq Nat  OBVIOUS
    <2> HIDE DEF T
    <2> QED BY <2>1, LeastNumber
  <1>2. m \in Nat /\ ~ \E f : Run(f, m)
    BY <1>1
  <1>3. CASE m = 0
    <2>1. Run([n \in 0 .. 0 |-> x], 0)  OBVIOUS
    <2> QED BY <1>2, <1>3, <2>1
  <1>4. CASE m # 0
    <2>1. m - 1 \in Nat /\ m - 1 \notin T
      <3>1. m - 1 \in Nat /\ ~(m <= m - 1)  BY <1>2, <1>4
      <3> HIDE DEF T
      <3> QED BY <1>1, <3>1
    <2>2. PICK f : Run(f, m - 1)
      BY <2>1
    <2> DEFINE g == [n \in 0 .. m |-> IF n = m THEN step[f[m - 1]] ELSE f[n]]
    <2>3. \A n \in 0 .. m - 1 : f[n] = IF n = 0 THEN x ELSE step[f[n - 1]]
      BY <2>2
    <2>4. \A n \in 0 .. m : g[n] = IF n = 0 THEN x ELSE step[g[n - 1]]
      BY <1>2, <1>4, <2>3
    <2>5. Run(g, m)
      <3>1. g = [n \in 0 .. m |-> g[n]]  OBVIOUS
      <3> HIDE DEF g
      <3> QED BY <2>4, <3>1
    <2> QED BY <1>2, <2>5
  <1> QED BY <1>3, <1>4

\* A loop keeps its invariant, which is the set Inv of states, and stops if a measure gets
\* less in each round.
LEMMA RepeatEnds ==
  ASSUME IsFiniteSet(TreeElem),
         NEW step, NEW Inv, NEW x \in Inv, \A z \in Inv : step[z] \in Inv,
         NEW size, \A z \in Inv : size[z] \in Nat /\ (step[z] = z \/ size[step[z]] < size[z]),
         size[x] <= Cardinality(TreeElem)
  PROVE  Repeat(step, x) \in Inv /\ step[Repeat(step, x)] = Repeat(step, x)
  <1> DEFINE N == Cardinality(TreeElem)
             f == CHOOSE f : IsRun(f, step, x, N)
  <1>1. N \in Nat  BY FS_CardinalityType
  <1>2. f = [n \in 0 .. N |-> IF n = 0 THEN x ELSE step[f[n - 1]]]
    <2>1. \E g : IsRun(g, step, x, N)  BY <1>1, RunExists
    <2>2. IsRun(f, step, x, N)  BY <2>1
    <2> HIDE DEF f
    <2> QED BY <2>2 DEF IsRun
  <1>3. Repeat(step, x) = f[N]
    BY DEF Repeat, IsRun
  <1> HIDE DEF f, N
  <1>4. f[0] = x /\ \A n \in 0 .. N : n # 0 => f[n] = step[f[n - 1]]
    BY <1>1, <1>2
  <1> DEFINE Fine(n) == f[n] \in Inv /\ (step[f[n]] = f[n] \/ size[f[n]] + n <= N)
             T == {n \in 0 .. N : ~Fine(n)}
  <1>5. size[x] <= N  BY DEF N
  <1>6. T = {}
    <2> SUFFICES ASSUME T # {} PROVE FALSE
      OBVIOUS
    <2>1. PICK n \in T : \A k \in T : n <= k
      <3>1. T \subseteq Nat  BY <1>1
      <3> HIDE DEF T
      <3> QED BY <3>1, LeastNumber
    <2>2. n # 0
      <3>1. Fine(0)  BY <1>4, <1>5
      <3> QED BY <2>1, <3>1
    <2>3. Fine(n - 1)  BY <1>1, <2>1, <2>2
    <2>4. f[n] = step[f[n - 1]]  BY <1>4, <2>1, <2>2
    <2>5. Fine(n)  BY <1>1, <2>1, <2>2, <2>3, <2>4
    <2> QED BY <2>1, <2>5
  <1>7. Fine(N)  BY <1>1, <1>6
  <1> QED BY <1>1, <1>3, <1>7

-----------------------------------------------------------------------------
(***************************************************************************)
(* Trees.  The family u has, for each element of a tree, the set of the    *)
(* elements below it; c are the children and r is the root.                *)
(***************************************************************************)
\* x lies on side s of y.
On(s, x, y) == IF s = "left" THEN Key[x] < Key[y] ELSE Key[y] < Key[x]

IsTree(c, r, u) ==
  /\ u \in [Link -> SUBSET TreeElem] /\ u[Null] = {}
  /\ r \in Link /\ (r # Null => r \in u[r])
  /\ \A e \in u[r] : e \in u[e] /\ u[e] \subseteq u[r]
  /\ \A e \in u[r] : \A x \in u[e] : u[x] \subseteq u[e]
  /\ \A e \in u[r] : \A s \in Sides : c[e][s] \in Link /\ (c[e][s] # Null => c[e][s] \in u[c[e][s]])
  /\ \A e \in u[r] : u[e] = {e} \cup u[c[e]["left"]] \cup u[c[e]["right"]]
  /\ \A e \in u[r] : \A s \in Sides : \A x \in u[c[e][s]] : On(s, x, e)

LEMMA SidesAre ==
  /\ Sides = {"left", "right"}
  /\ \A s \in Sides : Other(s) \in Sides /\ Other(s) # s /\ Other(Other(s)) = s
  /\ \A s \in Sides : \A x \in Sides : x = s \/ x = Other(s)
  BY DEF Sides, Other

LEMMA OnIsOrder ==
  ASSUME ElementsFit
  PROVE  /\ \A s \in Sides : \A x \in TreeElem : ~On(s, x, x)
         /\ \A s \in Sides : \A x \in TreeElem : \A y \in TreeElem : On(s, x, y) <=> On(Other(s), y, x)
         /\ \A s \in Sides : \A x \in TreeElem : \A y \in TreeElem : ~(On(s, x, y) /\ On(Other(s), x, y))
         /\ \A s \in Sides : \A x \in TreeElem : \A y \in TreeElem : \A z \in TreeElem :
              On(s, x, y) /\ On(s, y, z) => On(s, x, z)
         /\ \A s \in Sides : \A x \in TreeElem : \A y \in TreeElem :
              Key[x] = Key[y] \/ On(s, x, y) \/ On(Other(s), x, y)
  BY DEF ElementsFit, On, Sides, Other

\* What lies below a child is smaller than what lies below the parent.
LEMMA ChildSmaller ==
  ASSUME ElementsFit, NEW c, NEW r, NEW u, IsTree(c, r, u), NEW e \in u[r], NEW s \in Sides
  PROVE  /\ e \in TreeElem /\ e \in Link /\ c[e][s] \in Link
         /\ u[c[e][s]] \subseteq u[e] /\ e \notin u[c[e][s]] /\ u[c[e][s]] \cap u[c[e][Other(s)]] = {}
         /\ u[e] = {e} \cup u[c[e][s]] \cup u[c[e][Other(s)]]
         /\ Cardinality(u[e]) \in Nat /\ Cardinality(u[c[e][s]]) \in Nat
         /\ Cardinality(u[c[e][s]]) < Cardinality(u[e])
         /\ (c[e][s] # Null => c[e][s] \in u[r] /\ c[e][s] \in u[e] /\ c[e][s] # e)
  <1>1. e \in TreeElem /\ e \in Link /\ c[e][s] \in Link
    BY DEF IsTree, Link
  <1>2. u[e] = {e} \cup u[c[e][s]] \cup u[c[e][Other(s)]]
    BY SidesAre DEF IsTree
  <1>3. u[c[e][s]] \subseteq TreeElem /\ u[e] \subseteq TreeElem
    BY <1>1 DEF IsTree
  <1>4. \A x \in u[c[e][s]] : On(s, x, e)
    BY DEF IsTree
  <1>5. \A x \in u[c[e][Other(s)]] : On(Other(s), x, e)
    BY SidesAre DEF IsTree
  <1>6. e \notin u[c[e][s]]
    BY <1>1, <1>4, OnIsOrder
  <1>7. u[c[e][s]] \cap u[c[e][Other(s)]] = {}
    BY <1>1, <1>3, <1>4, <1>5, OnIsOrder
  <1>8. /\ IsFiniteSet(u[e]) /\ IsFiniteSet(u[c[e][s]])
        /\ Cardinality(u[e]) \in Nat /\ Cardinality(u[c[e][s]]) \in Nat
    BY <1>3, FS_Subset, FS_CardinalityType DEF ElementsFit
  <1>9. Cardinality(u[c[e][s]]) <= Cardinality(u[e]) /\ Cardinality(u[c[e][s]]) # Cardinality(u[e])
    BY <1>2, <1>6, <1>8, FS_Subset
  <1>10. c[e][s] # Null => c[e][s] \in u[r] /\ c[e][s] \in u[e] /\ c[e][s] # e
    BY <1>2, <1>6 DEF IsTree
  <1> QED BY <1>1, <1>2, <1>6, <1>7, <1>8, <1>9, <1>10

\* Two elements are below a third one on different sides, or one is below the other.
LEMMA Meet ==
  ASSUME ElementsFit, NEW c, NEW r, NEW u, IsTree(c, r, u), NEW a \in u[r], NEW b \in u[r]
  PROVE  \/ a \in u[b] \/ b \in u[a]
         \/ \E g \in u[r] : \E s \in Sides : a \in u[c[g][s]] /\ b \in u[c[g][Other(s)]]
  <1> DEFINE T == {g \in u[r] : a \in u[g] /\ b \in u[g]}
             f == [g \in TreeElem |-> Cardinality(u[g])]
  <1>1. u[r] \subseteq TreeElem /\ r \in u[r]
    BY DEF IsTree
  <1>2. T # {} /\ \A g \in T : f[g] \in Nat
    <2>1. \A g \in u[r] : Cardinality(u[g]) \in Nat
      BY ChildSmaller, SidesAre
    <2>2. r \in T  BY <1>1
    <2> QED BY <1>1, <2>1, <2>2
  <1>3. PICK g \in T : \A h \in T : f[g] <= f[h]
    <2> HIDE DEF T, f
    <2> QED BY <1>2, LeastValue
  <1>4. \A s \in Sides : ~(a \in u[c[g][s]] /\ b \in u[c[g][s]])
    <2> SUFFICES ASSUME NEW s \in Sides, a \in u[c[g][s]], b \in u[c[g][s]] PROVE FALSE
      OBVIOUS
    <2>1. c[g][s] # Null  BY DEF IsTree
    <2>2. c[g][s] \in u[r] /\ Cardinality(u[c[g][s]]) < Cardinality(u[g])
          /\ Cardinality(u[g]) \in Nat /\ Cardinality(u[c[g][s]]) \in Nat
      BY <2>1, ChildSmaller
    <2>3. f[c[g][s]] < f[g] /\ f[g] \in Nat /\ f[c[g][s]] \in Nat /\ c[g][s] \in T
      BY <1>1, <2>2
    <2> HIDE DEF T, f
    <2> QED BY <1>3, <2>3
  <1>5. u[g] = {g} \cup u[c[g]["left"]] \cup u[c[g]["right"]]
    BY DEF IsTree
  <1> QED BY <1>3, <1>4, <1>5 DEF Sides, Other

\* Whoever is not below a lies on one side of all that is.
LEMMA Apart ==
  ASSUME ElementsFit, NEW c, NEW r, NEW u, IsTree(c, r, u), NEW a \in u[r],
         NEW y \in u[r], y \notin u[a]
  PROVE  \E s \in Sides : \A x \in u[a] : On(s, x, y)
  <1>1. CASE a \in u[y]
    <2>1. PICK s \in Sides : a \in u[c[y][s]]
      BY <1>1, SidesAre DEF IsTree
    <2>2. u[a] \subseteq u[c[y][s]]
      BY <2>1, ChildSmaller DEF IsTree
    <2> QED BY <2>1, <2>2 DEF IsTree
  <1>2. ASSUME NEW g \in u[r], NEW s \in Sides, a \in u[c[g][s]], y \in u[c[g][Other(s)]]
        PROVE  \A x \in u[a] : On(s, x, y)
    <2>0. Other(s) \in Sides  BY SidesAre
    <2>1. u[a] \subseteq u[c[g][s]]
      BY <1>2, ChildSmaller DEF IsTree
    <2>2. \A x \in u[a] : On(s, x, g)
      BY <2>1 DEF IsTree
    <2>3. On(s, g, y)
      <3>1. On(Other(s), y, g)  BY <1>2, <2>0 DEF IsTree
      <3>2. y \in TreeElem /\ g \in TreeElem  BY DEF IsTree
      <3> QED BY <3>1, <3>2, OnIsOrder
    <2>4. u[a] \subseteq TreeElem /\ y \in TreeElem /\ g \in TreeElem  BY DEF IsTree, Link
    <2> QED BY <2>2, <2>3, <2>4, OnIsOrder
  <1> QED BY <1>1, <1>2, Meet

\* Different elements have different keys.
LEMMA KeysDiffer ==
  ASSUME ElementsFit, NEW c, NEW r, NEW u, IsTree(c, r, u), NEW x \in u[r], NEW y \in u[r], x # y
  PROVE  Key[x] # Key[y]
  <1>1. x \in TreeElem /\ y \in TreeElem /\ x \in u[x]  BY DEF IsTree
  <1>2. CASE y \notin u[x]
    <2>1. PICK s \in Sides : On(s, x, y)
      BY <1>1, <1>2, Apart
    <2> QED BY <1>1, <2>1 DEF On, ElementsFit
  <1>3. CASE y \in u[x]
    <2>1. PICK s \in Sides : y \in u[c[x][s]]
      BY <1>3, SidesAre DEF IsTree
    <2>2. On(s, y, x)  BY <2>1 DEF IsTree
    <2> QED BY <1>1, <2>2 DEF On, ElementsFit
  <1> QED BY <1>2, <1>3

\* Every element but the root is a child of another.
LEMMA HasParent ==
  ASSUME ElementsFit, NEW c, NEW r, NEW u, IsTree(c, r, u), NEW x \in u[r], x # r
  PROVE  \E g \in u[r] : \E s \in Sides : c[g][s] = x
  <1> DEFINE T == {g \in u[r] : x \in u[g] /\ g # x}
             f == [g \in TreeElem |-> Cardinality(u[g])]
  <1>1. u[r] \subseteq TreeElem /\ r \in u[r]
    BY DEF IsTree
  <1>2. T # {} /\ \A g \in T : f[g] \in Nat
    <2>1. \A g \in u[r] : Cardinality(u[g]) \in Nat
      BY ChildSmaller, SidesAre
    <2>2. r \in T  BY <1>1
    <2> QED BY <1>1, <2>1, <2>2
  <1>3. PICK g \in T : \A h \in T : f[g] <= f[h]
    <2> HIDE DEF T, f
    <2> QED BY <1>2, LeastValue
  <1>4. PICK s \in Sides : x \in u[c[g][s]]
    BY <1>3, SidesAre DEF IsTree
  <1>5. c[g][s] # Null  BY <1>4 DEF IsTree
  <1>6. c[g][s] \in u[r] /\ Cardinality(u[c[g][s]]) < Cardinality(u[g])
        /\ Cardinality(u[g]) \in Nat /\ Cardinality(u[c[g][s]]) \in Nat
    BY <1>5, ChildSmaller
  <1>7. f[c[g][s]] < f[g] /\ f[g] \in Nat /\ f[c[g][s]] \in Nat
    BY <1>1, <1>6
  <1>8. c[g][s] \notin T
    <2> HIDE DEF T, f
    <2> QED BY <1>3, <1>7
  <1> QED BY <1>4, <1>6, <1>8

\* Every element is the root or the child of one element.
LEMMA OneParent ==
  ASSUME ElementsFit, NEW c, NEW r, NEW u, IsTree(c, r, u),
         NEW e \in u[r], NEW s \in Sides, NEW f \in u[r], NEW q \in Sides,
         c[e][s] = c[f][q], c[e][s] # Null
  PROVE  e = f /\ s = q /\ c[e][s] # r
  <1> DEFINE x == c[e][s]
  <1>1. x \in u[x] /\ x \in u[e] /\ x \in u[f] /\ e \notin u[x] /\ f \notin u[x] /\ x \in u[r]
    BY ChildSmaller DEF IsTree
  <1>2. ASSUME NEW a \in u[r], NEW b \in u[r], NEW k \in Sides, c[b][k] = x, x \in u[a],
               a \in u[b], a # b
        PROVE  a \in u[x]
    <2>1. PICK h \in Sides : a \in u[c[b][h]]
      BY <1>2, SidesAre DEF IsTree
    <2>2. u[a] \subseteq u[c[b][h]]
      BY SMTT(30), <2>1, ChildSmaller DEF IsTree
    <2>3. h = k  BY SMTT(30), <1>1, <1>2, <2>2, ChildSmaller, SidesAre
    <2> QED BY <1>2, <2>1, <2>3
  <1>3. e = f
    <2>1. ASSUME NEW g \in u[r], NEW k \in Sides, e \in u[c[g][k]], f \in u[c[g][Other(k)]]
          PROVE  FALSE
      <3>1. u[e] \subseteq u[c[g][k]] /\ u[f] \subseteq u[c[g][Other(k)]]
        BY <2>1, ChildSmaller, SidesAre DEF IsTree
      <3> QED BY <1>1, <3>1, ChildSmaller
    <2> QED BY <1>1, <1>2, <2>1, Meet
  <1>4. s = q
    <2>1. u[c[e][s]] \cap u[c[e][Other(s)]] = {}  BY ChildSmaller
    <2>2. x \in u[c[e][s]] /\ x \in u[c[e][q]]  BY <1>1, <1>3
    <2>3. q = s \/ q = Other(s)  BY SidesAre
    <2> QED BY <2>1, <2>2, <2>3
  <1>5. x # r
    BY <1>1 DEF IsTree
  <1> QED BY <1>3, <1>4, <1>5

\* What hangs on an element is a tree.
LEMMA Subtree ==
  ASSUME NEW c, NEW r, NEW u, IsTree(c, r, u), NEW e \in u[r]
  PROVE  IsTree(c, e, u)
  <1>1. u[e] \subseteq u[r] /\ e \in Link /\ e \in u[e]
    BY DEF IsTree, Link
  <1> QED BY <1>1 DEF IsTree

\* The loop of the model finds the elements below e.
LEMMA BelowIs ==
  ASSUME ElementsFit, NEW t, NEW r, NEW u, IsTree(t.child, r, u), NEW e \in u[r]
  PROVE  Below(t, e) = u[e]
  <1> DEFINE c == t.child
             Kids(X) == {c[x][s] : x \in X, s \in Sides} \ {Null}
             step == [X \in SUBSET TreeElem |-> X \cup Kids(X)]
             Inv == {X \in SUBSET TreeElem : e \in X /\ X \subseteq u[e]}
             size == [X \in SUBSET TreeElem |-> Cardinality(u[e] \ X)]
             D == Repeat(step, {e})
  <1>01. \A X : \A y : y \in Kids(X) <=> y # Null /\ \E x \in X : \E s \in Sides : y = c[x][s]
    OBVIOUS
  <1>02. \A X \in SUBSET TreeElem : step[X] = X \cup Kids(X)
    <2> HIDE DEF Kids
    <2> QED OBVIOUS
  <1>03. Below(t, e) = Repeat(step, {e} \ {Null})
    BY DEF Below
  <1>04. \A X \in SUBSET TreeElem : size[X] = Cardinality(u[e] \ X)
    OBVIOUS
  <1> HIDE DEF Kids, step, size, D
  <1>1. IsTree(c, e, u) /\ e \in u[e] /\ e \in TreeElem /\ u[e] \subseteq TreeElem /\ e # Null
    <2>1. r \in Link /\ u \in [Link -> SUBSET TreeElem] /\ e \in u[e]  BY DEF IsTree
    <2>2. e \in TreeElem  BY <2>1
    <2>3. e # Null  BY <2>2 DEF ElementsFit
    <2>4. u[e] \subseteq TreeElem  BY <2>1, <2>2 DEF Link
    <2>5. IsTree(c, e, u)  BY Subtree
    <2> QED BY <2>1, <2>2, <2>3, <2>4, <2>5
  <1>2. IsFiniteSet(TreeElem)  BY DEF ElementsFit
  <1>3. \A X \in Inv : step[X] \in Inv
    <2> SUFFICES ASSUME NEW X \in Inv, NEW x \in X, NEW s \in Sides, c[x][s] # Null
                 PROVE  c[x][s] \in u[e]
      BY <1>01, <1>02, <1>1
    <2> QED BY <1>1, ChildSmaller
  <1>4. \A X \in Inv : size[X] \in Nat /\ (step[X] = X \/ size[step[X]] < size[X])
    <2> SUFFICES ASSUME NEW X \in Inv PROVE size[X] \in Nat /\ (step[X] = X \/ size[step[X]] < size[X])
      OBVIOUS
    <2> DEFINE Y == step[X]
    <2>1. Y \in Inv /\ X \in SUBSET TreeElem /\ Y \in SUBSET TreeElem /\ X \subseteq Y
      BY <1>02, <1>3
    <2>2. IsFiniteSet(u[e] \ X) /\ Cardinality(u[e] \ X) \in Nat
          /\ Cardinality(u[e] \ Y) \in Nat
      BY <1>1, <1>2, FS_Subset, FS_CardinalityType
    <2>3. CASE X # Y
      <3>1. (u[e] \ Y) \subseteq (u[e] \ X) /\ (u[e] \ Y) # (u[e] \ X)
        BY <2>1, <2>3
      <3> HIDE DEF Y
      <3>2. Cardinality(u[e] \ Y) <= Cardinality(u[e] \ X) /\ Cardinality(u[e] \ Y) # Cardinality(u[e] \ X)
        BY <2>2, <3>1, FS_Subset
      <3>3. size[Y] = Cardinality(u[e] \ Y) /\ size[X] = Cardinality(u[e] \ X)
        BY <1>04, <2>1
      <3>4. size[Y] < size[X] /\ size[X] \in Nat
        BY <2>2, <3>2, <3>3
      <3> QED BY <3>4 DEF Y
    <2> QED BY <1>04, <2>1, <2>2, <2>3
  <1>5. {e} \in Inv /\ size[{e}] <= Cardinality(TreeElem)
    <2>1. {e} \in SUBSET TreeElem /\ size[{e}] = Cardinality(u[e] \ {e})  BY <1>04, <1>1
    <2> QED BY <1>1, <1>2, <2>1, FS_Subset
  <1>6. D \in Inv /\ step[D] = D
    <2> HIDE DEF Inv
    <2> QED BY <1>2, <1>3, <1>4, <1>5, RepeatEnds DEF D
  <1>7. \A x \in D : \A s \in Sides : c[x][s] # Null => c[x][s] \in D
    <2>1. D \in SUBSET TreeElem /\ D = D \cup Kids(D)
      BY <1>02, <1>6
    <2> QED BY <1>01, <2>1
  <1>8. u[e] \subseteq D
    <2> DEFINE T == u[e] \ D
               f == [y \in TreeElem |-> Cardinality(TreeElem) - Cardinality(u[y])]
    <2>0. \A y \in u[e] : /\ Cardinality(u[y]) \in Nat /\ Cardinality(TreeElem) \in Nat
                           /\ Cardinality(u[y]) <= Cardinality(TreeElem)
      BY <1>1, <1>2, FS_Subset, FS_CardinalityType DEF IsTree
    <2>1. \A y \in u[e] : f[y] \in Nat /\ f[y] = Cardinality(TreeElem) - Cardinality(u[y])
      BY <1>1, <2>0
    <2> SUFFICES ASSUME T # {} PROVE FALSE
      OBVIOUS
    <2>2. PICK y \in T : \A z \in T : f[y] <= f[z]
      <3>1. \A y \in T : f[y] \in Nat  BY <2>1
      <3> HIDE DEF T, f
      <3> QED BY <3>1, LeastValue
    <2>3. y # e  BY <1>6
    <2>4. PICK g \in u[e] : \E s \in Sides : c[g][s] = y
      BY <1>1, <2>3, HasParent
    <2>5. y # Null  BY <1>1 DEF ElementsFit
    <2>6. g \in T  BY <1>7, <2>4, <2>5
    <2>7. Cardinality(u[y]) < Cardinality(u[g])
      BY <1>1, <2>4, ChildSmaller
    <2> HIDE DEF T, f
    <2> QED BY <2>0, <2>1, <2>2, <2>4, <2>6, <2>7 DEF T
  <1>9. Below(t, e) = D
    <2>1. {e} \ {Null} = {e}  BY <1>1
    <2> QED BY <1>03, <2>1 DEF D
  <1> QED BY <1>6, <1>8, <1>9

LEMMA BelowNull ==
  ASSUME IsFiniteSet(TreeElem), NEW t
  PROVE  Below(t, Null) = {}
  <1> DEFINE step == [X \in SUBSET TreeElem |-> X \cup ({t.child[x][s] : x \in X, s \in Sides} \ {Null})]
             size == [X \in {{}} |-> 0]
  <1>1. step[{}] = {} /\ {Null} \ {Null} = {} /\ size[{}] = 0
    OBVIOUS
  <1>4. Below(t, Null) = Repeat(step, {Null} \ {Null})
    BY DEF Below
  <1>2. Cardinality(TreeElem) \in Nat  BY FS_CardinalityType
  <1> HIDE DEF step, size
  <1>3. Repeat(step, {}) \in {{}}
    <2>1. /\ \A z \in {{}} : step[z] \in {{}}
          /\ \A z \in {{}} : size[z] \in Nat /\ (step[z] = z \/ size[step[z]] < size[z])
          /\ size[{}] <= Cardinality(TreeElem) /\ {} \in {{}}
      BY <1>1, <1>2
    <2> QED BY <2>1, RepeatEnds
  <1> QED BY <1>1, <1>3, <1>4

\* The way down on side s ends at the element before which, on this side, there is none.
LEMMA OutermostIs ==
  ASSUME ElementsFit, NEW t, NEW r, NEW u, IsTree(t.child, r, u), NEW e \in u[r], NEW s \in Sides
  PROVE  /\ Outermost(t, e, s) \in u[e]
         /\ t.child[Outermost(t, e, s)][s] = Null
         /\ \A x \in u[e] : x # Outermost(t, e, s) => On(Other(s), x, Outermost(t, e, s))
  <1> DEFINE c == t.child
             step == [x \in TreeElem |-> IF c[x][s] = Null THEN x ELSE c[x][s]]
             Inv == {x \in u[e] : \A y \in u[e] : y \in u[x] \/ (\A z \in u[x] : On(s, z, y))}
             size == [x \in TreeElem |-> Cardinality(u[x])]
             m == Repeat(step, e)
  <1>0. IsTree(c, e, u)
    BY Subtree
  <1>1. IsTree(c, e, u) /\ e \in u[e] /\ u[e] \subseteq TreeElem /\ Null \notin TreeElem
    BY <1>0 DEF IsTree, ElementsFit
  <1>2. IsFiniteSet(TreeElem)  BY DEF ElementsFit
  <1>3. \A x \in Inv : step[x] \in Inv
    <2> SUFFICES ASSUME NEW x \in Inv, c[x][s] # Null PROVE c[x][s] \in Inv
      BY <1>1
    <2>1. c[x][s] \in u[e]  BY <1>1, <1>1, ChildSmaller
    <2>2. ASSUME NEW y \in u[e], y \notin u[c[x][s]], NEW z \in u[c[x][s]]
          PROVE  On(s, z, y)
      <3>0. x \in u[e] /\ u[c[x][s]] \subseteq u[x]
        BY <1>1, ChildSmaller
      <3>1. z \in u[x] /\ x \in u[x] /\ x \in TreeElem /\ y \in TreeElem /\ z \in TreeElem
        BY <1>1, <2>2, <3>0 DEF IsTree
      <3>2. On(s, z, x)  BY <1>1 DEF IsTree
      <3>3. y \in u[x] => y = x \/ On(s, x, y)
        BY <1>1, <2>2, <3>1, ChildSmaller, OnIsOrder, SidesAre DEF IsTree
      <3> QED BY <3>1, <3>2, <3>3, OnIsOrder
    <2> QED BY <2>1, <2>2
  <1>4. \A x \in Inv : size[x] \in Nat /\ (step[x] = x \/ size[step[x]] < size[x])
    <2> SUFFICES ASSUME NEW x \in Inv
                 PROVE  size[x] \in Nat /\ (c[x][s] # Null => size[c[x][s]] < size[x])
      BY <1>1
    <2>1. Cardinality(u[x]) \in Nat /\ Cardinality(u[c[x][s]]) < Cardinality(u[x])
          /\ (c[x][s] # Null => c[x][s] \in TreeElem) /\ x \in TreeElem
      BY <1>1, ChildSmaller
    <2> QED BY <2>1
  <1>5. e \in Inv /\ size[e] <= Cardinality(TreeElem)
    BY <1>1, <1>2, FS_Subset
  <1>6. m \in Inv /\ step[m] = m
    <2> HIDE DEF step, Inv, size
    <2> QED BY <1>2, <1>3, <1>4, <1>5, RepeatEnds
  <1> HIDE DEF m
  <1>7. c[m][s] = Null /\ m \in u[e]
    BY <1>1, <1>6, ChildSmaller
  <1>8. ASSUME NEW x \in u[e], x # m PROVE On(Other(s), x, m)
    <2>1. m \in u[m] /\ m \in TreeElem /\ x \in TreeElem /\ Other(s) \in Sides  BY <1>1, <1>7, SidesAre DEF IsTree
    <2>2. CASE x \notin u[m]
      BY <1>6, <1>8, <2>1, <2>2, OnIsOrder
    <2>3. CASE x \in u[m]
      <3>1. u[Null] = {}  BY DEF IsTree
      <3>2. x \in u[c[m][Other(s)]]
        BY <1>1, <1>7, <1>8, <2>3, <3>1, ChildSmaller
      <3> QED BY <1>1, <1>7, <2>1, <3>2 DEF IsTree
    <2> QED BY <2>2, <2>3
  <1>9. Outermost(t, e, s) = m
    BY DEF Outermost, m
  <1> QED BY <1>7, <1>8, <1>9

\* Whoever has x below, has the parent of x below, or is x.
LEMMA ParentBelow ==
  ASSUME ElementsFit, NEW c, NEW r, NEW u, IsTree(c, r, u), NEW e \in u[r], NEW s \in Sides,
         c[e][s] # Null, NEW a \in u[r], c[e][s] \in u[a], a # c[e][s]
  PROVE  e \in u[a]
  <1>1. IsTree(c, a, u) /\ u[a] \subseteq u[r]
    <2>1. IsTree(c, a, u)  BY Subtree
    <2> QED BY <2>1 DEF IsTree
  <1>2. PICK g \in u[a] : \E q \in Sides : c[g][q] = c[e][s]
    BY <1>1, HasParent
  <1>3. g = e  BY <1>1, <1>2, OneParent
  <1> QED BY <1>2, <1>3

-----------------------------------------------------------------------------
(***************************************************************************)
(* Rotations.                                                              *)
(***************************************************************************)
\* The elements next to the place where a tree is rotated.
Place(c, r, u, e, s, o, up, l, inner, outer) ==
  /\ IsTree(c, r, u) /\ e \in u[r] /\ s \in Sides /\ o = Other(s)
  /\ up = c[e][o] /\ up # Null /\ l = c[e][s] /\ inner = c[up][s] /\ outer = c[up][o]

LEMMA TurnParts ==
  ASSUME ElementsFit, NEW c, NEW r, NEW u, NEW e, NEW s, NEW o, NEW up, NEW l, NEW inner, NEW outer,
         Place(c, r, u, e, s, o, up, l, inner, outer)
  PROVE  /\ e \in TreeElem /\ up \in TreeElem /\ e # up /\ o \in Sides /\ o # s /\ Other(o) = s
         /\ \A x \in Sides : x = s \/ x = o
         /\ up \in u[r] /\ up \in u[e] /\ e \notin u[up] /\ e \in u[e] /\ up \in u[up] /\ up # r
         /\ l \in Link /\ inner \in Link /\ outer \in Link
         /\ u[e] = {e} \cup u[l] \cup u[up] /\ u[up] = {up} \cup u[inner] \cup u[outer]
         /\ e \notin u[l] /\ up \notin u[l] /\ u[l] \cap u[up] = {}
         /\ up \notin u[inner] /\ up \notin u[outer] /\ u[inner] \cap u[outer] = {}
         /\ u[e] \subseteq u[r]
         /\ inner # e /\ inner # up /\ l # e /\ l # up /\ outer # e /\ outer # up
         /\ (l # Null => l \in u[l] /\ l \in u[r] /\ l # inner /\ l # outer /\ l # r)
         /\ (inner # Null => inner \in u[inner] /\ inner \in u[r] /\ inner # outer /\ inner # r)
         /\ (outer # Null => outer \in u[outer] /\ outer \in u[r] /\ outer # r)
  <1> USE DEF Place
  <1>1. /\ o \in Sides /\ o # s /\ Other(o) = s /\ \A x \in Sides : x = s \/ x = o
    BY SidesAre
  <1>2. /\ e \in TreeElem /\ l \in Link /\ u[l] \subseteq u[e] /\ e \notin u[l]
        /\ u[l] \cap u[up] = {} /\ u[e] = {e} \cup u[l] \cup u[up]
        /\ (l # Null => l \in u[r] /\ l # e)
    BY ChildSmaller
  <1>3. e \notin u[up] /\ up \in u[r] /\ up \in u[e] /\ up # e
    BY <1>1, ChildSmaller
  <1>4. /\ up \in TreeElem /\ inner \in Link /\ up \notin u[inner] /\ u[inner] \cap u[outer] = {}
        /\ u[up] = {up} \cup u[inner] \cup u[outer] /\ (inner # Null => inner \in u[r] /\ inner # up)
    <2>1. /\ up \in TreeElem /\ c[up][s] \in Link /\ up \notin u[c[up][s]]
          /\ u[c[up][s]] \cap u[c[up][Other(s)]] = {}
          /\ u[up] = {up} \cup u[c[up][s]] \cup u[c[up][Other(s)]]
          /\ (c[up][s] # Null => c[up][s] \in u[r] /\ c[up][s] # up)
      BY ONLY ElementsFit, IsTree(c, r, u), <1>3, s \in Sides, ChildSmaller
    <2>2. c[up][s] = inner /\ c[up][Other(s)] = outer  OBVIOUS
    <2> HIDE DEF IsTree
    <2> QED BY ONLY <2>1, <2>2
  <1>5. /\ outer \in Link /\ up \notin u[outer] /\ (outer # Null => outer \in u[r] /\ outer # up)
    BY <1>1, <1>3, ChildSmaller
  <1>6. e \in u[e] /\ up \in u[up] /\ u[e] \subseteq u[r]
    BY <1>3 DEF IsTree
  <1>7. /\ (l # Null => l \in u[l]) /\ (inner # Null => inner \in u[inner])
        /\ (outer # Null => outer \in u[outer])
    BY SMTT(30), ZenonT(30), <1>2, <1>4, <1>5 DEF IsTree
  <1>8. up # r /\ (l # Null => l # r)
    BY <1>1, OneParent
  <1>9. (inner # Null => inner # r) /\ (outer # Null => outer # r)
    BY <1>1, <1>3, OneParent
  <1>10. Null \notin TreeElem  BY DEF ElementsFit
  <1> HIDE DEF IsTree, ElementsFit
  <1>11. /\ l # up /\ (l # Null => l # inner /\ l # outer)
    BY ONLY <1>2, <1>4, <1>6, <1>7, up # Null
  <1>12. inner # e /\ inner # up /\ l # e /\ outer # e /\ outer # up
    BY ONLY <1>2, <1>3, <1>4, <1>5, <1>7, <1>10
  <1>13. inner # Null => inner # outer
    BY ONLY <1>4, <1>7
  <1>14. up \notin u[l]
    BY ONLY <1>2, <1>6
  <1> QED BY ONLY <1>1, <1>2, <1>3, <1>4, <1>5, <1>6, <1>7, <1>8, <1>9, <1>11, <1>12, <1>13, <1>14

\* The rotated tree: d are the children, q is the root, and only e and the child that takes
\* its place change their sets.
Turned(c, r, u, e, s, o, up, l, inner, outer, d, q, v) ==
  /\ Place(c, r, u, e, s, o, up, l, inner, outer)
  /\ q = IF e = r THEN up ELSE r
  /\ \A x \in Sides : d[e][x] = IF x = o THEN inner ELSE l
  /\ \A x \in Sides : d[up][x] = IF x = s THEN e ELSE outer
  /\ \A a \in u[r] : a # e /\ a # up =>
       \A x \in Sides : d[a][x] = IF c[a][x] = e THEN up ELSE c[a][x]
  /\ v = [u EXCEPT ![up] = u[e], ![e] = {e} \cup u[l] \cup u[inner]]

\* It is a tree.
LEMMA Turn ==
  ASSUME ElementsFit, NEW c, NEW r, NEW u, NEW e, NEW s, NEW o, NEW up, NEW l, NEW inner, NEW outer,
         NEW d, NEW q, NEW v, Turned(c, r, u, e, s, o, up, l, inner, outer, d, q, v)
  PROVE  /\ IsTree(d, q, v) /\ v[q] = u[r]
         /\ \A a \in Link : a # e /\ a # up => v[a] = u[a]
         /\ v[up] = u[e] /\ v[e] = {e} \cup u[l] \cup u[inner]
  <1> DEFINE X == u[r]
  <1>00. /\ Place(c, r, u, e, s, o, up, l, inner, outer) /\ q = (IF e = r THEN up ELSE r)
         /\ v = [u EXCEPT ![up] = u[e], ![e] = {e} \cup u[l] \cup u[inner]]
    BY DEF Turned
  <1>01. /\ \A x \in Sides : d[e][x] = IF x = o THEN inner ELSE l
         /\ \A x \in Sides : d[up][x] = IF x = s THEN e ELSE outer
         /\ \A a \in X : a # e /\ a # up =>
              \A x \in Sides : d[a][x] = IF c[a][x] = e THEN up ELSE c[a][x]
    BY DEF Turned
  <1>0. IsTree(c, r, u) /\ e \in X /\ s \in Sides /\ c[e][o] = up /\ c[up][s] = inner /\ c[up][o] = outer
        /\ c[e][s] = l /\ up # Null /\ o = Other(s)
    BY <1>00 DEF Place
  <1>1. /\ e \in TreeElem /\ up \in TreeElem /\ e # up /\ o \in Sides /\ o # s /\ Other(o) = s
        /\ \A x \in Sides : x = s \/ x = o
        /\ up \in X /\ up \in u[e] /\ e \notin u[up] /\ e \in u[e] /\ up \in u[up] /\ up # r
        /\ l \in Link /\ inner \in Link /\ outer \in Link
    BY <1>00, TurnParts
  <1>2. /\ u[e] = {e} \cup u[l] \cup u[up] /\ u[up] = {up} \cup u[inner] \cup u[outer]
        /\ e \notin u[l] /\ up \notin u[l] /\ u[l] \cap u[up] = {}
        /\ up \notin u[inner] /\ up \notin u[outer] /\ u[inner] \cap u[outer] = {}
        /\ u[e] \subseteq X
    <2>1. u[e] = {e} \cup u[l] \cup u[up] /\ u[up] = {up} \cup u[inner] \cup u[outer]
      BY <1>00, TurnParts
    <2>2. e \notin u[l] /\ up \notin u[l] /\ u[l] \cap u[up] = {}
      BY <1>00, TurnParts
    <2>3. up \notin u[inner] /\ up \notin u[outer] /\ u[inner] \cap u[outer] = {} /\ u[e] \subseteq X
      BY <1>00, TurnParts
    <2> QED BY <2>1, <2>2, <2>3
  <1>3. /\ inner # e /\ inner # up /\ l # e /\ l # up /\ outer # e /\ outer # up
        /\ (l # Null => l \in u[l] /\ l \in X) /\ (inner # Null => inner \in u[inner] /\ inner \in X)
        /\ (outer # Null => outer \in u[outer] /\ outer \in X)
    BY <1>00, TurnParts
  <1>4. /\ u \in [Link -> SUBSET TreeElem] /\ u[Null] = {} /\ Null \notin TreeElem
        /\ X \subseteq TreeElem /\ r \in Link /\ r # Null /\ r \in X
        /\ \A a \in X : a \in u[a] /\ u[a] \subseteq X
        /\ \A a \in X : \A x \in u[a] : u[x] \subseteq u[a]
    BY <1>0 DEF IsTree, ElementsFit
  <1>5. \A a \in X : \A x \in Sides : \A y \in u[c[a][x]] : On(x, y, a)
    BY <1>0 DEF IsTree
  <1>6. \A a \in X : \A x \in Sides :
          c[a][x] \in Link /\ (c[a][x] # Null => c[a][x] \in u[c[a][x]])
    BY <1>0 DEF IsTree
  <1>7. /\ v \in [Link -> SUBSET TreeElem] /\ v[up] = u[e] /\ v[e] = {e} \cup u[l] \cup u[inner]
        /\ \A a \in Link : a # e /\ a # up => v[a] = u[a]
    BY <1>00, <1>1, <1>4 DEF Link
  <1>8. q \in Link /\ q # Null /\ v[q] = X
    BY <1>00, <1>1, <1>4, <1>7 DEF Link
  <1>9. v[inner] = u[inner] /\ v[l] = u[l] /\ v[outer] = u[outer] /\ v[Null] = {}
    BY <1>1, <1>3, <1>4, <1>7 DEF Link
  <1>10. \A a \in X : a \in v[a] /\ v[a] \subseteq X
    BY <1>1, <1>2, <1>4, <1>7 DEF Link
  <1>11. ASSUME NEW a \in X, NEW x \in v[a] PROVE v[x] \subseteq v[a]
    <2>1. x \in X /\ u[x] \subseteq X /\ u[a] \subseteq X /\ a \in Link /\ x \in Link
      BY <1>4, <1>10 DEF Link
    <2>3. CASE a # e /\ a # up
      <3>1. x \in u[a]  BY <1>7, <2>1, <2>3
      <3>2. x = up => e \in u[a]  BY <1>0, <1>1, <2>3, <3>1, ParentBelow
      <3>3. v[x] \subseteq u[x] \/ (x = up /\ v[x] = u[e])
        BY <1>2, <1>7, <2>1
      <3> QED BY <1>4, <1>7, <2>1, <2>3, <3>1, <3>2, <3>3
    <2>4. CASE a = up
      <3>1. \A z \in u[e] : u[z] \subseteq u[e]  BY <1>0, <1>4
      <3>2. v[x] \subseteq u[x] \/ v[x] = u[e]
        BY <1>2, <1>7, <2>1
      <3> QED BY <1>7, <2>4, <3>1, <3>2
    <2>5. CASE a = e
      <3>1. x = e \/ x \in u[l] \/ x \in u[inner]  BY <1>7, <2>5
      <3>2. x # up  BY <1>0, <1>1, <1>2, <3>1
      <3>3. x # e => u[x] \subseteq u[l] \/ u[x] \subseteq u[inner]
        BY <1>3, <1>4, <3>1
      <3> QED BY <1>7, <2>1, <2>5, <3>2, <3>3
    <2> QED BY <2>3, <2>4, <2>5
  <1>12. ASSUME NEW a \in X, a # e, a # up, NEW x \in Sides
         PROVE  /\ d[a][x] \in Link /\ v[d[a][x]] = u[c[a][x]]
                /\ (d[a][x] # Null => d[a][x] \in v[d[a][x]])
    <2>1. c[a][x] # up  BY <1>0, <1>1, <1>12, OneParent
    <2>2. d[a][x] = IF c[a][x] = e THEN up ELSE c[a][x]  BY <1>01, <1>12
    <2>3. CASE c[a][x] = e
      BY <1>1, <1>7, <2>2, <2>3 DEF Link
    <2>4. CASE c[a][x] # e
      BY <1>6, <1>7, <2>1, <2>2, <2>4
    <2> QED BY <2>3, <2>4
  <1>13. \A a \in X : \A x \in Sides :
           d[a][x] \in Link /\ (d[a][x] # Null => d[a][x] \in v[d[a][x]])
    <2> SUFFICES ASSUME NEW a \in X, NEW x \in Sides
                 PROVE  d[a][x] \in Link /\ (d[a][x] # Null => d[a][x] \in v[d[a][x]])
      OBVIOUS
    <2>1. CASE a = e  BY <1>01, <1>0, <1>1, <1>3, <1>9, <2>1
    <2>2. CASE a = up
      <3>1. e \in Link /\ e \in v[e]  BY <1>1, <1>7 DEF Link
      <3> QED BY <1>01, <1>0, <1>1, <1>3, <1>9, <2>2, <3>1
    <2> QED BY <1>12, <2>1, <2>2
  <1>14. \A a \in X : v[a] = {a} \cup v[d[a]["left"]] \cup v[d[a]["right"]]
    <2> SUFFICES ASSUME NEW a \in X PROVE v[a] = {a} \cup v[d[a][s]] \cup v[d[a][o]]
      BY <1>0, SidesAre
    <2>1. CASE a = e
      <3>1. d[a][s] = l /\ d[a][o] = inner  BY <1>01, <1>0, <1>1, <2>1
      <3> QED BY <1>7, <1>9, <2>1, <3>1
    <2>2. CASE a = up
      <3>1. d[a][s] = e /\ d[a][o] = outer  BY <1>01, <1>0, <1>1, <2>2
      <3>2. v[a] = u[e] /\ v[d[a][s]] = {e} \cup u[l] \cup u[inner] /\ v[d[a][o]] = u[outer]
        BY <1>7, <1>9, <2>2, <3>1
      <3> QED BY ONLY <1>2, <2>2, <3>2
    <2>3. CASE a # e /\ a # up
      <3>1. u[a] = {a} \cup u[c[a][s]] \cup u[c[a][o]]  BY <1>0, ChildSmaller
      <3>2. v[a] = u[a]  BY <1>4, <1>7, <2>3 DEF Link
      <3> QED BY <1>0, <1>1, <1>12, <2>3, <3>1, <3>2
    <2> QED BY <2>1, <2>2, <2>3
  <1>15. ASSUME NEW a \in X, NEW x \in Sides, NEW y \in v[d[a][x]] PROVE On(x, y, a)
    <2>2. On(o, up, e)  BY <1>0, <1>1, <1>5
    <2>3. CASE a = e
      <3>1. CASE x = o
        <4>1. y \in u[up]  BY <1>01, <1>0, <1>2, <1>9, <2>3, <3>1
        <4> QED BY <1>0, <1>1, <1>5, <2>3, <3>1, <4>1
      <3>2. CASE x # o
        <4>1. y \in u[l] /\ x = s  BY <1>01, <1>0, <1>1, <1>9, <2>3, <3>2
        <4> QED BY <1>0, <1>5, <2>3, <4>1
      <3> QED BY <3>1, <3>2
    <2>4. CASE a = up
      <3>1. On(s, e, up)  BY <1>0, <1>1, <2>2, OnIsOrder
      <3>2. \A w \in u[inner] : On(s, w, up)  BY <1>0, <1>1, <1>5
      <3>3. \A w \in u[l] : On(s, w, e) /\ w \in TreeElem  BY <1>0, <1>1, <1>4, <1>5
      <3>4. \A w \in u[l] : On(s, w, up)  BY <1>0, <1>1, <3>1, <3>3, OnIsOrder
      <3>5. \A w \in u[outer] : On(o, w, up)  BY <1>0, <1>1, <1>5
      <3>6. CASE x = s
        <4>1. y \in {e} \cup u[l] \cup u[inner]  BY <1>01, <1>0, <1>1, <1>7, <2>4, <3>6
        <4> QED BY <2>4, <3>1, <3>2, <3>4, <3>6, <4>1
      <3>7. CASE x # s
        <4>1. x = o /\ y \in u[outer]  BY <1>01, <1>0, <1>1, <1>9, <2>4, <3>7
        <4> QED BY <2>4, <3>5, <4>1
      <3> QED BY <3>6, <3>7
    <2>5. CASE a # e /\ a # up
      BY <1>5, <1>12, <2>5
    <2> QED BY <2>3, <2>4, <2>5
  <1>16. v[q] = u[r]  BY <1>8
  <1>17. IsTree(d, q, v)
    <2>1. q # Null => q \in v[q]  BY <1>00, <1>1, <1>4, <1>8
    <2>2. \A a \in X : \A x \in v[a] : v[x] \subseteq v[a]  BY <1>11
    <2>3. \A a \in X : \A x \in Sides : \A y \in v[d[a][x]] : On(x, y, a)  BY <1>15
    <2> HIDE DEF X
    <2> QED BY ONLY <1>7, <1>8, <1>9, <1>10, <1>13, <1>14, <2>1, <2>2, <2>3 DEF IsTree
  <1> QED BY <1>7, <1>16, <1>17
=============================================================================
