------------------------------ MODULE SplayProofs ------------------------------
(***************************************************************************)
(* Splay trees act on a set and answer rightly, for any number of elements.*)
(***************************************************************************)
EXTENDS Splay, TreesProofs

-----------------------------------------------------------------------------
(***************************************************************************)
(* Trees that are put together.                                            *)
(***************************************************************************)
\* A tree depends on the children of its elements only.
LEMMA SameTree ==
  ASSUME NEW c, NEW r, NEW u, IsTree(c, r, u), NEW d,
         \A a \in u[r] : \A x \in Sides : d[a][x] = c[a][x]
  PROVE  IsTree(d, r, u)
  <1>1. \A a \in u[r] : d[a]["left"] = c[a]["left"] /\ d[a]["right"] = c[a]["right"]
    BY SidesAre
  <1> QED BY <1>1 DEF IsTree

\* x stands over two trees, y on its side s and z on the other one.
Joined(c, x, s, o, y, z, a, b, v) ==
  /\ x \in TreeElem /\ s \in Sides /\ o = Other(s) /\ y = c[x][s] /\ z = c[x][o]
  /\ IsTree(c, y, a) /\ IsTree(c, z, b)
  /\ \A e \in a[y] : On(s, e, x)
  /\ \A e \in b[z] : On(o, e, x)
  /\ v = [e \in Link |-> IF e = x THEN {x} \cup a[y] \cup b[z]
                         ELSE IF e \in a[y] THEN a[e] ELSE IF e \in b[z] THEN b[e] ELSE {}]

LEMMA Join ==
  ASSUME ElementsFit, NEW c, NEW x, NEW s, NEW o, NEW y, NEW z, NEW a, NEW b, NEW v,
         Joined(c, x, s, o, y, z, a, b, v)
  PROVE  IsTree(c, x, v) /\ v[x] = {x} \cup a[y] \cup b[z]
  <1>1. /\ x \in TreeElem /\ s \in Sides /\ o \in Sides /\ o # s /\ y = c[x][s] /\ z = c[x][o]
        /\ IsTree(c, y, a) /\ IsTree(c, z, b) /\ \A q \in Sides : q = s \/ q = o
        /\ x \in Link /\ x # Null /\ Null \in Link
    BY SidesAre DEF Joined, ElementsFit, Link
  <1>2. (\A e \in a[y] : On(s, e, x)) /\ (\A e \in b[z] : On(o, e, x))  BY DEF Joined
  <1>3. /\ a[y] \subseteq TreeElem /\ b[z] \subseteq TreeElem /\ y \in Link /\ z \in Link
        /\ (y # Null => y \in a[y]) /\ (z # Null => z \in b[z]) /\ a[Null] = {} /\ b[Null] = {}
    BY <1>1 DEF IsTree
  <1>4. x \notin a[y] /\ x \notin b[z] /\ a[y] \cap b[z] = {}
    BY <1>1, <1>2, <1>3, OnIsOrder DEF Joined
  <1>5. v = [e \in Link |-> IF e = x THEN {x} \cup a[y] \cup b[z]
                            ELSE IF e \in a[y] THEN a[e] ELSE IF e \in b[z] THEN b[e] ELSE {}]
    BY DEF Joined
  <1>6. /\ \A e \in a[y] : a[e] \subseteq a[y] /\ e \in a[e]
        /\ \A e \in b[z] : b[e] \subseteq b[z] /\ e \in b[e]
    BY <1>1 DEF IsTree
  <1>7. /\ v[x] = {x} \cup a[y] \cup b[z] /\ v[Null] = {}
        /\ \A e \in a[y] : v[e] = a[e]
        /\ \A e \in b[z] : v[e] = b[e]
    <2>1. \A e \in a[y] \cup b[z] : e \in Link /\ e # Null /\ e # x  BY <1>3, <1>4 DEF Link, ElementsFit
    <2>2. Null \notin a[y] /\ Null \notin b[z]  BY <2>1
    <2> QED BY <1>1, <1>4, <1>5, <2>1, <2>2
  <1>8. v \in [Link -> SUBSET TreeElem]
    <2> SUFFICES ASSUME NEW e \in Link PROVE v[e] \subseteq TreeElem
      BY <1>5
    <2>1. e \in a[y] => a[e] \subseteq TreeElem  BY <1>3, <1>6
    <2>2. e \in b[z] => b[e] \subseteq TreeElem  BY <1>3, <1>6
    <2> QED BY <1>1, <1>3, <1>5, <2>1, <2>2
  <1>9. v[y] = a[y] /\ v[z] = b[z]  BY <1>3, <1>7
  <1>10. \A e \in v[x] : e \in v[e] /\ v[e] \subseteq v[x]  BY <1>6, <1>7
  <1>11. \A e \in v[x] : \A f \in v[e] : v[f] \subseteq v[e]
    <2>1. \A e \in a[y] : \A f \in a[e] : f \in a[y] /\ a[f] \subseteq a[e]  BY <1>1, <1>6 DEF IsTree
    <2>2. \A e \in b[z] : \A f \in b[e] : f \in b[z] /\ b[f] \subseteq b[e]  BY <1>1, <1>6 DEF IsTree
    <2> QED BY <1>7, <1>10, <2>1, <2>2
  <1>12. /\ \A e \in a[y] : \A q \in Sides :
              c[e][q] \in Link /\ (c[e][q] # Null => c[e][q] \in a[c[e][q]]) /\ v[c[e][q]] = a[c[e][q]]
         /\ \A e \in b[z] : \A q \in Sides :
              c[e][q] \in Link /\ (c[e][q] # Null => c[e][q] \in b[c[e][q]]) /\ v[c[e][q]] = b[c[e][q]]
    <2>1. \A e \in a[y] : \A q \in Sides :
            c[e][q] \in Link /\ (c[e][q] # Null => c[e][q] \in a[c[e][q]] /\ c[e][q] \in a[y])
      <3>1. IsTree(c, y, a)  BY <1>1
      <3>2. \A e \in a[y] : \A q \in Sides : c[e][q] # Null => c[e][q] \in a[y]
        BY ONLY ElementsFit, <3>1, ChildSmaller
      <3> QED BY <3>1, <3>2 DEF IsTree
    <2>2. \A e \in b[z] : \A q \in Sides :
            c[e][q] \in Link /\ (c[e][q] # Null => c[e][q] \in b[c[e][q]] /\ c[e][q] \in b[z])
      <3>1. IsTree(c, z, b)  BY <1>1
      <3>2. \A e \in b[z] : \A q \in Sides : c[e][q] # Null => c[e][q] \in b[z]
        BY ONLY ElementsFit, <3>1, ChildSmaller
      <3> QED BY <3>1, <3>2 DEF IsTree
    <2> QED BY <1>3, <1>7, <2>1, <2>2
  <1>13. \A e \in v[x] : \A q \in Sides : c[e][q] \in Link /\ (c[e][q] # Null => c[e][q] \in v[c[e][q]])
    BY <1>1, <1>3, <1>7, <1>9, <1>12
  <1>14. \A e \in v[x] : v[e] = {e} \cup v[c[e]["left"]] \cup v[c[e]["right"]]
    <2>1. "left" \in Sides /\ "right" \in Sides  BY SidesAre
    <2>2. \A e \in a[y] : a[e] = {e} \cup a[c[e]["left"]] \cup a[c[e]["right"]]  BY <1>1 DEF IsTree
    <2>3. \A e \in b[z] : b[e] = {e} \cup b[c[e]["left"]] \cup b[c[e]["right"]]  BY <1>1 DEF IsTree
    <2>4. v[x] = {x} \cup v[c[x][s]] \cup v[c[x][o]]  BY <1>1, <1>7, <1>9
    <2>5. v[x] = {x} \cup v[c[x]["left"]] \cup v[c[x]["right"]]
      BY <1>1, <2>1, <2>4 DEF Sides
    <2>6. \A e \in a[y] : v[e] = {e} \cup v[c[e]["left"]] \cup v[c[e]["right"]]
      BY <1>7, <1>12, <2>1, <2>2
    <2>7. \A e \in b[z] : v[e] = {e} \cup v[c[e]["left"]] \cup v[c[e]["right"]]
      BY <1>7, <1>12, <2>1, <2>3
    <2> QED BY <1>7, <2>5, <2>6, <2>7
  <1>15. \A e \in v[x] : \A q \in Sides : \A f \in v[c[e][q]] : On(q, f, e)
    <2>1. \A e \in a[y] : \A q \in Sides : \A f \in a[c[e][q]] : On(q, f, e)  BY <1>1 DEF IsTree
    <2>2. \A e \in b[z] : \A q \in Sides : \A f \in b[c[e][q]] : On(q, f, e)  BY <1>1 DEF IsTree
    <2>3. \A q \in Sides : \A f \in v[c[x][q]] : On(q, f, x)  BY <1>1, <1>2, <1>9
    <2> QED BY <1>7, <1>12, <2>1, <2>2, <2>3
  <1>16. x \in v[x]  BY <1>7
  <1> QED BY <1>1, <1>7, <1>8, <1>10, <1>11, <1>13, <1>14, <1>15, <1>16 DEF IsTree

\* The tree y is hung on m, the outermost element on side o of the tree r: d are the children
\* then, and v the families.
Extended(c, r, a, m, o, y, b, d, v) ==
  /\ IsTree(c, r, a) /\ m \in a[r] /\ o \in Sides /\ c[m][o] = Null /\ IsTree(c, y, b)
  /\ \A x \in a[r] : x = m \/ On(Other(o), x, m)
  /\ \A x \in a[r] : \A e \in b[y] : On(o, e, x)
  /\ \A x \in a[r] \cup b[y] : \A s \in Sides : d[x][s] = IF x = m /\ s = o THEN y ELSE c[x][s]
  /\ v = [e \in Link |-> IF e \in b[y] THEN b[e]
                         ELSE IF m \in a[e] THEN a[e] \cup b[y] ELSE a[e]]

LEMMA Extend ==
  ASSUME ElementsFit, NEW c, NEW r, NEW a, NEW m, NEW o, NEW y, NEW b, NEW d, NEW v,
         Extended(c, r, a, m, o, y, b, d, v)
  PROVE  IsTree(d, r, v) /\ v[r] = a[r] \cup b[y]
  <1> DEFINE A == a[r]
             B == b[y]
  <1>1. /\ IsTree(c, r, a) /\ m \in A /\ o \in Sides /\ c[m][o] = Null /\ IsTree(c, y, b)
        /\ \A x \in A : x = m \/ On(Other(o), x, m)
        /\ \A x \in A : \A e \in B : On(o, e, x)
    BY DEF Extended
  <1>2. \A x \in A \cup B : \A s \in Sides : d[x][s] = IF x = m /\ s = o THEN y ELSE c[x][s]
    BY DEF Extended
  <1>3. v = [e \in Link |-> IF e \in B THEN b[e] ELSE IF m \in a[e] THEN a[e] \cup B ELSE a[e]]
    BY DEF Extended
  <1>4. /\ a \in [Link -> SUBSET TreeElem] /\ b \in [Link -> SUBSET TreeElem] /\ a[Null] = {} /\ b[Null] = {}
        /\ r \in Link /\ r # Null /\ r \in A /\ y \in Link /\ (y # Null => y \in B)
        /\ A \subseteq TreeElem /\ B \subseteq TreeElem /\ Null \notin TreeElem
        /\ \A e \in A : e \in a[e] /\ a[e] \subseteq A
        /\ \A e \in B : e \in b[e] /\ b[e] \subseteq B
        /\ \A e \in A : \A x \in a[e] : a[x] \subseteq a[e]
        /\ \A e \in B : \A x \in b[e] : b[x] \subseteq b[e]
    BY <1>1 DEF IsTree, ElementsFit
  <1>5. A \cap B = {}
    <2>1. \A e \in A : ~On(o, e, e)  BY <1>1, <1>4, OnIsOrder
    <2> QED BY <1>1, <2>1
  <1>6. /\ v \in [Link -> SUBSET TreeElem] /\ v[Null] = {}
        /\ \A e \in B : v[e] = b[e]
        /\ \A e \in A : v[e] = IF m \in a[e] THEN a[e] \cup B ELSE a[e]
    <2>1. \A e \in A \cup B : e \in Link /\ e # Null  BY <1>4 DEF Link
    <2>2. Null \in Link /\ Null \notin B  BY <1>4 DEF Link
    <2> QED BY <1>3, <1>4, <1>5, <2>1, <2>2
  <1>7. v[r] = A \cup B /\ v[m] = a[m] \cup B  BY <1>1, <1>4, <1>6
  <1> HIDE DEF A, B
  <1>8. \A e \in A \cup B : e \in v[e] /\ v[e] \subseteq A \cup B
    <2>1. \A e \in A : v[e] = a[e] \/ v[e] = a[e] \cup B  BY <1>6
    <2>2. \A e \in A : e \in v[e] /\ v[e] \subseteq A \cup B  BY <1>4, <2>1
    <2>3. \A e \in B : e \in v[e] /\ v[e] \subseteq A \cup B  BY <1>4, <1>6
    <2> QED BY <2>2, <2>3
  <1>9. \A e \in A \cup B : \A x \in v[e] : v[x] \subseteq v[e]
    <2> SUFFICES ASSUME NEW e \in A \cup B, NEW x \in v[e] PROVE v[x] \subseteq v[e]
      OBVIOUS
    <2>1. CASE e \in B
      <3>1. v[e] = b[e] /\ x \in b[e] /\ x \in B  BY <1>4, <1>6, <2>1
      <3> QED BY <1>4, <1>6, <2>1, <3>1
    <2>2. CASE e \in A /\ x \in B
      <3>1. v[e] = a[e] \cup B  BY <1>4, <1>5, <1>6, <2>2
      <3> QED BY <1>4, <1>6, <2>2, <3>1
    <2>3. CASE e \in A /\ x \notin B
      <3>0. v[e] = a[e] \/ v[e] = a[e] \cup B  BY <1>6, <2>3
      <3>1. x \in a[e] /\ x \in A /\ a[x] \subseteq a[e]  BY <1>4, <2>3, <3>0
      <3> QED BY <1>6, <2>3, <3>1
    <2> QED BY <2>1, <2>2, <2>3
  <1>10. /\ \A e \in A : \A s \in Sides : c[e][s] \in Link /\ (c[e][s] # Null => c[e][s] \in a[c[e][s]] /\ c[e][s] \in A)
         /\ \A e \in B : \A s \in Sides : c[e][s] \in Link /\ (c[e][s] # Null => c[e][s] \in b[c[e][s]] /\ c[e][s] \in B)
    <2>1. \A e \in A : \A s \in Sides : c[e][s] \in Link /\ (c[e][s] # Null => c[e][s] \in a[c[e][s]] /\ c[e][s] \in A)
      <3>1. IsTree(c, r, a)  BY <1>1
      <3>2. \A e \in a[r] : \A s \in Sides : c[e][s] # Null => c[e][s] \in a[r]
        BY ONLY ElementsFit, <3>1, ChildSmaller
      <3> QED BY <3>1, <3>2 DEF IsTree, A
    <2>2. \A e \in B : \A s \in Sides : c[e][s] \in Link /\ (c[e][s] # Null => c[e][s] \in b[c[e][s]] /\ c[e][s] \in B)
      <3>1. IsTree(c, y, b)  BY <1>1
      <3>2. \A e \in b[y] : \A s \in Sides : c[e][s] # Null => c[e][s] \in b[y]
        BY ONLY ElementsFit, <3>1, ChildSmaller
      <3> QED BY <3>1, <3>2 DEF IsTree, B
    <2> QED BY <2>1, <2>2
  <1>11. /\ \A e \in B : \A s \in Sides : d[e][s] = c[e][s] /\ v[d[e][s]] = b[c[e][s]]
         /\ \A e \in A : \A s \in Sides : ~(e = m /\ s = o) =>
              d[e][s] = c[e][s] /\ v[d[e][s]] = IF m \in a[c[e][s]] THEN a[c[e][s]] \cup B ELSE a[c[e][s]]
         /\ d[m][o] = y /\ v[y] = B
    <2>1. \A e \in B : \A s \in Sides : d[e][s] = c[e][s] /\ v[d[e][s]] = b[c[e][s]]
      <3>1. \A e \in B : e # m  BY <1>1, <1>5
      <3>2. \A e \in B : \A s \in Sides : d[e][s] = c[e][s]  BY <1>2, <3>1
      <3>3. \A e \in B : \A s \in Sides : v[c[e][s]] = b[c[e][s]]  BY <1>4, <1>6, <1>10
      <3> QED BY <3>2, <3>3
    <2>2. \A e \in A : \A s \in Sides : ~(e = m /\ s = o) =>
            d[e][s] = c[e][s] /\ v[d[e][s]] = IF m \in a[c[e][s]] THEN a[c[e][s]] \cup B ELSE a[c[e][s]]
      <3>1. \A e \in A : \A s \in Sides : ~(e = m /\ s = o) => d[e][s] = c[e][s]  BY <1>2
      <3>2. \A e \in A : \A s \in Sides :
              v[c[e][s]] = IF m \in a[c[e][s]] THEN a[c[e][s]] \cup B ELSE a[c[e][s]]
        BY <1>4, <1>6, <1>10
      <3> QED BY <3>1, <3>2
    <2>3. d[m][o] = y  BY <1>1, <1>2
    <2>4. v[y] = B  BY <1>4, <1>6 DEF B
    <2> QED BY <2>1, <2>2, <2>3, <2>4
  <1>12. \A e \in A \cup B : \A s \in Sides : d[e][s] \in Link /\ (d[e][s] # Null => d[e][s] \in v[d[e][s]])
    <2> SUFFICES ASSUME NEW e \in A \cup B, NEW s \in Sides
                 PROVE  d[e][s] \in Link /\ (d[e][s] # Null => d[e][s] \in v[d[e][s]])
      OBVIOUS
    <2>1. CASE e \in B  BY <1>10, <1>11, <2>1
    <2>2. CASE e = m /\ s = o  BY <1>4, <1>11, <2>2
    <2>3. CASE e \in A /\ ~(e = m /\ s = o)
      <3>1. d[e][s] = c[e][s] /\ (v[d[e][s]] = a[c[e][s]] \cup B \/ v[d[e][s]] = a[c[e][s]])
        BY ZenonT(60), <1>11, <2>3
      <3> QED BY <1>10, <2>3, <3>1
    <2> QED BY <2>1, <2>2, <2>3
  <1>13. \A e \in A \cup B : v[e] = {e} \cup v[d[e]["left"]] \cup v[d[e]["right"]]
    <2> DEFINE p == Other(o)
    <2>0. p \in Sides /\ p # o /\ \A s \in Sides : s = o \/ s = p  BY <1>1, SidesAre
    <2> SUFFICES ASSUME NEW e \in A \cup B PROVE v[e] = {e} \cup v[d[e][o]] \cup v[d[e][p]]
      BY <1>1, <2>0, SidesAre
    <2>1. CASE e \in B
      <3>1. b[e] = {e} \cup b[c[e][o]] \cup b[c[e][p]]  BY <1>1, <2>1, ChildSmaller DEF A, B
      <3> HIDE DEF p
      <3> QED BY <1>1, <1>6, <1>11, <2>0, <2>1, <3>1
    <2>2. CASE e \in A
      <3>1. a[e] = {e} \cup a[c[e][o]] \cup a[c[e][p]]  BY <1>1, <2>2, ChildSmaller DEF A, B
      <3>2. v[e] = IF m \in a[e] THEN a[e] \cup B ELSE a[e]  BY <1>6, <2>2
      <3>3. v[d[e][p]] = IF m \in a[c[e][p]] THEN a[c[e][p]] \cup B ELSE a[c[e][p]]
        BY <1>11, <2>0, <2>2
      <3>4. CASE e = m
        <4>1. v[d[e][o]] = B /\ a[c[e][o]] = {}  BY <1>1, <1>4, <1>11, <3>4
        <4>2. m \notin a[c[e][p]]  BY <1>1, <2>0, <3>4, ChildSmaller DEF A, B
        <4>3. m \in a[e]  BY <1>1, <1>4, <3>4
        <4> QED BY <3>1, <3>2, <3>3, <4>1, <4>2, <4>3
      <3>5. CASE e # m
        <4>1. v[d[e][o]] = IF m \in a[c[e][o]] THEN a[c[e][o]] \cup B ELSE a[c[e][o]]
          BY <1>1, <1>11, <2>2, <3>5
        <4>2. m \in a[e] <=> m \in a[c[e][o]] \/ m \in a[c[e][p]]  BY <3>1, <3>5
        <4> HIDE DEF p
        <4> QED BY <3>1, <3>2, <3>3, <4>1, <4>2
      <3> QED BY <3>4, <3>5
    <2> QED BY <2>1, <2>2
  <1>14. \A e \in A \cup B : \A s \in Sides : \A x \in v[d[e][s]] : On(s, x, e)
    <2> SUFFICES ASSUME NEW e \in A \cup B, NEW s \in Sides, NEW x \in v[d[e][s]] PROVE On(s, x, e)
      OBVIOUS
    <2>1. CASE e \in B
      <3>1. x \in b[c[e][s]]  BY <1>11, <2>1
      <3> QED BY <1>1, <2>1, <3>1 DEF IsTree, A, B
    <2>2. CASE e = m /\ s = o  BY <1>1, <1>11, <2>2
    <2>3. CASE e \in A /\ ~(e = m /\ s = o)
      <3>1. x \in a[c[e][s]] \/ (x \in B /\ m \in a[c[e][s]])  BY ZenonT(30), <1>11, <2>3
      <3>2. CASE x \in a[c[e][s]]  BY <1>1, <2>3, <3>2 DEF IsTree, A, B
      <3>3. CASE x \in B /\ m \in a[c[e][s]]
        <4>1. On(s, m, e)  BY <1>1, <2>3, <3>3 DEF IsTree, A, B
        <4>2. e # m  BY <1>1, <2>3, <3>3, ChildSmaller DEF A, B
        <4>3. On(Other(o), e, m)  BY <1>1, <2>3, <4>2
        <4>4. m \in TreeElem /\ e \in TreeElem  BY <1>1, <1>4, <2>3
        <4>5. On(o, m, e)  BY <1>1, <4>3, <4>4, OnIsOrder
        <4>6. s = o
          <5>1. s = o \/ s = Other(o)  BY <1>1, SidesAre
          <5>2. ~(On(o, m, e) /\ On(Other(o), m, e))  BY <1>1, <4>4, OnIsOrder
          <5> QED BY <4>1, <4>5, <5>1, <5>2
        <4> QED BY <1>1, <2>3, <3>3, <4>6
      <3> QED BY <3>1, <3>2, <3>3
    <2> QED BY <2>1, <2>2, <2>3
  <1> QED BY <1>4, <1>6, <1>7, <1>8, <1>9, <1>12, <1>13, <1>14 DEF IsTree, A, B

\* What hangs on a child is a tree, if only an empty one.
LEMMA ChildTree ==
  ASSUME NEW c, NEW r, NEW u, IsTree(c, r, u), NEW e \in u[r], NEW s \in Sides
  PROVE  IsTree(c, c[e][s], u)
  <1>1. c[e][s] \in Link /\ u[Null] = {} /\ u \in [Link -> SUBSET TreeElem]  BY DEF IsTree
  <1>2. CASE c[e][s] = Null
    <2>1. \A y : y = Null => IsTree(c, y, u)  BY <1>1 DEF IsTree, Link
    <2> QED BY <1>2, <2>1
  <1>3. CASE c[e][s] # Null
    <2>1. c[e][s] \in u[r]
      <3>1. c[e][s] \in u[c[e][s]]  BY <1>3 DEF IsTree
      <3>2. u[c[e][s]] \subseteq u[e] /\ u[e] \subseteq u[r]  BY SidesAre DEF IsTree, Sides
      <3> QED BY <3>1, <3>2
    <2> QED BY <2>1, Subtree
  <1> QED BY <1>2, <1>3

-----------------------------------------------------------------------------
(***************************************************************************)
(* The state of the loop: the tree that is left, and two trees that hang   *)
(* on __node; the search goes on where they are open.                      *)
(***************************************************************************)
\* The elements of P hang on side o of __node, and m, the outermost of them, or __node if there
\* is none, takes the next one: what its child on that side is does not matter.
HungBy(c, m, o, P, d, a) ==
  /\ IsTree(d, c[Node][o], a) /\ P = a[c[Node][o]] /\ m \in P /\ d[m][o] = Null
  /\ \A x \in P : x = m \/ On(Other(o), x, m)
  /\ \A x \in P : \A s \in Sides : (x = m /\ s = o) \/ d[x][s] = c[x][s]

Hung(c, m, o, P) ==
  \/ m = Node /\ P = {}
  \/ \E d, a : HungBy(c, m, o, P, d, a)

\* The tree y comes to hang on m.
Filled(c, m, o, P, y, b, e) ==
  /\ Hung(c, m, o, P) /\ o \in Sides /\ IsTree(e, y, b)
  /\ \A x \in P : \A s \in Sides : e[x][s] = IF x = m /\ s = o THEN y ELSE c[x][s]
  /\ e[Node][o] = IF m = Node THEN y ELSE c[Node][o]
  /\ \A x \in P : \A z \in b[y] : On(o, z, x)

LEMMA Fill ==
  ASSUME ElementsFit, NodeIsNoElement, NEW c, NEW m, NEW o, NEW P, NEW y, NEW b, NEW e,
         Filled(c, m, o, P, y, b, e)
  PROVE  \E v : IsTree(e, e[Node][o], v) /\ v[e[Node][o]] = P \cup b[y]
  <1>1. /\ Hung(c, m, o, P) /\ o \in Sides /\ IsTree(e, y, b)
        /\ \A x \in P : \A s \in Sides : e[x][s] = IF x = m /\ s = o THEN y ELSE c[x][s]
        /\ e[Node][o] = IF m = Node THEN y ELSE c[Node][o]
        /\ \A x \in P : \A z \in b[y] : On(o, z, x)
    BY DEF Filled
  <1>2. CASE m = Node /\ P = {}
    <2>1. e[Node][o] = y  BY <1>1, <1>2
    <2> QED BY <1>1, <1>2, <2>1
  <1>3. ASSUME NEW d, NEW a, HungBy(c, m, o, P, d, a)
        PROVE  \E v : IsTree(e, e[Node][o], v) /\ v[e[Node][o]] = P \cup b[y]
    <2> DEFINE r == c[Node][o]
               f == [x \in TreeElem |-> IF x \in P THEN d[x] ELSE e[x]]
               v == [x \in Link |-> IF x \in b[y] THEN b[x]
                                    ELSE IF m \in a[x] THEN a[x] \cup b[y] ELSE a[x]]
    <2>1. /\ IsTree(d, r, a) /\ P = a[r] /\ m \in P /\ d[m][o] = Null
          /\ \A x \in P : x = m \/ On(Other(o), x, m)
          /\ \A x \in P : \A s \in Sides : (x = m /\ s = o) \/ d[x][s] = c[x][s]
      BY <1>3 DEF HungBy
    <2>2. P \subseteq TreeElem /\ b[y] \subseteq TreeElem /\ m \in TreeElem /\ m # Node
      BY <1>1, <2>1 DEF IsTree, NodeIsNoElement, Link
    <2>3. P \cap b[y] = {}
      <3>1. \A x \in P : ~On(o, x, x)  BY <1>1, <2>2, OnIsOrder
      <3> QED BY <1>1, <3>1
    <2>4. /\ \A x \in P : \A s \in Sides : f[x][s] = d[x][s]
          /\ \A x \in b[y] : \A s \in Sides : f[x][s] = e[x][s]
      BY <2>2, <2>3
    <2>5. f[m][o] = Null  BY <2>1, <2>2
    <2> HIDE DEF f, r
    <2>6. IsTree(f, r, a)  BY <2>1, <2>4, SameTree
    <2>7. IsTree(f, y, b)  BY <1>1, <2>4, SameTree
    <2>8. \A x \in a[r] \cup b[y] : \A s \in Sides : e[x][s] = IF x = m /\ s = o THEN y ELSE f[x][s]
      <3>1. \A x \in P : \A s \in Sides : e[x][s] = IF x = m /\ s = o THEN y ELSE f[x][s]
        BY <1>1, <2>1, <2>4
      <3>2. \A x \in b[y] : \A s \in Sides : x # m /\ e[x][s] = f[x][s]  BY <2>1, <2>3, <2>4
      <3> QED BY <2>1, <3>1, <3>2
    <2>9. Extended(f, r, a, m, o, y, b, e, v)
      BY <1>1, <2>1, <2>5, <2>6, <2>7, <2>8 DEF Extended
    <2> HIDE DEF v
    <2>10. IsTree(e, r, v) /\ v[r] = a[r] \cup b[y]  BY <2>9, Extend
    <2>11. e[Node][o] = r  BY <1>1, <2>2 DEF r
    <2> QED BY <2>1, <2>10, <2>11
  <1> QED BY <1>1, <1>2, <1>3 DEF Hung

\* The root x comes to hang on m, without what is on its side o: m is x then.
Hooked(c, m, o, p, P, x, u, e, Q) ==
  /\ Hung(c, m, o, P) /\ o \in Sides /\ p = Other(o) /\ x \in TreeElem /\ IsTree(c, x, u)
  /\ m \notin u[x]
  /\ \A a \in TreeElem \cup {Node} : \A s \in Sides : e[a][s] = IF a = m /\ s = o THEN x ELSE c[a][s]
  /\ \A a \in P : \A z \in u[x] : On(o, z, a)
  /\ Q = P \cup {x} \cup u[c[x][p]]

LEMMA HookKeeps ==
  ASSUME ElementsFit, NodeIsNoElement, NEW c, NEW m, NEW o, NEW p, NEW P, NEW x, NEW u, NEW e, NEW Q,
         Hooked(c, m, o, p, P, x, u, e, Q)
  PROVE  Hung(e, x, o, Q)
  <1>1. /\ Hung(c, m, o, P) /\ o \in Sides /\ p = Other(o) /\ x \in TreeElem /\ IsTree(c, x, u)
        /\ m \notin u[x]
        /\ \A a \in TreeElem \cup {Node} : \A s \in Sides : e[a][s] = IF a = m /\ s = o THEN x ELSE c[a][s]
        /\ \A a \in P : \A z \in u[x] : On(o, z, a)
        /\ Q = P \cup {x} \cup u[c[x][p]]
    BY DEF Hooked
  <1>2. /\ p \in Sides /\ p # o /\ Other(p) = o /\ \A s \in Sides : s = o \/ s = p
    BY <1>1, SidesAre
  <1>3. x \in u[x] /\ x \in Link /\ x # Null /\ x # Node /\ u[x] \subseteq TreeElem /\ Null \in Link /\ x # m
    BY <1>1 DEF IsTree, Link, ElementsFit, NodeIsNoElement
  <1> DEFINE z == c[x][p]
             f == [a \in TreeElem \cup {Node} |-> [s \in Sides |-> IF a = x /\ s = o THEN Null ELSE e[a][s]]]
             b == [a \in Link |-> IF a = x THEN {x} \cup u[Null] \cup u[z]
                                  ELSE IF a \in u[Null] THEN u[a] ELSE IF a \in u[z] THEN u[a] ELSE {}]
  <1>4. /\ \A a \in TreeElem \cup {Node} : \A s \in Sides :
             f[a][s] = IF a = x /\ s = o THEN Null ELSE IF a = m /\ s = o THEN x ELSE c[a][s]
        /\ \A a \in TreeElem \cup {Node} : \A s \in Sides : (a = x /\ s = o) \/ f[a][s] = e[a][s]
    BY <1>1
  <1>5. /\ z \in Link /\ u[z] \subseteq u[x] /\ x \notin u[z] /\ u[Null] = {} /\ \A a \in u[z] : On(p, a, x)
        /\ m \notin u[z]
    <2>1. \A s \in Sides : c[x][s] \in Link /\ u[c[x][s]] \subseteq u[x] /\ x \notin u[c[x][s]]
      BY <1>1, <1>3, ChildSmaller
    <2> QED BY <1>1, <1>2, <1>3, <2>1 DEF IsTree
  <1> HIDE DEF f, b, z
  <1>6. IsTree(f, z, u)
    <2>1. IsTree(c, z, u)  BY <1>1, <1>2, <1>3, ChildTree DEF z
    <2>2. \A a \in u[z] : \A s \in Sides : f[a][s] = c[a][s]  BY <1>3, <1>4, <1>5
    <2> QED BY <2>1, <2>2, SameTree
  <1>7. f[x][o] = Null /\ f[x][p] = z  BY <1>1, <1>2, <1>3, <1>4 DEF z
  <1>8. IsTree(f, Null, u)
    <2>1. u \in [Link -> SUBSET TreeElem] /\ u[Null] = {}  BY <1>1 DEF IsTree
    <2> QED BY <1>3, <2>1 DEF IsTree
  <1>9. Joined(f, x, o, p, Null, z, u, u, b)
    BY <1>1, <1>2, <1>5, <1>6, <1>7, <1>8 DEF Joined, b
  <1>10. IsTree(f, x, b) /\ b[x] = {x} \cup u[z]
    <2>1. IsTree(f, x, b) /\ b[x] = {x} \cup u[Null] \cup u[z]  BY <1>9, Join
    <2> QED BY <1>5, <2>1
  <1>11. Q = P \cup b[x] /\ b[x] \subseteq u[x]  BY <1>1, <1>3, <1>5, <1>10 DEF z
  <1>12. P \subseteq TreeElem /\ x \notin P
    <2>1. P \subseteq TreeElem  BY <1>1 DEF Hung, HungBy, IsTree
    <2>2. \A a \in P : ~On(o, a, a)  BY <1>1, <2>1, OnIsOrder
    <2> QED BY <1>1, <1>3, <2>1, <2>2
  <1>13. Filled(c, m, o, P, x, b, f)
    <2>1. \A a \in P : \A s \in Sides : f[a][s] = IF a = m /\ s = o THEN x ELSE c[a][s]
      BY <1>4, <1>12
    <2>2. f[Node][o] = IF m = Node THEN x ELSE c[Node][o]  BY <1>1, <1>3, <1>4
    <2>3. \A a \in P : \A w \in b[x] : On(o, w, a)  BY <1>1, <1>11
    <2> QED BY <1>1, <1>10, <2>1, <2>2, <2>3 DEF Filled
  <1>14. PICK v : IsTree(f, f[Node][o], v) /\ v[f[Node][o]] = P \cup b[x]
    BY <1>13, Fill
  <1>15. f[Node][o] = e[Node][o]  BY <1>1, <1>3, <1>4
  <1>16. \A a \in Q : a = x \/ On(p, a, x)
    <2>1. \A a \in P : On(o, x, a) /\ a \in TreeElem  BY <1>1, <1>3, <1>12
    <2>2. \A a \in P : On(p, a, x)  BY <1>1, <1>3, <2>1, OnIsOrder
    <2> QED BY <1>5, <1>10, <1>11, <2>2
  <1>17. \A a \in Q : \A s \in Sides : (a = x /\ s = o) \/ f[a][s] = e[a][s]
    <2>1. Q \subseteq TreeElem  BY <1>3, <1>11, <1>12
    <2> QED BY <1>4, <2>1
  <1>18. x \in Q  BY <1>1
  <1>19. HungBy(e, x, o, Q, f, v)
    BY <1>1, <1>7, <1>11, <1>14, <1>15, <1>16, <1>17, <1>18 DEF HungBy
  <1> QED BY <1>19 DEF Hung

\* What hangs on __node stays if its pointers do.
LEMMA HungSame ==
  ASSUME NEW c, NEW m, NEW o \in Sides, NEW P, Hung(c, m, o, P), NEW d,
         d[Node][o] = c[Node][o], \A x \in P : \A s \in Sides : (x = m /\ s = o) \/ d[x][s] = c[x][s]
  PROVE  Hung(d, m, o, P)
  <1>1. CASE m = Node /\ P = {}
    BY <1>1 DEF Hung
  <1>2. ASSUME NEW f, NEW a, HungBy(c, m, o, P, f, a) PROVE Hung(d, m, o, P)
    <2>1. \A x \in P : \A s \in Sides : (x = m /\ s = o) \/ f[x][s] = d[x][s]
      BY <1>2 DEF HungBy
    <2>2. HungBy(d, m, o, P, f, a)  BY <1>2, <2>1 DEF HungBy
    <2> QED BY <2>2 DEF Hung
  <1> QED BY <1>1, <1>2 DEF Hung

LEMMA HungPlace ==
  ASSUME NodeIsNoElement, NEW c, NEW m, NEW o, NEW P, Hung(c, m, o, P)
  PROVE  P \subseteq TreeElem /\ (m = Node \/ m \in P) /\ m \in SplayCell
  <1>1. CASE m = Node /\ P = {}
    BY <1>1 DEF SplayCell
  <1>2. ASSUME NEW f, NEW a, HungBy(c, m, o, P, f, a) PROVE P \subseteq TreeElem /\ m \in P
    <2>1. IsTree(f, c[Node][o], a) /\ P = a[c[Node][o]] /\ m \in P  BY <1>2 DEF HungBy
    <2> QED BY <2>1 DEF IsTree
  <1> QED BY <1>1, <1>2 DEF Hung, SplayCell

\* The comparisons go with the order: if the key is not above x, it is below what is above x.
Monotone(cmp) ==
  /\ cmp \in [TreeElem -> {"left", "right", "here"}]
  /\ \A s \in Sides : \A x \in TreeElem : \A y \in TreeElem :
       On(s, x, y) /\ (cmp[x] = s \/ cmp[x] = "here") => cmp[y] = s

LEMMA ComparisonsFit ==
  ASSUME ElementsFit
  PROVE  (\A e \in TreeElem : Monotone(Compare(e))) /\ (\A s \in Sides : Monotone(Always(s)))
  <1>1. ASSUME NEW e \in TreeElem PROVE Monotone(Compare(e))
    <2>1. \A x \in TreeElem : Key[x] \in Int  BY DEF ElementsFit
    <2>2. Compare(e) \in [TreeElem -> {"left", "right", "here"}]  BY DEF Compare
    <2>3. \A x \in TreeElem :
            /\ (Compare(e)[x] = "left") <=> (Key[e] < Key[x])
            /\ (Compare(e)[x] = "right") <=> (Key[x] < Key[e])
            /\ (Compare(e)[x] = "here") <=> (Key[x] = Key[e])
      BY <2>1 DEF Compare
    <2>4. ASSUME NEW s \in Sides, NEW x \in TreeElem, NEW y \in TreeElem,
                 On(s, x, y), Compare(e)[x] = s \/ Compare(e)[x] = "here"
          PROVE  Compare(e)[y] = s
      <3>1. CASE s = "left"
        <4>1. Key[x] < Key[y] /\ (Key[e] < Key[x] \/ Key[x] = Key[e])  BY <2>3, <2>4, <3>1 DEF On
        <4>2. Key[e] < Key[y]  BY <2>1, <4>1
        <4> QED BY <2>3, <3>1, <4>2
      <3>2. CASE s = "right"
        <4>1. Key[y] < Key[x] /\ (Key[x] < Key[e] \/ Key[x] = Key[e])  BY <2>3, <2>4, <3>2 DEF On
        <4>2. Key[y] < Key[e]  BY <2>1, <4>1
        <4> QED BY <2>3, <3>2, <4>2
      <3> QED BY <3>1, <3>2 DEF Sides
    <2> QED BY <2>2, <2>4 DEF Monotone
  <1>2. \A s \in Sides : Monotone(Always(s))  BY DEF Monotone, Always, Sides
  <1> QED BY <1>1, <1>2

\* The tree of the root r is left to search; W[s] are the elements of X that hang on side s of
\* __node, the last of them on M[s], and on whose side s the key is.  k are the children that
\* the elements outside X have.
Searching(c, r, cmp, X, k, u, W, M) ==
  /\ c \in [SplayCell -> [Sides -> Link]] /\ Monotone(cmp) /\ IsTree(c, r, u) /\ r # Null
  /\ W \in [Sides -> SUBSET TreeElem] /\ M \in [Sides -> SplayCell]
  /\ \A s \in Sides : Hung(c, M[s], s, W[s])
  /\ \A s \in Sides : \A p \in W[s] : cmp[p] = s
  /\ \A s \in Sides : \A p \in W[s] : \A x \in u[r] : On(s, x, p)
  /\ X = u[r] \cup W["left"] \cup W["right"]
  /\ \A a \in TreeElem : a \notin X => \A s \in Sides : c[a][s] = k[a][s]

LEMMA SearchApart ==
  ASSUME ElementsFit, NodeIsNoElement, NEW c, NEW r, NEW cmp, NEW X, NEW k, NEW u, NEW W, NEW M,
         Searching(c, r, cmp, X, k, u, W, M)
  PROVE  /\ r \in u[r] /\ u[r] \subseteq TreeElem /\ r \in TreeElem /\ r \in SplayCell /\ Node \notin u[r] /\ X \subseteq TreeElem
         /\ \A s \in Sides : W[s] \subseteq TreeElem /\ W[s] \cap u[r] = {} /\ W[s] \cap W[Other(s)] = {}
         /\ \A s \in Sides : /\ M[s] \in SplayCell /\ (M[s] = Node \/ M[s] \in W[s])
                             /\ M[s] \notin u[r] /\ M[s] \notin W[Other(s)] /\ Node \notin W[s]
         /\ \A s \in Sides : X = u[r] \cup W[s] \cup W[Other(s)]
  <1>1. /\ IsTree(c, r, u) /\ r # Null /\ W \in [Sides -> SUBSET TreeElem]
        /\ \A s \in Sides : Hung(c, M[s], s, W[s])
        /\ \A s \in Sides : \A p \in W[s] : cmp[p] = s
        /\ \A s \in Sides : \A p \in W[s] : \A x \in u[r] : On(s, x, p)
        /\ X = u[r] \cup W["left"] \cup W["right"]
    BY DEF Searching
  <1>2. r \in u[r] /\ u[r] \subseteq TreeElem  BY <1>1 DEF IsTree
  <1>3. Node \notin TreeElem  BY DEF NodeIsNoElement, Link
  <1>4. \A s \in Sides : W[s] \subseteq TreeElem  BY <1>1
  <1>5. \A s \in Sides : W[s] \cap u[r] = {}
    <2>1. \A s \in Sides : \A x \in TreeElem : ~On(s, x, x)  BY OnIsOrder
    <2> QED BY <1>1, <1>2, <2>1
  <1>6. \A s \in Sides : W[s] \cap W[Other(s)] = {}  BY <1>1, SidesAre
  <1>7. \A s \in Sides : M[s] \in SplayCell /\ (M[s] = Node \/ M[s] \in W[s])  BY <1>1, HungPlace
  <1>8. \A s \in Sides : Other(s) \in Sides  BY SidesAre
  <1>9. \A s \in Sides : M[s] \notin u[r] /\ M[s] \notin W[Other(s)] /\ Node \notin W[s]
    <2> SUFFICES ASSUME NEW s \in Sides
                 PROVE  M[s] \notin u[r] /\ M[s] \notin W[Other(s)] /\ Node \notin W[s]
      OBVIOUS
    <2>1. Node \notin W[s] /\ Node \notin u[r] /\ Node \notin W[Other(s)]  BY <1>2, <1>3, <1>4, <1>8
    <2>2. W[s] \cap u[r] = {} /\ W[s] \cap W[Other(s)] = {}  BY <1>5, <1>6
    <2> QED BY <1>7, <2>1, <2>2
  <1>10. \A s \in Sides : X = u[r] \cup W[s] \cup W[Other(s)]  BY <1>1 DEF Sides, Other
  <1>11. X \subseteq TreeElem  BY <1>1, <1>2, <1>4, SidesAre
  <1> QED BY <1>2, <1>3, <1>4, <1>5, <1>6, <1>7, <1>9, <1>10, <1>11 DEF SplayCell

-----------------------------------------------------------------------------
(***************************************************************************)
(* One round of the loop.                                                  *)
(***************************************************************************)
\* The child up of the root on side s is rotated to the top.
Rotated(c, r, s, up, d) ==
  /\ s \in Sides /\ up = c[r][s] /\ up # Null
  /\ d = [c EXCEPT ![r][s] = c[up][Other(s)], ![up][Other(s)] = r]

LEMMA RotateSearch ==
  ASSUME ElementsFit, NodeIsNoElement, NEW c, NEW r, NEW cmp, NEW X, NEW k, NEW u, NEW W, NEW M,
         Searching(c, r, cmp, X, k, u, W, M), NEW s, NEW up, NEW d, Rotated(c, r, s, up, d)
  PROVE  \E v : /\ Searching(d, up, cmp, X, k, v, W, M) /\ v[up] = u[r]
                /\ d[up][s] = c[up][s] /\ v[d[up][s]] = u[c[up][s]]
  <1> DEFINE o == Other(s)
             l == c[r][o]
             inner == c[up][o]
             outer == c[up][s]
             v == [u EXCEPT ![up] = u[r], ![r] = {r} \cup u[l] \cup u[inner]]
  <1>0. /\ s \in Sides /\ up = c[r][s] /\ up # Null
        /\ d = [c EXCEPT ![r][s] = c[up][Other(s)], ![up][Other(s)] = r]
    BY DEF Rotated
  <1> USE <1>0
  <1>1. /\ r \in u[r] /\ u[r] \subseteq TreeElem /\ r \in TreeElem /\ r \in SplayCell /\ Node \notin u[r]
        /\ \A q \in Sides : W[q] \cap u[r] = {} /\ Node \notin W[q] /\ W[q] \subseteq TreeElem
        /\ X = u[r] \cup W[s] \cup W[o]
    BY SearchApart
  <1>2. /\ c \in [SplayCell -> [Sides -> Link]] /\ Monotone(cmp) /\ IsTree(c, r, u) /\ r # Null
        /\ W \in [Sides -> SUBSET TreeElem] /\ M \in [Sides -> SplayCell]
        /\ \A q \in Sides : Hung(c, M[q], q, W[q])
        /\ \A q \in Sides : \A p \in W[q] : cmp[p] = q
        /\ \A q \in Sides : \A p \in W[q] : \A x \in u[r] : On(q, x, p)
        /\ X = u[r] \cup W["left"] \cup W["right"]
        /\ \A a \in TreeElem : a \notin X => \A q \in Sides : c[a][q] = k[a][q]
    BY DEF Searching
  <1>3. o \in Sides /\ o # s /\ s = Other(o) /\ \A x \in Sides : x = o \/ x = s  BY SidesAre
  <1>4. Place(c, r, u, r, o, s, up, l, inner, outer)  BY <1>1, <1>2, <1>3 DEF Place
  <1>5. /\ up \in TreeElem /\ up \in SplayCell /\ r # up /\ up \in u[r] /\ inner # r /\ inner # up /\ outer # r /\ outer # up
        /\ outer \in Link /\ inner \in Link /\ l # r /\ l # up
    <2> HIDE DEF o, l, inner, outer
    <2> QED BY ONLY ElementsFit, <1>4, TurnParts DEF SplayCell
  <1>6. /\ \A x \in Sides : d[r][x] = IF x = s THEN inner ELSE l
        /\ \A x \in Sides : d[up][x] = IF x = o THEN r ELSE outer
        /\ \A a \in SplayCell : a # r /\ a # up => \A x \in Sides : d[a][x] = c[a][x]
        /\ d \in [SplayCell -> [Sides -> Link]]
    <2> HIDE DEF o, l, inner, outer
    <2>1. r \in Link /\ inner \in Link  BY <1>1, <1>5 DEF Link
    <2>2. d = [c EXCEPT ![r][s] = inner, ![up][o] = r]  BY DEF o, inner
    <2>3. c[r][o] = l /\ c[up][s] = outer  BY DEF l, outer
    <2>0. c \in [SplayCell -> [Sides -> Link]] /\ s \in Sides  BY <1>2
    <2>4. d \in [SplayCell -> [Sides -> Link]]
      BY ONLY <1>1, <1>5, <2>0, <2>1, <2>2
    <2>5. d[r][s] = inner /\ d[r][o] = l /\ d[up][s] = outer /\ d[up][o] = r
      BY ONLY <1>1, <1>3, <1>5, <2>0, <2>2, <2>3
    <2>6. \A a \in SplayCell : a # r /\ a # up => d[a] = c[a]
      BY ONLY <1>1, <1>5, <2>0, <2>2
    <2> QED BY ONLY <1>3, <2>4, <2>5, <2>6
  <1>7. \A a \in u[r] : a # r /\ a # up =>
          \A x \in Sides : d[a][x] = IF c[a][x] = r THEN up ELSE c[a][x]
    <2>1. \A a \in u[r] : \A x \in Sides : c[a][x] # r
      <3>1. \A a \in u[r] : \A x \in Sides : c[a][x] = r => c[a][x] # r
        BY <1>1, <1>2, ChildSmaller, OneParent
      <3> QED BY <3>1
    <2> SUFFICES ASSUME NEW a \in u[r], a # r, a # up, NEW x \in Sides
                 PROVE  d[a][x] = IF c[a][x] = r THEN up ELSE c[a][x]
      OBVIOUS
    <2>2. a \in SplayCell  BY <1>1 DEF SplayCell
    <2>3. d[a][x] = c[a][x]  BY ONLY a # r, a # up, x \in Sides, <1>6, <2>2
    <2> QED BY <2>1, <2>3
  <1> HIDE DEF l, inner, outer
  <1>8. Turned(c, r, u, r, o, s, up, l, inner, outer, d, up, v)
    BY <1>4, <1>6, <1>7 DEF Turned
  <1> HIDE DEF v, o
  <1>9. /\ IsTree(d, up, v) /\ v[up] = u[r]
        /\ \A a \in Link : a # r /\ a # up => v[a] = u[a]
    BY <1>8, Turn
  <1>10. \A q \in Sides : Hung(d, M[q], q, W[q])
    <2> SUFFICES ASSUME NEW q \in Sides PROVE Hung(d, M[q], q, W[q])
      OBVIOUS
    <2>1. d[Node][q] = c[Node][q]  BY <1>1, <1>5, <1>6 DEF SplayCell
    <2>2. \A x \in W[q] : \A a \in Sides : d[x][a] = c[x][a]
      <3>1. \A x \in W[q] : x # r /\ x # up /\ x \in SplayCell  BY <1>1, <1>5 DEF SplayCell
      <3> QED BY <1>6, <3>1
    <2>3. Hung(c, M[q], q, W[q])  BY <1>2
    <2>4. \A x \in W[q] : \A a \in Sides : (x = M[q] /\ a = q) \/ d[x][a] = c[x][a]  BY <2>2
    <2> QED BY ONLY q \in Sides, <2>1, <2>3, <2>4, HungSame
  <1>11. \A a \in TreeElem : a \notin X => \A q \in Sides : d[a][q] = k[a][q]
    <2>1. \A a \in TreeElem : a \notin X => a # r /\ a # up /\ a \in SplayCell  BY <1>1, <1>2, <1>5 DEF SplayCell
    <2> SUFFICES ASSUME NEW a \in TreeElem, a \notin X, NEW q \in Sides PROVE d[a][q] = k[a][q]
      OBVIOUS
    <2>2. a # r /\ a # up /\ a \in SplayCell  BY <2>1
    <2>3. d[a][q] = c[a][q]  BY ONLY q \in Sides, <1>6, <2>2
    <2>4. c[a][q] = k[a][q]  BY <1>2
    <2> QED BY <2>3, <2>4
  <1>12. Searching(d, up, cmp, X, k, v, W, M)
    BY <1>2, <1>6, <1>9, <1>10, <1>11 DEF Searching
  <1>13. d[up][s] = outer /\ v[outer] = u[outer] /\ outer = c[up][s]
    <2>1. d[up][s] = outer  BY ONLY s \in Sides, <1>3, <1>6
    <2>2. v[outer] = u[outer]  BY ONLY <1>5, <1>9
    <2>3. outer = c[up][s]  BY DEF outer
    <2> QED BY <2>1, <2>2, <2>3
  <1> QED BY <1>9, <1>12, <1>13
\* The root is hung on the element that is open on side s, and its child there is the root.
HungUp(c, r, cmp, s, y, M, d, N) ==
  /\ s \in Sides /\ cmp[r] = s /\ y = c[r][s] /\ y # Null
  /\ d = [c EXCEPT ![M[s]][s] = r] /\ N = [M EXCEPT ![s] = r]

LEMMA HookSearch ==
  ASSUME ElementsFit, NodeIsNoElement, NEW c, NEW r, NEW cmp, NEW X, NEW k, NEW u, NEW W, NEW M,
         Searching(c, r, cmp, X, k, u, W, M), NEW s, NEW y, NEW d, NEW N,
         HungUp(c, r, cmp, s, y, M, d, N)
  PROVE  \E V : Searching(d, y, cmp, X, k, u, V, N)
  <1> DEFINE o == Other(s)
             z == c[r][o]
             Q == W[s] \cup {r} \cup u[z]
             V == [W EXCEPT ![s] = Q]
  <1>0. /\ s \in Sides /\ cmp[r] = s /\ y = c[r][s] /\ y # Null
        /\ d = [c EXCEPT ![M[s]][s] = r] /\ N = [M EXCEPT ![s] = r]
    BY DEF HungUp
  <1> USE <1>0
  <1>1. /\ r \in u[r] /\ u[r] \subseteq TreeElem /\ r \in TreeElem /\ r \in SplayCell /\ Node \notin u[r]
        /\ \A q \in Sides : W[q] \subseteq TreeElem /\ W[q] \cap u[r] = {} /\ Node \notin W[q]
        /\ \A q \in Sides : M[q] \in SplayCell /\ M[q] \notin u[r]
        /\ \A q \in Sides : X = u[r] \cup W[q] \cup W[Other(q)]
        /\ \A q \in Sides : M[q] = Node \/ M[q] \in W[q]
        /\ \A q \in Sides : M[q] \notin W[Other(q)]
    BY SearchApart
  <1>2. /\ c \in [SplayCell -> [Sides -> Link]] /\ Monotone(cmp) /\ IsTree(c, r, u) /\ r # Null
        /\ W \in [Sides -> SUBSET TreeElem] /\ M \in [Sides -> SplayCell]
        /\ \A q \in Sides : Hung(c, M[q], q, W[q])
        /\ \A q \in Sides : \A p \in W[q] : cmp[p] = q
        /\ \A q \in Sides : \A p \in W[q] : \A x \in u[r] : On(q, x, p)
        /\ \A a \in TreeElem : a \notin X => \A q \in Sides : c[a][q] = k[a][q]
    BY DEF Searching
  <1>3. o \in Sides /\ o # s /\ s = Other(o) /\ \A x \in Sides : x = o \/ x = s  BY SidesAre
  <1>4. /\ y \in u[r] /\ u[y] \subseteq u[r] /\ u[y] \cap u[z] = {} /\ u[r] = {r} \cup u[y] \cup u[z]
        /\ r \notin u[y] /\ u[z] \subseteq u[r]
    <2>1. IsTree(c, r, u) /\ r \in u[r]  BY <1>1, <1>2
    <2>2. /\ (c[r][s] # Null => c[r][s] \in u[r]) /\ u[c[r][s]] \subseteq u[r] /\ r \notin u[c[r][s]]
          /\ u[c[r][s]] \cap u[c[r][Other(s)]] = {}
          /\ u[r] = {r} \cup u[c[r][s]] \cup u[c[r][Other(s)]]
      BY ONLY ElementsFit, <2>1, s \in Sides, ChildSmaller
    <2>3. c[r][s] = y /\ c[r][Other(s)] = z /\ y # Null  OBVIOUS
    <2> HIDE DEF z
    <2> QED BY ONLY <2>2, <2>3
  <1>5. /\ \A x \in u[y] : On(s, x, r) /\ cmp[x] \in {"left", "right", "here"} /\ x \in TreeElem
        /\ \A x \in u[z] : On(o, x, r) /\ x \in TreeElem
    BY <1>1, <1>2, <1>3, <1>4 DEF IsTree, Monotone
  <1>6. /\ d \in [SplayCell -> [Sides -> Link]] /\ N \in [Sides -> SplayCell] /\ V \in [Sides -> SUBSET TreeElem]
        /\ \A a \in SplayCell : \A q \in Sides : d[a][q] = IF a = M[s] /\ q = s THEN r ELSE c[a][q]
        /\ N[s] = r /\ N[o] = M[o] /\ V[s] = Q /\ V[o] = W[o]
    <2>1. r \in Link /\ Q \in SUBSET TreeElem  BY <1>1, <1>4 DEF Link
    <2> HIDE DEF Q, o
    <2>2. /\ d \in [SplayCell -> [Sides -> Link]]
          /\ \A a \in SplayCell : \A q \in Sides : d[a][q] = IF a = M[s] /\ q = s THEN r ELSE c[a][q]
      BY <1>2, <2>1
    <2>3. N \in [Sides -> SplayCell] /\ N[s] = r /\ N[o] = M[o]  BY <1>1, <1>2, <1>3
    <2>4. V \in [Sides -> SUBSET TreeElem] /\ V[s] = Q /\ V[o] = W[o]  BY <1>2, <1>3, <2>1 DEF V
    <2> QED BY <2>2, <2>3, <2>4
  <1> HIDE DEF V
  <1>7. IsTree(d, y, u)
    <2>1. IsTree(c, y, u)  BY <1>2, <1>4, Subtree
    <2>2. \A a \in u[y] : \A x \in Sides : d[a][x] = c[a][x]
      <3>1. \A a \in u[y] : a \in SplayCell /\ a # M[s]  BY <1>1, <1>4 DEF SplayCell
      <3> QED BY <1>6, <3>1
    <2> QED BY ONLY <2>1, <2>2, SameTree
  <1>8. Hung(d, r, s, Q)
    <2>1. Hooked(c, M[s], s, o, W[s], r, u, d, Q)
      <3>1. \A a \in TreeElem \cup {Node} : \A q \in Sides : d[a][q] = IF a = M[s] /\ q = s THEN r ELSE c[a][q]
        BY <1>6 DEF SplayCell
      <3> QED BY <1>1, <1>2, <3>1 DEF Hooked
    <2> HIDE DEF Q, o
    <2> QED BY ONLY ElementsFit, NodeIsNoElement, <2>1, HookKeeps
  <1>9. Hung(d, M[o], o, W[o])
    <2>1. Hung(c, M[o], o, W[o])  BY <1>2, <1>3
    <2>2. d[Node][o] = c[Node][o]  BY <1>3, <1>6 DEF SplayCell
    <2>3. \A x \in W[o] : \A a \in Sides : (x = M[o] /\ a = o) \/ d[x][a] = c[x][a]
      <3>1. \A x \in W[o] : x \in SplayCell /\ x # M[s]  BY <1>1, <1>3 DEF SplayCell
      <3> QED BY <1>6, <3>1
    <2> QED BY ONLY <1>3, <2>1, <2>2, <2>3, HungSame
  <1>10. \A q \in Sides : Hung(d, N[q], q, V[q])
    <2> SUFFICES ASSUME NEW q \in Sides PROVE Hung(d, N[q], q, V[q])
      OBVIOUS
    <2> HIDE DEF Q, o
    <2>1. CASE q = s
      <3>1. N[q] = r /\ V[q] = Q  BY <1>6, <2>1
      <3> QED BY <1>8, <2>1, <3>1
    <2>2. CASE q = o
      <3>1. N[q] = M[o] /\ V[q] = W[o]  BY <1>6, <2>2
      <3> QED BY <1>9, <2>2, <3>1
    <2> QED BY <1>3, <2>1, <2>2
  <1>11. \A p \in Q : cmp[p] = s
    <2>1. \A p \in u[z] : On(s, r, p)  BY <1>1, <1>3, <1>5, OnIsOrder
    <2>2. \A p \in u[z] : cmp[p] = s  BY <1>1, <1>2, <1>5, <2>1 DEF Monotone
    <2>3. \A p \in W[s] : cmp[p] = s  BY <1>2
    <2> HIDE DEF z
    <2> QED BY <2>2, <2>3
  <1>12. \A p \in Q : \A x \in u[y] : On(s, x, p)
    <2>1. \A p \in u[z] : On(s, r, p)  BY <1>1, <1>3, <1>5, OnIsOrder
    <2>2. \A p \in u[z] : \A x \in u[y] : On(s, x, p)  BY <1>1, <1>5, <2>1, OnIsOrder
    <2>3. \A p \in W[s] : \A x \in u[y] : On(s, x, p)  BY <1>2, <1>4
    <2> HIDE DEF z
    <2> QED BY <1>5, <2>2, <2>3
  <1>13. /\ \A q \in Sides : \A p \in V[q] : cmp[p] = q
         /\ \A q \in Sides : \A p \in V[q] : \A x \in u[y] : On(q, x, p)
    <2>1. \A p \in W[o] : cmp[p] = o  BY <1>2, <1>3
    <2>2. \A p \in W[o] : \A x \in u[y] : On(o, x, p)  BY <1>2, <1>3, <1>4
    <2> HIDE DEF Q, o
    <2>3. V[s] = Q /\ V[o] = W[o] /\ \A q \in Sides : q = s \/ q = o  BY <1>3, <1>6
    <2> QED BY ONLY <1>11, <1>12, <2>1, <2>2, <2>3
  <1>14. X = u[y] \cup V["left"] \cup V["right"]
    <2>1. X = u[r] \cup W[s] \cup W[o]  BY <1>1
    <2>2. X = u[y] \cup V[s] \cup V[o]
      <3>1. V[s] = W[s] \cup {r} \cup u[z] /\ V[o] = W[o]  BY <1>6
      <3>2. u[r] = {r} \cup u[y] \cup u[z]  BY <1>4
      <3> HIDE DEF o, z
      <3> QED BY ONLY <2>1, <3>1, <3>2
    <2>3. V[s] \cup V[o] = V["left"] \cup V["right"]  BY DEF Sides, Other
    <2> QED BY <2>2, <2>3
  <1>15. \A a \in TreeElem : a \notin X => \A q \in Sides : d[a][q] = k[a][q]
    <2>1. \A a \in TreeElem : a \notin X => a # M[s] /\ a \in SplayCell
      <3>1. Node \notin TreeElem  BY DEF NodeIsNoElement, Link
      <3> QED BY <1>1, <3>1 DEF SplayCell
    <2> QED BY <1>2, <1>6, <2>1
  <1> HIDE DEF Q, o
  <1>16. Searching(d, y, cmp, X, k, u, V, N)
    BY <1>2, <1>6, <1>7, <1>10, <1>13, <1>14, <1>15 DEF Searching
  <1> QED BY <1>16

\* The states of the loop.
LoopState == [t : SplayTree, l : SplayCell, r : SplayCell]

\* Where the search goes on: to the left of __node hang the elements on the right.
Open(z) == [s \in Sides |-> IF s = "left" THEN z.r ELSE z.l]

InSearch(z, cmp, X, k, u, W) ==
  z \in LoopState /\ Searching(z.t.child, z.t.root, cmp, X, k, u, W, Open(z))

\* How many elements may still be met.
Rest(z, cmp) ==
  IF cmp[z.t.root] = "here" THEN 0
  ELSE Cardinality(Below(z.t, z.t.child[z.t.root][cmp[z.t.root]]))

LEMMA SearchRoot ==
  ASSUME ElementsFit, NodeIsNoElement, NEW z, NEW cmp, NEW X, NEW k, NEW u, NEW W,
         InSearch(z, cmp, X, k, u, W)
  PROVE  /\ z.t \in SplayTree /\ z.l \in SplayCell /\ z.r \in SplayCell /\ z.t.root \in TreeElem /\ z.t.root \in SplayCell
         /\ IsTree(z.t.child, z.t.root, u) /\ z.t.root \in u[z.t.root]
         /\ z.t.child \in [SplayCell -> [Sides -> Link]] /\ z.t.root \in Link /\ z.t.root # Null
         /\ cmp[z.t.root] = "here" \/ cmp[z.t.root] \in Sides
         /\ z = [t |-> z.t, l |-> z.l, r |-> z.r]
         /\ z.t = [root |-> z.t.root, child |-> z.t.child]
  <1>1. z \in LoopState /\ Searching(z.t.child, z.t.root, cmp, X, k, u, W, Open(z))  BY DEF InSearch
  <1>2. z.t \in SplayTree /\ z.l \in SplayCell /\ z.r \in SplayCell /\ z = [t |-> z.t, l |-> z.l, r |-> z.r]
    BY <1>1 DEF LoopState
  <1>3. /\ z.t.child \in [SplayCell -> [Sides -> Link]] /\ z.t.root \in Link
        /\ z.t = [root |-> z.t.root, child |-> z.t.child]
    BY <1>2 DEF SplayTree
  <1>4. z.t.root \in u[z.t.root] /\ z.t.root \in TreeElem /\ z.t.root \in SplayCell
    BY ONLY ElementsFit, NodeIsNoElement, <1>1, SearchApart
  <1>5. IsTree(z.t.child, z.t.root, u) /\ z.t.root # Null /\ Monotone(cmp)  BY <1>1 DEF Searching
  <1>6. cmp[z.t.root] = "here" \/ cmp[z.t.root] \in Sides  BY <1>4, <1>5 DEF Monotone, Sides
  <1> QED BY <1>2, <1>3, <1>4, <1>5, <1>6

\* What is left is what lies below the child to which the comparison points.
LEMMA RestIs ==
  ASSUME ElementsFit, NodeIsNoElement, NEW z, NEW cmp, NEW X, NEW k, NEW u, NEW W,
         InSearch(z, cmp, X, k, u, W)
  PROVE  /\ cmp[z.t.root] = "here" => Rest(z, cmp) = 0
         /\ cmp[z.t.root] # "here" =>
              Rest(z, cmp) = Cardinality(u[z.t.child[z.t.root][cmp[z.t.root]]])
         /\ Rest(z, cmp) \in Nat /\ Rest(z, cmp) <= Cardinality(TreeElem)
  <1> DEFINE c == z.t.child
             r == z.t.root
             y == c[r][cmp[r]]
  <1>1. IsTree(c, r, u) /\ r \in u[r] /\ (cmp[r] = "here" \/ cmp[r] \in Sides)
    BY SearchRoot
  <1>2. cmp[r] = "here" => Rest(z, cmp) = 0  BY DEF Rest
  <1>3. cmp[r] # "here" => Rest(z, cmp) = Cardinality(Below(z.t, y))  BY DEF Rest
  <1>4. IsFiniteSet(TreeElem) /\ Cardinality(TreeElem) \in Nat  BY FS_CardinalityType DEF ElementsFit
  <1> HIDE DEF c, r
  <1>5. ASSUME cmp[r] # "here"
        PROVE  Below(z.t, y) = u[y] /\ Cardinality(u[y]) \in Nat /\ Cardinality(u[y]) <= Cardinality(TreeElem)
    <2>1. cmp[r] \in Sides  BY <1>1, <1>5
    <2>2. y \in Link /\ (y # Null => y \in u[r]) /\ u[Null] = {} /\ u[y] \subseteq TreeElem
      <3>1. c[r][cmp[r]] \in Link /\ (c[r][cmp[r]] # Null => c[r][cmp[r]] \in u[r])
        BY ONLY ElementsFit, <1>1, <2>1, ChildSmaller
      <3> QED BY <1>1, <3>1 DEF IsTree
    <2>3. Below(z.t, y) = u[y]
      <3>1. CASE y = Null
        <4>1. \A x : x = Null => Below(z.t, x) = {}  BY <1>4, BelowNull
        <4> HIDE DEF y
        <4> QED BY <2>2, <3>1, <4>1
      <3>2. CASE y # Null
        <4>1. IsTree(z.t.child, r, u)  BY <1>1 DEF c
        <4>2. \A x \in u[r] : Below(z.t, x) = u[x]  BY ONLY ElementsFit, <4>1, BelowIs
        <4> QED BY <2>2, <3>2, <4>2
      <3> QED BY <3>1, <3>2
    <2> HIDE DEF y
    <2>4. Cardinality(u[y]) \in Nat /\ Cardinality(u[y]) <= Cardinality(TreeElem)
      <3>1. IsFiniteSet(u[y])  BY <1>4, <2>2, FS_Subset
      <3> QED BY <1>4, <2>2, <3>1, FS_Subset, FS_CardinalityType
    <2> QED BY <2>3, <2>4
  <1> HIDE DEF y
  <1>6. CASE cmp[r] = "here"
    BY <1>2, <1>4, <1>6 DEF r
  <1>7. CASE cmp[r] # "here"
    BY <1>3, <1>5, <1>7 DEF r, y, c
  <1> QED BY <1>6, <1>7

LEMMA RotateTree ==
  ASSUME NEW t \in SplayTree, NEW c, NEW r, t = [root |-> r, child |-> c], NEW s, NEW up, up = c[r][s]
  PROVE  /\ SplayRotate(t, s).root = up
         /\ SplayRotate(t, s).child = [c EXCEPT ![r][s] = c[up][Other(s)], ![up][Other(s)] = r]
         /\ r \in SplayCell /\ up \in SplayCell /\ up \in Link /\ s \in Sides => SplayRotate(t, s) \in SplayTree
  <1>1. SplayRotate(t, s).root = up
    BY ONLY t = [root |-> r, child |-> c], up = c[r][s] DEF SplayRotate
  <1>2. SplayRotate(t, s).child = [c EXCEPT ![r][s] = c[up][Other(s)], ![up][Other(s)] = r]
    BY ONLY t = [root |-> r, child |-> c], up = c[r][s] DEF SplayRotate
  <1>3. ASSUME r \in SplayCell, up \in SplayCell, up \in Link, s \in Sides PROVE SplayRotate(t, s) \in SplayTree
    <2> DEFINE x == c[up][Other(s)]
               t1 == [t EXCEPT !.child[r][s] = x]
               t2 == [t1 EXCEPT !.child[up][Other(s)] = r]
    <2>1. Other(s) \in Sides  BY <1>3, SidesAre
    <2>2. x \in Link /\ r \in Link  BY <1>3, <2>1 DEF SplayTree
    <2>3. t1 \in SplayTree
      <3> HIDE DEF x
      <3> QED BY <1>3, <2>2 DEF SplayTree
    <2>4. t2 \in SplayTree
      <3> HIDE DEF t1
      <3> QED BY <1>3, <2>1, <2>2, <2>3 DEF SplayTree
    <2>5. [t2 EXCEPT !.root = up] \in SplayTree
      <3> HIDE DEF t2
      <3> QED BY <1>3, <2>4 DEF SplayTree
    <2>6. SplayRotate(t, s) = [t2 EXCEPT !.root = up]
      BY ONLY t = [root |-> r, child |-> c], up = c[r][s] DEF SplayRotate
    <2> QED BY <2>5, <2>6
  <1> QED BY <1>1, <1>2, <1>3

RotateStep(z, s) == [z EXCEPT !.t = SplayRotate(z.t, s)]

LEMMA RotateRound ==
  ASSUME ElementsFit, NodeIsNoElement, NEW z, NEW cmp, NEW X, NEW k, NEW u, NEW W,
         InSearch(z, cmp, X, k, u, W), NEW s \in Sides, z.t.child[z.t.root][s] # Null,
         NEW z1, z1 = RotateStep(z, s)
  PROVE  \E v : /\ InSearch(z1, cmp, X, k, v, W)
                /\ z1.t.root = z.t.child[z.t.root][s]
                /\ z1.t.child[z1.t.root][s] = z.t.child[z1.t.root][s]
                /\ v[z1.t.child[z1.t.root][s]] = u[z.t.child[z1.t.root][s]]
  <1> DEFINE c == z.t.child
             r == z.t.root
             up == c[r][s]
             d == [c EXCEPT ![r][s] = c[up][Other(s)], ![up][Other(s)] = r]
  <1>1. /\ z.t \in SplayTree /\ z.l \in SplayCell /\ z.r \in SplayCell /\ r \in SplayCell /\ c \in [SplayCell -> [Sides -> Link]]
        /\ IsTree(c, r, u) /\ r \in u[r] /\ r \in Link
        /\ z = [t |-> z.t, l |-> z.l, r |-> z.r] /\ z.t = [root |-> r, child |-> c]
    BY SearchRoot
  <1>2. up \in u[r] /\ up \in TreeElem /\ up \in SplayCell /\ up \in Link
    <2>1. IsTree(c, r, u) /\ r \in u[r]  BY <1>1
    <2>2. up \in u[r]  BY ONLY ElementsFit, <2>1, s \in Sides, up # Null, ChildSmaller
    <2> QED BY <1>1, <2>2 DEF IsTree, SplayCell, Link
  <1>3. SplayRotate(z.t, s) \in SplayTree /\ SplayRotate(z.t, s).root = up /\ SplayRotate(z.t, s).child = d
    <2>1. z.t = [root |-> r, child |-> c] /\ up = c[r][s]  BY <1>1
    <2>2. z.t \in SplayTree /\ r \in SplayCell /\ up \in SplayCell /\ up \in Link  BY <1>1, <1>2
    <2> HIDE DEF c, r, up
    <2> QED BY ONLY <2>1, <2>2, s \in Sides, RotateTree DEF d
  <1>4. z1 = [t |-> SplayRotate(z.t, s), l |-> z.l, r |-> z.r]
    BY <1>1 DEF RotateStep
  <1>6. Searching(c, r, cmp, X, k, u, W, Open(z))  BY DEF InSearch
  <1> HIDE DEF d
  <1>7. \E v : /\ Searching(d, up, cmp, X, k, v, W, Open(z)) /\ v[up] = u[r]
               /\ d[up][s] = c[up][s] /\ v[d[up][s]] = u[c[up][s]]
    <2>1. Rotated(c, r, s, up, d)  BY DEF d, Rotated
    <2> HIDE DEF c, r, up
    <2> QED BY ONLY ElementsFit, NodeIsNoElement, <1>6, <2>1, RotateSearch
  <1>8. Open(z1) = Open(z)  BY <1>4 DEF Open
  <1>9. z1 \in LoopState /\ z1.t.child = d /\ z1.t.root = up
    BY <1>1, <1>3, <1>4 DEF LoopState
  <1>10. PICK v : /\ Searching(d, up, cmp, X, k, v, W, Open(z)) /\ v[up] = u[r]
                  /\ d[up][s] = c[up][s] /\ v[d[up][s]] = u[c[up][s]]
    BY <1>7
  <1>11. InSearch(z1, cmp, X, k, v, W)  BY <1>8, <1>9, <1>10 DEF InSearch
  <1> HIDE DEF up
  <1> QED BY <1>9, <1>10, <1>11 DEF up

LEMMA HookTree ==
  ASSUME NEW t \in SplayTree, NEW c, NEW r, t = [root |-> r, child |-> c], NEW s, NEW m
  PROVE  /\ Hook(t, m, s).root = c[r][s]
         /\ Hook(t, m, s).child = [c EXCEPT ![m][s] = r]
         /\ r \in SplayCell /\ m \in SplayCell /\ r \in Link /\ s \in Sides => Hook(t, m, s) \in SplayTree
  <1>1. Hook(t, m, s).root = c[r][s]
    BY ONLY t = [root |-> r, child |-> c] DEF Hook
  <1>2. Hook(t, m, s).child = [c EXCEPT ![m][s] = r]
    BY ONLY t = [root |-> r, child |-> c] DEF Hook
  <1>3. ASSUME r \in SplayCell, m \in SplayCell, r \in Link, s \in Sides PROVE Hook(t, m, s) \in SplayTree
    <2> DEFINE t1 == [t EXCEPT !.child[m][s] = r]
    <2>1. c[r][s] \in Link  BY <1>3 DEF SplayTree
    <2>2. t1 \in SplayTree  BY <1>3 DEF SplayTree
    <2>3. [t1 EXCEPT !.root = c[r][s]] \in SplayTree
      <3> HIDE DEF t1
      <3> QED BY <2>1, <2>2 DEF SplayTree
    <2>4. Hook(t, m, s) = [t1 EXCEPT !.root = c[r][s]]
      BY ONLY t = [root |-> r, child |-> c] DEF Hook
    <2> QED BY <2>3, <2>4
  <1> QED BY <1>1, <1>2, <1>3

HookStep(z, s) ==
  IF s = "left" THEN [z EXCEPT !.t = Hook(z.t, z.r, s), !.r = z.t.root]
                ELSE [z EXCEPT !.t = Hook(z.t, z.l, s), !.l = z.t.root]

LEMMA HookRound ==
  ASSUME ElementsFit, NodeIsNoElement, NEW z, NEW cmp, NEW X, NEW k, NEW u, NEW W,
         InSearch(z, cmp, X, k, u, W), NEW s \in Sides, cmp[z.t.root] = s,
         z.t.child[z.t.root][s] # Null, NEW z2, z2 = HookStep(z, s)
  PROVE  (\E V : InSearch(z2, cmp, X, k, u, V)) /\ z2.t.root = z.t.child[z.t.root][s]
  <1> DEFINE c == z.t.child
             r == z.t.root
             y == c[r][s]
             M == Open(z)
             d == [c EXCEPT ![M[s]][s] = r]
             N == [M EXCEPT ![s] = r]
  <1>1. /\ z.t \in SplayTree /\ z.l \in SplayCell /\ z.r \in SplayCell /\ r \in SplayCell /\ c \in [SplayCell -> [Sides -> Link]]
        /\ r \in Link /\ z = [t |-> z.t, l |-> z.l, r |-> z.r] /\ z.t = [root |-> r, child |-> c]
    BY SearchRoot
  <1>2. M[s] = (IF s = "left" THEN z.r ELSE z.l) /\ M[s] \in SplayCell  BY <1>1 DEF Open
  <1>3. z2.t = Hook(z.t, M[s], s)
    <2> HIDE DEF M
    <2> QED BY <1>1, <1>2 DEF HookStep
  <1>4. z2 \in LoopState /\ Open(z2) = N
    <2>1. Hook(z.t, M[s], s) \in SplayTree
      <3>1. z.t \in SplayTree /\ r \in SplayCell /\ r \in Link /\ M[s] \in SplayCell /\ z.t = [root |-> r, child |-> c]
        BY <1>1, <1>2
      <3> HIDE DEF r, c, M
      <3> QED BY ONLY <3>1, s \in Sides, HookTree
    <2>2. CASE s = "left"
      <3>1. z2 = [t |-> Hook(z.t, M[s], s), l |-> z.l, r |-> r]
        <4> HIDE DEF M
        <4> QED BY <1>1, <1>2, <2>2 DEF HookStep
      <3>2. Open(z2) = N
        <4>1. M = [q \in Sides |-> IF q = "left" THEN z.r ELSE z.l]  BY DEF Open
        <4>2. Open(z2) = [q \in Sides |-> IF q = "left" THEN r ELSE z.l]  BY <3>1 DEF Open
        <4> HIDE DEF M, r
        <4> QED BY <2>2, <4>1, <4>2 DEF Sides
      <3> QED BY <1>1, <2>1, <3>1, <3>2 DEF LoopState
    <2>3. CASE s = "right"
      <3>1. z2 = [t |-> Hook(z.t, M[s], s), l |-> r, r |-> z.r]
        <4> HIDE DEF M
        <4> QED BY <1>1, <1>2, <2>3 DEF HookStep
      <3>2. Open(z2) = N
        <4>1. M = [q \in Sides |-> IF q = "left" THEN z.r ELSE z.l]  BY DEF Open
        <4>2. Open(z2) = [q \in Sides |-> IF q = "left" THEN z.r ELSE r]  BY <3>1 DEF Open
        <4> HIDE DEF M, r
        <4> QED BY <2>3, <4>1, <4>2 DEF Sides
      <3> QED BY <1>1, <2>1, <3>1, <3>2 DEF LoopState
    <2> QED BY <2>2, <2>3 DEF Sides
  <1>5. z2.t.child = d /\ z2.t.root = y
    <2>1. z.t = [root |-> r, child |-> c]  BY <1>1
    <2>2. z2.t = Hook(z.t, M[s], s)  BY <1>3
    <2> HIDE DEF r, c, M
    <2>3. ASSUME NEW t, t = z.t, NEW m, m = M[s] PROVE Hook(t, m, s).root = y /\ Hook(t, m, s).child = d
      <3>1. t = [root |-> r, child |-> c]  BY <2>1, <2>3
      <3>2. Hook(t, m, s).root = c[r][s] /\ Hook(t, m, s).child = [c EXCEPT ![m][s] = r]
        BY ONLY <3>1 DEF Hook
      <3>3. d = [c EXCEPT ![m][s] = r]  BY ONLY m = M[s]
      <3>4. y = c[r][s]  OBVIOUS
      <3> HIDE DEF y, d
      <3> QED BY ONLY <3>2, <3>3, <3>4
    <2> HIDE DEF y, d
    <2> QED BY <2>2, <2>3
  <1>6. \E V : Searching(d, y, cmp, X, k, u, V, N)
    <2>1. HungUp(c, r, cmp, s, y, M, d, N)  BY DEF HungUp
    <2>2. Searching(c, r, cmp, X, k, u, W, M)  BY DEF InSearch
    <2> HIDE DEF c, r, y, M, d, N
    <2> QED BY ONLY ElementsFit, NodeIsNoElement, <2>1, <2>2, HookSearch
  <1> HIDE DEF d, N, y
  <1>7. PICK V : Searching(d, y, cmp, X, k, u, V, N)  BY <1>6
  <1>8. InSearch(z2, cmp, X, k, u, V)  BY <1>4, <1>5, <1>7 DEF InSearch
  <1> QED BY <1>5, <1>8 DEF y

\* Less is left than the tree has.
LEMMA RestLess ==
  ASSUME ElementsFit, NodeIsNoElement, NEW z, NEW cmp, NEW X, NEW k, NEW u, NEW W,
         InSearch(z, cmp, X, k, u, W)
  PROVE  Rest(z, cmp) < Cardinality(u[z.t.root]) /\ Cardinality(u[z.t.root]) \in Nat
  <1> DEFINE c == z.t.child
             r == z.t.root
  <1>1. IsTree(c, r, u) /\ r \in u[r] /\ (cmp[r] = "here" \/ cmp[r] \in Sides)
    BY SearchRoot
  <1>2. /\ (cmp[r] = "here" => Rest(z, cmp) = 0)
        /\ (cmp[r] # "here" => Rest(z, cmp) = Cardinality(u[c[r][cmp[r]]]))
    BY RestIs
  <1> HIDE DEF c, r
  <1>3. \A s \in Sides : /\ Cardinality(u[r]) \in Nat /\ Cardinality(u[c[r][s]]) \in Nat
                          /\ Cardinality(u[c[r][s]]) < Cardinality(u[r])
    BY ONLY ElementsFit, <1>1, ChildSmaller
  <1>4. Cardinality(u[r]) \in Nat /\ 0 < Cardinality(u[r])
    <2>1. "left" \in Sides  BY DEF Sides
    <2> QED BY <1>3, <2>1
  <1>5. Rest(z, cmp) < Cardinality(u[r])
    <2>1. CASE cmp[r] = "here"  BY <1>2, <1>4, <2>1
    <2>2. CASE cmp[r] # "here"
      <3>1. cmp[r] \in Sides  BY <1>1, <2>2
      <3> QED BY <1>2, <1>3, <2>2, <3>1
    <2> QED BY <2>1, <2>2
  <1> QED BY <1>4, <1>5 DEF r

\* The search ends where the key is, or where it would have to be.
AtEnd(z, cmp) == cmp[z.t.root] = "here" \/ z.t.child[z.t.root][cmp[z.t.root]] = Null

LEMMA RoundIs ==
  ASSUME ElementsFit, NodeIsNoElement, NEW z, NEW cmp, NEW X, NEW k, NEW u, NEW W,
         InSearch(z, cmp, X, k, u, W), NEW z2, z2 = SplayRound(z, cmp)
  PROVE  /\ \E v, V : InSearch(z2, cmp, X, k, v, V)
         /\ \/ z2 = z /\ AtEnd(z, cmp)
            \/ Rest(z2, cmp) < Rest(z, cmp)
  <1> DEFINE c == z.t.child
             r == z.t.root
             s == cmp[r]
             y == c[r][s]
             t1 == IF cmp[y] = s THEN SplayRotate(z.t, s) ELSE z.t
             z1 == [z EXCEPT !.t = t1]
  <1>1. /\ IsTree(c, r, u) /\ r \in u[r] /\ (s = "here" \/ s \in Sides)
        /\ z = [t |-> z.t, l |-> z.l, r |-> z.r]
    BY SearchRoot
  <1>2. z2 = IF s = "here" \/ y = Null THEN z
             ELSE IF t1.child[t1.root][s] = Null THEN z1 ELSE HookStep(z1, s)
    <2>1. z2 = IF s = "here" \/ y = Null THEN z
             ELSE IF t1.child[t1.root][s] = Null THEN z1
             ELSE IF s = "left" THEN [z EXCEPT !.t = Hook(t1, z.r, s), !.r = t1.root]
             ELSE [z EXCEPT !.t = Hook(t1, z.l, s), !.l = t1.root]
      BY Zenon DEF SplayRound
    <2>2. \A t : HookStep([z EXCEPT !.t = t], s) =
             IF s = "left" THEN [z EXCEPT !.t = Hook(t, z.r, s), !.r = t.root]
             ELSE [z EXCEPT !.t = Hook(t, z.l, s), !.l = t.root]
      <3> HIDE DEF s
      <3> QED BY <1>1 DEF HookStep
    <2>3. HookStep(z1, s) =
             IF s = "left" THEN [z EXCEPT !.t = Hook(t1, z.r, s), !.r = t1.root]
             ELSE [z EXCEPT !.t = Hook(t1, z.l, s), !.l = t1.root]
      <3> HIDE DEF t1, s
      <3> QED BY <2>2
    <2> HIDE DEF t1, z1, s, y
    <2> QED BY <2>1, <2>3
  <1>3. CASE s = "here" \/ y = Null
    <2>1. z2 = z  BY <1>2, <1>3
    <2>2. AtEnd(z, cmp)  BY <1>3 DEF AtEnd
    <2> QED BY <2>1, <2>2
  <1>4. CASE ~(s = "here" \/ y = Null)
    <2>1. s \in Sides /\ y # Null  BY <1>1, <1>4
    <2>2. Rest(z, cmp) = Cardinality(u[y])  BY <1>4, RestIs
    <2>3. y \in u[r] /\ Cardinality(u[y]) \in Nat
      <3>1. IsTree(c, r, u) /\ r \in u[r] /\ s \in Sides  BY <1>1, <2>1
      <3> HIDE DEF c, r, s
      <3> QED BY ONLY ElementsFit, <2>1, <3>1, ChildSmaller DEF y
    <2>4. ASSUME NEW v, NEW V, InSearch(z1, cmp, X, k, v, V), z1.t.child[z1.t.root][s] # Null,
                 cmp[z1.t.root] = s,
                 Cardinality(v[z1.t.child[z1.t.root][s]]) <= Cardinality(u[y])
          PROVE  /\ \E w, Z : InSearch(HookStep(z1, s), cmp, X, k, w, Z)
                 /\ Rest(HookStep(z1, s), cmp) < Cardinality(u[y])
      <3> HIDE DEF z1, s, y
      <3>1. /\ \E Z : InSearch(HookStep(z1, s), cmp, X, k, v, Z)
            /\ HookStep(z1, s).t.root = z1.t.child[z1.t.root][s]
        BY <2>1, <2>4, HookRound
      <3>2. PICK Z : InSearch(HookStep(z1, s), cmp, X, k, v, Z)  BY <3>1
      <3>3. /\ Rest(HookStep(z1, s), cmp) < Cardinality(v[HookStep(z1, s).t.root])
            /\ Cardinality(v[HookStep(z1, s).t.root]) \in Nat
            /\ Rest(HookStep(z1, s), cmp) \in Nat
        BY ONLY ElementsFit, NodeIsNoElement, <3>2, RestLess, RestIs
      <3>4. Cardinality(v[HookStep(z1, s).t.root]) <= Cardinality(u[y])  BY <2>4, <3>1
      <3>5. Rest(HookStep(z1, s), cmp) < Cardinality(u[y])
        BY ONLY <2>3, <3>3, <3>4
      <3> QED BY <3>2, <3>5
    <2>5. CASE cmp[y] = s
      <3>1. z1 = RotateStep(z, s) /\ z1.t = t1
        <4> HIDE DEF s, y
        <4> QED BY <1>1, <2>5 DEF RotateStep
      <3> DEFINE y2 == z1.t.child[z1.t.root][s]
      <3>2. PICK v : /\ InSearch(z1, cmp, X, k, v, W) /\ z1.t.root = y
                     /\ y2 = c[z1.t.root][s] /\ v[y2] = u[c[z1.t.root][s]]
        <4>1. z.t.child[z.t.root][s] # Null /\ s \in Sides /\ z1 = RotateStep(z, s)  BY <2>1, <3>1
        <4>2. InSearch(z, cmp, X, k, u, W)  OBVIOUS
        <4> HIDE DEF z1, s
        <4>3. \E v : /\ InSearch(z1, cmp, X, k, v, W)
                     /\ z1.t.root = z.t.child[z.t.root][s]
                     /\ z1.t.child[z1.t.root][s] = z.t.child[z1.t.root][s]
                     /\ v[z1.t.child[z1.t.root][s]] = u[z.t.child[z1.t.root][s]]
          BY ONLY ElementsFit, NodeIsNoElement, <4>1, <4>2, RotateRound
        <4> QED BY <4>3
      <3>3. Cardinality(v[y2]) \in Nat /\ Cardinality(v[y2]) < Cardinality(u[y])
        <4>1. IsTree(c, r, u) /\ s \in Sides /\ y \in u[r]  BY <1>1, <2>1, <2>3
        <4> HIDE DEF c, r, s, y
        <4>2. Cardinality(u[c[y][s]]) \in Nat /\ Cardinality(u[c[y][s]]) < Cardinality(u[y])
          BY ONLY ElementsFit, <4>1, ChildSmaller
        <4>3. v[y2] = u[c[y][s]]  BY <3>2
        <4> HIDE DEF y2
        <4> QED BY <4>2, <4>3
      <3>4. cmp[z1.t.root] = s /\ s # "here"  BY <1>4, <2>5, <3>2
      <3>5. CASE y2 = Null
        <4>1. z2 = z1
          <5> HIDE DEF t1, s, y, z1
          <5>1. t1.child[t1.root][s] = Null  BY <3>1, <3>5
          <5> QED BY <1>2, <1>4, <5>1
        <4>2. Rest(z1, cmp) = Cardinality(v[y2])
          <5> HIDE DEF z1, s
          <5>1. cmp[z1.t.root] # "here" =>
                  Rest(z1, cmp) = Cardinality(v[z1.t.child[z1.t.root][cmp[z1.t.root]]])
            BY <3>2, RestIs
          <5> QED BY <3>4, <5>1
        <4> HIDE DEF z1, y2, y
        <4> QED BY <2>2, <3>2, <3>3, <4>1, <4>2
      <3>6. CASE y2 # Null
        <4>1. z2 = HookStep(z1, s)
          <5> HIDE DEF t1, s, y, z1
          <5>1. t1.child[t1.root][s] # Null  BY <3>1, <3>6
          <5> QED BY <1>2, <1>4, <5>1
        <4>2. Cardinality(v[y2]) <= Cardinality(u[y])
          <5> HIDE DEF y2, y
          <5> QED BY <2>3, <3>3
        <4> HIDE DEF z1, s, y
        <4> QED BY <2>2, <2>4, <3>2, <3>4, <3>6, <4>1, <4>2
      <3> QED BY <3>5, <3>6
    <2>6. CASE cmp[y] # s
      <3>1. z1 = z /\ t1 = z.t
        <4>1. t1 = z.t  BY <2>6
        <4> HIDE DEF t1
        <4> QED BY <1>1, <4>1
      <3>2. z2 = HookStep(z1, s) /\ z1.t.child[z1.t.root][s] # Null /\ cmp[z1.t.root] = s
        <4>1. t1.child[t1.root][s] # Null /\ t1.root = r  BY <1>4, <3>1
        <4>2. z1.t.child[z1.t.root][s] # Null /\ cmp[z1.t.root] = s  BY <1>4, <3>1
        <4> HIDE DEF t1, s, y, z1
        <4> QED BY <1>2, <1>4, <4>1, <4>2
      <3>3. Cardinality(u[z1.t.child[z1.t.root][s]]) <= Cardinality(u[y])
        <4>1. z1.t.child[z1.t.root][s] = y  BY <3>1
        <4> HIDE DEF z1, y, s
        <4> QED BY <2>3, <4>1
      <3>4. InSearch(z1, cmp, X, k, u, W)
        <4> HIDE DEF z1
        <4> QED BY <3>1
      <3> HIDE DEF z1, s, y
      <3> QED BY <2>2, <2>4, <3>2, <3>3, <3>4
    <2> QED BY <2>5, <2>6
  <1> QED BY <1>3, <1>4

-----------------------------------------------------------------------------
(***************************************************************************)
(* The whole search, and the tree that it leaves.                          *)
(***************************************************************************)
LEMMA DescendIs ==
  ASSUME ElementsFit, NodeIsNoElement, NEW t \in SplayTree, NEW u, IsTree(t.child, t.root, u),
         t.root # Null, NEW cmp, Monotone(cmp)
  PROVE  /\ \E v, W : InSearch(Descend(t, cmp), cmp, u[t.root], t.child, v, W)
         /\ AtEnd(Descend(t, cmp), cmp)
  <1> DEFINE X == u[t.root]
             k == t.child
             step == [z \in LoopState |-> SplayRound(z, cmp)]
             size == [z \in LoopState |-> Rest(z, cmp)]
             Inv == {z \in LoopState : \E v, W : InSearch(z, cmp, X, k, v, W)}
             z0 == [t |-> t, l |-> Node, r |-> Node]
             W0 == [s \in Sides |-> {}]
  <1>1. z0 \in Inv
    <2>1. z0 \in LoopState /\ z0.t = t  BY DEF LoopState, SplayCell
    <2>2. \A s \in Sides : Open(z0)[s] = Node  BY DEF Open
    <2>3. Open(z0) \in [Sides -> SplayCell]  BY DEF Open, SplayCell
    <2> HIDE DEF z0
    <2>4. \A s \in Sides : Hung(k, Open(z0)[s], s, W0[s])  BY <2>2 DEF Hung
    <2>5. W0 \in [Sides -> SUBSET TreeElem] /\ \A s \in Sides : W0[s] = {}  OBVIOUS
    <2>6. X = X \cup W0["left"] \cup W0["right"]  BY SidesAre
    <2>7. k \in [SplayCell -> [Sides -> Link]]  BY DEF SplayTree
    <2> HIDE DEF W0
    <2>8. Searching(k, t.root, cmp, X, k, u, W0, Open(z0))
      BY <2>3, <2>4, <2>5, <2>6, <2>7 DEF Searching
    <2>9. InSearch(z0, cmp, X, k, u, W0)  BY <2>1, <2>8 DEF InSearch
    <2> QED BY <2>1, <2>9
  <1>2. ASSUME NEW z \in Inv
        PROVE  /\ step[z] \in Inv
               /\ size[z] \in Nat /\ size[z] <= Cardinality(TreeElem)
               /\ step[z] = z \/ size[step[z]] < size[z]
               /\ step[z] = z => AtEnd(z, cmp)
    <2>1. PICK v, W : InSearch(z, cmp, X, k, v, W)  BY <1>2
    <2>2. z \in LoopState /\ step[z] = SplayRound(z, cmp) /\ size[z] = Rest(z, cmp)  OBVIOUS
    <2> HIDE DEF X, k, step, size
    <2>3. /\ \E w, V : InSearch(step[z], cmp, X, k, w, V)
          /\ \/ step[z] = z /\ AtEnd(z, cmp)
             \/ Rest(step[z], cmp) < Rest(z, cmp)
      BY <2>1, <2>2, RoundIs
    <2>4. step[z] \in LoopState  BY <2>3 DEF InSearch
    <2>5. Rest(z, cmp) \in Nat /\ Rest(z, cmp) <= Cardinality(TreeElem)
      BY ONLY ElementsFit, NodeIsNoElement, <2>1, RestIs
    <2>6. size[step[z]] = Rest(step[z], cmp)  BY <2>4 DEF size
    <2>7. ~(Rest(z, cmp) < Rest(z, cmp))  BY <2>5
    <2> QED BY <2>2, <2>3, <2>4, <2>5, <2>6, <2>7
  <1>3. Descend(t, cmp) = Repeat(step, z0)  BY Zenon DEF Descend, LoopState
  <1>4. IsFiniteSet(TreeElem)  BY DEF ElementsFit
  <1>5. Repeat(step, z0) \in Inv /\ step[Repeat(step, z0)] = Repeat(step, z0)
    <2> HIDE DEF Inv, step, size, z0
    <2>1. size[z0] <= Cardinality(TreeElem)  BY <1>1, <1>2
    <2>2. \A z \in Inv : step[z] \in Inv  BY <1>2
    <2>3. \A z \in Inv : size[z] \in Nat /\ (step[z] = z \/ size[step[z]] < size[z])  BY <1>2
    <2> QED BY ONLY <1>1, <1>4, <2>1, <2>2, <2>3, RepeatEnds
  <1> HIDE DEF step, z0, size
  <1>6. Descend(t, cmp) \in Inv /\ AtEnd(Descend(t, cmp), cmp)
    <2> HIDE DEF Inv
    <2> QED BY <1>2, <1>3, <1>5
  <1> QED BY <1>6

\* What lies to one side of the root has the key on the other side.
Closest(cmp, X, r) == \A s \in Sides : \A x \in X : On(s, x, r) => cmp[x] = Other(s)

LEMMA EndIsClosest ==
  ASSUME ElementsFit, NodeIsNoElement, NEW z, NEW cmp, NEW X, NEW k, NEW u, NEW W,
         InSearch(z, cmp, X, k, u, W), AtEnd(z, cmp)
  PROVE  Closest(cmp, X, z.t.root)
  <1> DEFINE c == z.t.child
             r == z.t.root
  <1>1. Searching(c, r, cmp, X, k, u, W, Open(z))  BY DEF InSearch
  <1>2. /\ IsTree(c, r, u) /\ Monotone(cmp) /\ X = u[r] \cup W["left"] \cup W["right"]
        /\ \A s \in Sides : \A p \in W[s] : cmp[p] = s
        /\ \A s \in Sides : \A p \in W[s] : \A x \in u[r] : On(s, x, p)
    BY <1>1 DEF Searching
  <1>3. /\ r \in u[r] /\ u[r] \subseteq TreeElem /\ r \in TreeElem
        /\ \A s \in Sides : W[s] \subseteq TreeElem
        /\ \A s \in Sides : X = u[r] \cup W[s] \cup W[Other(s)]
    BY <1>1, SearchApart
  <1>4. cmp[r] = "here" \/ (cmp[r] \in Sides /\ c[r][cmp[r]] = Null)
    BY <1>2, <1>3 DEF AtEnd, Monotone, Sides
  <1> HIDE DEF c, r
  <1> SUFFICES ASSUME NEW s \in Sides, NEW x \in X, On(s, x, r) PROVE cmp[x] = Other(s)
    BY DEF Closest, r
  <1>5. Other(s) \in Sides /\ Other(Other(s)) = s /\ Other(s) # s /\ \A q \in Sides : q = s \/ q = Other(s)
    BY SidesAre
  <1>6. x \in TreeElem /\ On(Other(s), r, x)
    <2>1. x \in TreeElem  BY <1>3, <1>5
    <2> QED BY <1>3, <2>1, OnIsOrder
  <1>7. CASE x \in W[s]
    <2>1. On(s, r, x)  BY <1>2, <1>3, <1>7
    <2> QED BY <1>3, <1>6, <2>1, OnIsOrder
  <1>8. CASE x \in W[Other(s)]
    BY <1>2, <1>5, <1>8
  <1>9. CASE x \in u[r]
    <2>1. CASE cmp[r] = "here" \/ cmp[r] = Other(s)
      BY <1>2, <1>3, <1>5, <1>6, <2>1 DEF Monotone
    <2>2. CASE cmp[r] = s /\ c[r][s] = Null
      <3>1. u[r] = {r} \cup u[c[r][s]] \cup u[c[r][Other(s)]] /\ u[Null] = {}
        BY <1>2, <1>3, ChildSmaller DEF IsTree
      <3>2. x = r \/ x \in u[c[r][Other(s)]]  BY <1>9, <2>2, <3>1
      <3>3. x = r \/ On(Other(s), x, r)  BY <1>2, <1>3, <1>5, <3>2 DEF IsTree
      <3> QED BY <1>3, <1>6, <3>3, OnIsOrder
    <2> QED BY <1>4, <1>5, <2>1, <2>2
  <1> QED BY <1>3, <1>7, <1>8, <1>9

\* What is left of the root is appended to what hangs on the right of __node, and the other way
\* round (e), and both come to hang on the root (d).
Assembled(c, r, M, e, d) ==
  /\ \A a \in SplayCell : \A s \in Sides : e[a][s] = IF a = M[s] THEN c[r][Other(s)] ELSE c[a][s]
  /\ \A a \in TreeElem : \A s \in Sides : d[a][s] = IF a = r THEN e[Node][Other(s)] ELSE e[a][s]

LEMMA AssembleSearch ==
  ASSUME ElementsFit, NodeIsNoElement, NEW c, NEW r, NEW cmp, NEW X, NEW k, NEW u, NEW W, NEW M,
         Searching(c, r, cmp, X, k, u, W, M), NEW e, NEW d, Assembled(c, r, M, e, d)
  PROVE  /\ \E v : IsTree(d, r, v) /\ v[r] = X
         /\ \A a \in TreeElem : a \notin X => \A s \in Sides : d[a][s] = k[a][s]
  <1>1. /\ r \in u[r] /\ u[r] \subseteq TreeElem /\ r \in TreeElem /\ r \in SplayCell /\ Node \notin u[r]
        /\ \A s \in Sides : W[s] \subseteq TreeElem /\ W[s] \cap u[r] = {} /\ W[s] \cap W[Other(s)] = {}
        /\ \A s \in Sides : M[s] \in SplayCell /\ (M[s] = Node \/ M[s] \in W[s])
        /\ \A s \in Sides : M[s] \notin u[r] /\ M[s] \notin W[Other(s)] /\ Node \notin W[s]
        /\ \A s \in Sides : X = u[r] \cup W[s] \cup W[Other(s)]
    BY SearchApart
  <1>2. /\ IsTree(c, r, u)
        /\ \A s \in Sides : Hung(c, M[s], s, W[s])
        /\ \A s \in Sides : \A p \in W[s] : \A x \in u[r] : On(s, x, p)
        /\ \A a \in TreeElem : a \notin X => \A s \in Sides : c[a][s] = k[a][s]
    BY DEF Searching
  <1>3. \A a \in SplayCell : \A s \in Sides : e[a][s] = IF a = M[s] THEN c[r][Other(s)] ELSE c[a][s]
    BY DEF Assembled
  <1>4. \A a \in TreeElem : \A s \in Sides : d[a][s] = IF a = r THEN e[Node][Other(s)] ELSE e[a][s]
    BY DEF Assembled
  <1>5. Node \notin TreeElem /\ Node \in SplayCell /\ \A a \in TreeElem : a \in SplayCell
    BY DEF NodeIsNoElement, SplayCell, Link
  <1>6. ASSUME NEW s \in Sides
        PROVE  \E v : /\ IsTree(d, e[Node][s], v) /\ v[e[Node][s]] = W[s] \cup u[c[r][Other(s)]]
                      /\ \A x \in v[e[Node][s]] : On(Other(s), x, r)
    <2> DEFINE o == Other(s)
               y == c[r][o]
               n == e[Node][s]
    <2>1. o \in Sides /\ o # s /\ Other(o) = s /\ \A q \in Sides : q = s \/ q = o  BY SidesAre
    <2>2. IsTree(c, y, u)
      <3>1. IsTree(c, r, u) /\ r \in u[r] /\ o \in Sides  BY <1>1, <1>2, <2>1
      <3> HIDE DEF o
      <3> QED BY ONLY <3>1, ChildTree DEF y
    <2>3. u[y] \subseteq u[r] /\ r \notin u[y] /\ \A x \in u[y] : On(o, x, r)
      <3>1. IsTree(c, r, u) /\ r \in u[r] /\ o \in Sides  BY <1>1, <1>2, <2>1
      <3> HIDE DEF o
      <3>2. u[c[r][o]] \subseteq u[r] /\ r \notin u[c[r][o]]
        BY ONLY ElementsFit, <3>1, ChildSmaller
      <3>3. \A x \in u[c[r][o]] : On(o, x, r)  BY <3>1 DEF IsTree
      <3> QED BY <3>2, <3>3
    <2> HIDE DEF o, y
    <2>4. \A a \in u[r] : \A q \in Sides : e[a][q] = c[a][q]
      <3>1. \A a \in u[r] : \A q \in Sides : a \in SplayCell /\ a # M[q]  BY <1>1, <1>5
      <3> QED BY <1>3, <3>1
    <2>5. IsTree(e, y, u)
      <3>1. \A a \in u[y] : \A q \in Sides : e[a][q] = c[a][q]  BY <2>3, <2>4
      <3> QED BY ONLY <2>2, <3>1, SameTree
    <2>6. Filled(c, M[s], s, W[s], y, u, e)
      <3>1. \A x \in W[s] : \A q \in Sides : e[x][q] = IF x = M[s] /\ q = s THEN y ELSE c[x][q]
        <4>1. \A x \in W[s] : x \in SplayCell /\ x # M[o]  BY <1>1, <1>5, <2>1
        <4>2. \A x \in W[s] : e[x][o] = c[x][o]  BY <1>3, <2>1, <4>1
        <4>3. \A x \in W[s] : e[x][s] = IF x = M[s] THEN y ELSE c[x][s]
          BY <1>3, <4>1 DEF y, o
        <4> QED BY <2>1, <4>2, <4>3
      <3>2. e[Node][s] = IF M[s] = Node THEN y ELSE c[Node][s]  BY <1>3, <1>5 DEF y, o
      <3>3. \A x \in W[s] : \A z \in u[y] : On(s, z, x)  BY <1>2, <2>3
      <3>4. Hung(c, M[s], s, W[s])  BY <1>2
      <3> QED BY <2>5, <3>1, <3>2, <3>3, <3>4 DEF Filled
    <2>7. PICK v : IsTree(e, n, v) /\ v[n] = W[s] \cup u[y]
      <3>1. \E v : IsTree(e, e[Node][s], v) /\ v[e[Node][s]] = W[s] \cup u[y]
        BY ONLY ElementsFit, NodeIsNoElement, <2>6, Fill
      <3> QED BY <3>1
    <2> HIDE DEF n
    <2>8. IsTree(d, n, v)
      <3>1. \A x \in v[n] : x \in TreeElem /\ x # r  BY <1>1, <2>3, <2>7
      <3>2. \A x \in v[n] : \A q \in Sides : d[x][q] = e[x][q]  BY <1>4, <3>1
      <3> QED BY ONLY <2>7, <3>2, SameTree
    <2>9. \A x \in v[n] : On(o, x, r)
      <3>1. \A x \in W[s] : On(s, r, x) /\ x \in TreeElem  BY <1>1, <1>2
      <3>2. \A x \in W[s] : On(o, x, r)  BY <1>1, <3>1, OnIsOrder DEF o
      <3> QED BY <2>3, <2>7, <3>2
    <2> QED BY <2>7, <2>8, <2>9 DEF n, y, o
  <1>7. \E v : IsTree(d, r, v) /\ v[r] = X
    <2> DEFINE y == e[Node]["right"]
               z == e[Node]["left"]
    <2>0. /\ "left" \in Sides /\ "right" \in Sides /\ Other("left") = "right" /\ Other("right") = "left"
      BY DEF Sides, Other
    <2>1. PICK a : /\ IsTree(d, y, a) /\ a[y] = W["right"] \cup u[c[r]["left"]]
                   /\ \A x \in a[y] : On("left", x, r)
      BY <1>6, <2>0
    <2>2. PICK b : /\ IsTree(d, z, b) /\ b[z] = W["left"] \cup u[c[r]["right"]]
                   /\ \A x \in b[z] : On("right", x, r)
      BY <1>6, <2>0
    <2>3. d[r]["left"] = y /\ d[r]["right"] = z  BY <1>1, <1>4, <2>0
    <2> HIDE DEF y, z
    <2> DEFINE v == [x \in Link |-> IF x = r THEN {r} \cup a[y] \cup b[z]
                                    ELSE IF x \in a[y] THEN a[x] ELSE IF x \in b[z] THEN b[x] ELSE {}]
    <2>4. Joined(d, r, "left", "right", y, z, a, b, v)
      BY <1>1, <2>0, <2>1, <2>2, <2>3 DEF Joined
    <2> HIDE DEF v
    <2>5. IsTree(d, r, v) /\ v[r] = {r} \cup a[y] \cup b[z]  BY ONLY ElementsFit, <2>4, Join
    <2>6. u[r] = {r} \cup u[c[r]["left"]] \cup u[c[r]["right"]]  BY <1>1, <1>2 DEF IsTree
    <2>7. X = u[r] \cup W["left"] \cup W["right"]  BY <1>1, <2>0
    <2>8. v[r] = X  BY ONLY <2>1, <2>2, <2>5, <2>6, <2>7
    <2> QED BY <2>5, <2>8
  <1>8. \A a \in TreeElem : a \notin X => \A s \in Sides : d[a][s] = k[a][s]
    <2> SUFFICES ASSUME NEW a \in TreeElem, a \notin X, NEW s \in Sides PROVE d[a][s] = k[a][s]
      OBVIOUS
    <2>1. a # r /\ a # M[s] /\ a \in SplayCell  BY <1>1, <1>5
    <2>2. d[a][s] = e[a][s] /\ e[a][s] = c[a][s]  BY <1>3, <1>4, <2>1
    <2> QED BY <1>2, <2>2
  <1> QED BY <1>7, <1>8

SetChild(t, a, s, x) == [t EXCEPT !.child[a][s] = x]

LEMMA SetChildIs ==
  ASSUME NEW t \in SplayTree, NEW a \in SplayCell, NEW s \in Sides, NEW x \in Link
  PROVE  /\ SetChild(t, a, s, x) \in SplayTree /\ SetChild(t, a, s, x).root = t.root
         /\ \A b \in SplayCell : \A q \in Sides :
              SetChild(t, a, s, x).child[b][q] = IF b = a /\ q = s THEN x ELSE t.child[b][q]
  BY DEF SetChild, SplayTree

\* The record of the tree has the children of the lemma above.
LEMMA AssembleTree ==
  ASSUME NodeIsNoElement, NEW t \in SplayTree, NEW r \in TreeElem, r = t.root, NEW l \in SplayCell, NEW g \in SplayCell,
         NEW M, M["right"] = l, M["left"] = g
  PROVE  /\ Assemble(t, l, g) \in SplayTree /\ Assemble(t, l, g).root = r
         /\ \E e : Assembled(t.child, r, M, e, Assemble(t, l, g).child)
  <1> DEFINE c == t.child
             t0 == SetChild(t, l, "right", c[r]["left"])
             t1 == SetChild(t0, g, "left", c[r]["right"])
             t2 == SetChild(t1, r, "left", t1.child[Node]["right"])
             t3 == SetChild(t2, r, "right", t1.child[Node]["left"])
             t4 == [t3 EXCEPT !.child[Node] = NoChild]
  <1>0. /\ "left" \in Sides /\ "right" \in Sides /\ Other("left") = "right" /\ Other("right") = "left"
        /\ \A s \in Sides : s = "left" \/ s = "right"
        /\ r \in SplayCell /\ Node \in SplayCell /\ r # Node /\ Node \notin TreeElem /\ \A a \in TreeElem : a \in SplayCell
    BY DEF Sides, Other, SplayCell, NodeIsNoElement, Link
  <1>1. \A q \in SplayTree : \A a \in SplayCell : \A s \in Sides : q.child[a][s] \in Link
    BY DEF SplayTree
  <1>2. Assemble(t, l, g) = t4
    <2> DEFINE tt == [t EXCEPT !.child[l]["right"] = c[r]["left"], !.child[g]["left"] = c[r]["right"]]
    <2>1. tt = t1  BY DEF SetChild
    <2>2. Assemble(t, l, g) =
            [tt EXCEPT !.child[r]["left"]  = tt.child[Node]["right"],
                       !.child[r]["right"] = tt.child[Node]["left"],
                       !.child[Node] = NoChild]
      BY r = t.root DEF Assemble
    <2> HIDE DEF tt, t1
    <2>3. Assemble(t, l, g) =
            [t1 EXCEPT !.child[r]["left"]  = t1.child[Node]["right"],
                       !.child[r]["right"] = t1.child[Node]["left"],
                       !.child[Node] = NoChild]
      BY <2>1, <2>2
    <2> QED BY <2>3 DEF SetChild
  <1>3. /\ t0 \in SplayTree /\ t0.root = r
        /\ \A b \in SplayCell : \A q \in Sides :
             t0.child[b][q] = IF b = l /\ q = "right" THEN c[r]["left"] ELSE c[b][q]
    <2> DEFINE x == c[r]["left"]
    <2>1. x \in Link  BY <1>0, <1>1
    <2>2. t \in SplayTree /\ t.root = r /\ l \in SplayCell /\ "right" \in Sides  BY <1>0
    <2> HIDE DEF x, c
    <2> QED BY ONLY <2>1, <2>2, SetChildIs DEF t0, x, c
  <1> HIDE DEF t0
  <1>4. /\ t1 \in SplayTree /\ t1.root = r
        /\ \A b \in SplayCell : \A q \in Sides :
             t1.child[b][q] = IF b = g /\ q = "left" THEN c[r]["right"] ELSE t0.child[b][q]
    <2> DEFINE x == c[r]["right"]
    <2>1. x \in Link  BY <1>0, <1>1
    <2>2. t0 \in SplayTree /\ t0.root = r /\ g \in SplayCell /\ "left" \in Sides  BY <1>0, <1>3
    <2> HIDE DEF x, c
    <2> QED BY ONLY <2>1, <2>2, SetChildIs DEF t1, x
  <1> HIDE DEF t1
  <1>5. /\ t2 \in SplayTree /\ t2.root = r
        /\ \A b \in SplayCell : \A q \in Sides :
             t2.child[b][q] = IF b = r /\ q = "left" THEN t1.child[Node]["right"] ELSE t1.child[b][q]
    <2> DEFINE x == t1.child[Node]["right"]
    <2>1. x \in Link  BY <1>0, <1>1, <1>4
    <2>2. t1 \in SplayTree /\ t1.root = r /\ r \in SplayCell /\ "left" \in Sides  BY <1>0, <1>4
    <2> HIDE DEF x, c
    <2> QED BY ONLY <2>1, <2>2, SetChildIs DEF t2, x
  <1> HIDE DEF t2
  <1>6. /\ t3 \in SplayTree /\ t3.root = r
        /\ \A b \in SplayCell : \A q \in Sides :
             t3.child[b][q] = IF b = r /\ q = "right" THEN t1.child[Node]["left"] ELSE t2.child[b][q]
    <2> DEFINE x == t1.child[Node]["left"]
    <2>1. x \in Link  BY <1>0, <1>1, <1>4
    <2>2. t2 \in SplayTree /\ t2.root = r /\ r \in SplayCell /\ "right" \in Sides  BY <1>0, <1>5
    <2> HIDE DEF x, c
    <2> QED BY ONLY <2>1, <2>2, SetChildIs DEF t3, x
  <1> HIDE DEF t3
  <1>7. /\ t4 \in SplayTree /\ t4.root = r
        /\ \A b \in TreeElem : \A q \in Sides : t4.child[b][q] = t3.child[b][q]
    <2>1. NoChild \in [Sides -> Link]  BY DEF NoChild, Link
    <2> HIDE DEF NoChild
    <2> QED BY <1>0, <1>6, <2>1 DEF SplayTree
  <1> HIDE DEF t4
  <1>8. Assembled(c, r, M, t1.child, t4.child)
    <2>1. ASSUME NEW b \in SplayCell, NEW q \in Sides
          PROVE  t1.child[b][q] = IF b = M[q] THEN c[r][Other(q)] ELSE c[b][q]
      <3>1. CASE q = "left"
        <4>1. t1.child[b][q] = IF b = g THEN c[r]["right"] ELSE t0.child[b][q]  BY <1>4, <3>1
        <4>2. t0.child[b][q] = c[b][q]  BY <1>3, <3>1
        <4> QED BY <1>0, <3>1, <4>1, <4>2
      <3>2. CASE q = "right"
        <4>1. t1.child[b][q] = t0.child[b][q]  BY <1>4, <3>2
        <4>2. t0.child[b][q] = IF b = l THEN c[r]["left"] ELSE c[b][q]  BY <1>3, <3>2
        <4> QED BY <1>0, <3>2, <4>1, <4>2
      <3> QED BY <1>0, <3>1, <3>2
    <2>2. ASSUME NEW b \in TreeElem, NEW q \in Sides
          PROVE  t4.child[b][q] = IF b = r THEN t1.child[Node][Other(q)] ELSE t1.child[b][q]
      <3>0. b \in SplayCell /\ t4.child[b][q] = t3.child[b][q]  BY <1>0, <1>7
      <3>1. CASE q = "left"
        <4>1. t3.child[b][q] = t2.child[b][q]  BY <1>6, <3>0, <3>1
        <4>2. t2.child[b][q] = IF b = r THEN t1.child[Node]["right"] ELSE t1.child[b][q]
          BY <1>5, <3>0, <3>1
        <4> QED BY <1>0, <3>0, <3>1, <4>1, <4>2
      <3>2. CASE q = "right"
        <4>1. t3.child[b][q] = IF b = r THEN t1.child[Node]["left"] ELSE t2.child[b][q]
          BY <1>6, <3>0, <3>2
        <4>2. t2.child[b][q] = t1.child[b][q]  BY <1>5, <3>0, <3>2
        <4> QED BY <1>0, <3>0, <3>2, <4>1, <4>2
      <3> QED BY <1>0, <3>1, <3>2
    <2> QED BY <2>1, <2>2 DEF Assembled
  <1> QED BY <1>2, <1>7, <1>8

\* SPLAY and SPLAY_MINMAX: the tree keeps its elements, what is outside stays, and the element
\* closest to the key is the root.
LEMMA SplayToIs ==
  ASSUME ElementsFit, NodeIsNoElement, NEW t \in SplayTree, NEW u, IsTree(t.child, t.root, u),
         t.root # Null, NEW cmp, Monotone(cmp), NEW t2, t2 = SplayTo(t, cmp)
  PROVE  /\ t2 \in SplayTree /\ t2.root \in u[t.root]
         /\ \E v : IsTree(t2.child, t2.root, v) /\ v[t2.root] = u[t.root]
         /\ \A a \in TreeElem : a \notin u[t.root] => \A s \in Sides : t2.child[a][s] = t.child[a][s]
         /\ Closest(cmp, u[t.root], t2.root)
  <1> DEFINE X == u[t.root]
             z == Descend(t, cmp)
             r == z.t.root
             M == Open(z)
  <1>1. (\E v, W : InSearch(z, cmp, X, t.child, v, W)) /\ AtEnd(z, cmp)  BY DescendIs
  <1>2. t2 = Assemble(z.t, z.l, z.r)  BY Zenon DEF SplayTo
  <1> HIDE DEF z, X
  <1>3. PICK v, W : InSearch(z, cmp, X, t.child, v, W)  BY <1>1
  <1>4. z.t \in SplayTree /\ z.l \in SplayCell /\ z.r \in SplayCell /\ r \in TreeElem
    BY ONLY ElementsFit, NodeIsNoElement, <1>3, SearchRoot
  <1>5. Searching(z.t.child, r, cmp, X, t.child, v, W, M)  BY <1>3 DEF InSearch
  <1>6. M["right"] = z.l /\ M["left"] = z.r  BY DEF Open, Sides
  <1> HIDE DEF M
  <1>7. /\ t2 \in SplayTree /\ t2.root = r
        /\ \E e : Assembled(z.t.child, r, M, e, t2.child)
    <2>1. r = z.t.root  OBVIOUS
    <2> HIDE DEF r
    <2>2. /\ Assemble(z.t, z.l, z.r) \in SplayTree /\ Assemble(z.t, z.l, z.r).root = r
          /\ \E e : Assembled(z.t.child, r, M, e, Assemble(z.t, z.l, z.r).child)
      BY ONLY NodeIsNoElement, <1>4, <1>6, <2>1, AssembleTree
    <2> QED BY <1>2, <2>2
  <1> HIDE DEF r
  <1>8. /\ \E w : IsTree(t2.child, r, w) /\ w[r] = X
        /\ \A a \in TreeElem : a \notin X => \A s \in Sides : t2.child[a][s] = t.child[a][s]
    BY ONLY ElementsFit, NodeIsNoElement, <1>5, <1>7, AssembleSearch
  <1>9. Closest(cmp, X, r)
    BY ONLY ElementsFit, NodeIsNoElement, <1>1, <1>3, EndIsClosest DEF r
  <1>10. r \in X
    <2>1. PICK w : IsTree(t2.child, r, w) /\ w[r] = X  BY <1>8
    <2>2. r # Null  BY <1>4 DEF ElementsFit
    <2> QED BY <2>1, <2>2 DEF IsTree
  <1> QED BY <1>7, <1>8, <1>9, <1>10 DEF X

-----------------------------------------------------------------------------
(***************************************************************************)
(* The operations.                                                         *)
(***************************************************************************)
\* The invariant: the pointers are those of a search tree.
SplaySound(t) == t \in SplayTree /\ \E u : IsTree(t.child, t.root, u)

LEMMA SplaySetIs ==
  ASSUME ElementsFit, NEW t, NEW u, IsTree(t.child, t.root, u)
  PROVE  Below(t, t.root) = u[t.root] /\ u[t.root] \subseteq TreeElem
  <1>1. IsFiniteSet(TreeElem)  BY DEF ElementsFit
  <1>2. u[t.root] \subseteq TreeElem  BY DEF IsTree
  <1>3. CASE t.root = Null
    <2>1. Below(t, Null) = {}  BY <1>1, BelowNull
    <2> QED BY <1>2, <1>3, <2>1 DEF IsTree
  <1>4. CASE t.root # Null
    <2>1. t.root \in u[t.root]  BY <1>4 DEF IsTree
    <2>2. ASSUME NEW r, r = t.root PROVE Below(t, r) = u[r]
      <3>1. IsTree(t.child, r, u)  BY <2>2
      <3>2. \A x \in u[r] : Below(t, x) = u[x]  BY ONLY SMTT(30), ElementsFit, <3>1, BelowIs
      <3> QED BY <2>1, <2>2, <3>2
    <2> QED BY <1>2, <2>2
  <1> QED BY <1>3, <1>4

LEMMA CompareIs ==
  ASSUME ElementsFit, NEW e \in TreeElem, NEW x \in TreeElem
  PROVE  /\ \A s \in Sides : (Compare(e)[x] = s) <=> On(s, e, x)
         /\ (Compare(e)[x] = "here") <=> (Key[x] = Key[e])
         /\ Compare(e)[x] = "here" \/ Compare(e)[x] \in Sides
  <1>1. Key[x] \in Int /\ Key[e] \in Int  BY DEF ElementsFit
  <1>2. Compare(e)[x] = IF Key[e] < Key[x] THEN "left" ELSE IF Key[e] > Key[x] THEN "right" ELSE "here"
    BY DEF Compare
  <1> QED BY <1>1, <1>2 DEF On, Sides

\* If the key is in the tree, it is at the root.
LEMMA EqualAtRoot ==
  ASSUME ElementsFit, NEW c, NEW r, NEW u, IsTree(c, r, u), r # Null, NEW e \in TreeElem,
         Closest(Compare(e), u[r], r)
  PROVE  \A x \in u[r] : Key[x] = Key[e] => x = r
  <1> SUFFICES ASSUME NEW x \in u[r], Key[x] = Key[e], x # r PROVE FALSE
    OBVIOUS
  <1>1. x \in TreeElem /\ r \in TreeElem /\ r \in u[r]  BY DEF IsTree
  <1>2. Key[x] # Key[r]  BY <1>1, KeysDiffer
  <1>3. PICK s \in Sides : On(s, x, r)  BY <1>1, <1>2, OnIsOrder, SidesAre
  <1>4. Compare(e)[x] = Other(s)  BY <1>3 DEF Closest
  <1>5. Compare(e)[x] = "here"  BY <1>1, CompareIs
  <1> QED BY <1>4, <1>5 DEF Other

\* The elements with the key of e are the root or none.
LEMMA EqualIs ==
  ASSUME ElementsFit, NEW c, NEW r, NEW u, IsTree(c, r, u), r # Null, NEW e \in TreeElem,
         Closest(Compare(e), u[r], r), NEW T, T = {x \in u[r] : Key[x] = Key[e]}
  PROVE  IF Key[r] = Key[e] THEN T = {r} ELSE T = {}
  <1>1. r \in u[r]  BY DEF IsTree
  <1>2. \A x \in u[r] : Key[x] = Key[e] => x = r  BY EqualAtRoot
  <1> QED BY <1>1, <1>2

\* A tree without an element.
LEMMA NoTree ==
  ASSUME NEW c, NEW y, y = Null
  PROVE  IsTree(c, y, [x \in Link |-> {}])
  BY DEF IsTree, Link

\* The first element of a tree.
LEMMA FirstIs ==
  ASSUME ElementsFit, NEW c, NEW e \in TreeElem, \A s \in Sides : c[e][s] = Null
  PROVE  \E v : IsTree(c, e, v) /\ v[e] = {e}
  <1> DEFINE E == [x \in Link |-> {}]
             v == [x \in Link |-> IF x = e THEN {e} \cup E[Null] \cup E[Null]
                                  ELSE IF x \in E[Null] THEN E[x] ELSE IF x \in E[Null] THEN E[x] ELSE {}]
  <1>1. IsTree(c, Null, E)  BY NoTree
  <1>2. E[Null] = {}  BY DEF Link
  <1>3. "left" \in Sides /\ "right" \in Sides /\ Other("left") = "right"  BY DEF Sides, Other
  <1> HIDE DEF E
  <1>4. Joined(c, e, "left", "right", Null, Null, E, E, v)
    BY <1>1, <1>2, <1>3 DEF Joined
  <1> HIDE DEF v
  <1>5. IsTree(c, e, v) /\ v[e] = {e} \cup E[Null] \cup E[Null]  BY ONLY ElementsFit, <1>4, Join
  <1> QED BY <1>2, <1>5

\* The new element e is put above the root r, with the elements on side s of the key.
Topped(c, r, u, s, o, e, d) ==
  /\ IsTree(c, r, u) /\ r # Null /\ s \in Sides /\ o = Other(s) /\ e \in TreeElem /\ e \notin u[r]
  /\ On(s, e, r) /\ \A x \in u[r] : On(s, x, r) => On(s, x, e)
  /\ d[e][s] = c[r][s] /\ d[e][o] = r /\ d[r][s] = Null /\ d[r][o] = c[r][o]
  /\ \A x \in u[r] : x # r => \A q \in Sides : d[x][q] = c[x][q]

LEMMA Top ==
  ASSUME ElementsFit, NEW c, NEW r, NEW u, NEW s, NEW o, NEW e, NEW d, Topped(c, r, u, s, o, e, d)
  PROVE  \E v : IsTree(d, e, v) /\ v[e] = u[r] \cup {e}
  <1>1. /\ IsTree(c, r, u) /\ r # Null /\ s \in Sides /\ o = Other(s) /\ e \in TreeElem /\ e \notin u[r]
        /\ On(s, e, r) /\ (\A x \in u[r] : On(s, x, r) => On(s, x, e))
        /\ d[e][s] = c[r][s] /\ d[e][o] = r /\ d[r][s] = Null /\ d[r][o] = c[r][o]
        /\ \A x \in u[r] : x # r => \A q \in Sides : d[x][q] = c[x][q]
    BY DEF Topped
  <1>2. o \in Sides /\ s = Other(o) /\ s # o  BY <1>1, SidesAre
  <1>3. r \in u[r] /\ r \in TreeElem /\ u[r] \subseteq TreeElem  BY <1>1 DEF IsTree
  <1> DEFINE y == c[r][s]
             z == c[r][o]
             E == [x \in Link |-> {}]
             b == [x \in Link |-> IF x = r THEN {r} \cup E[Null] \cup u[z]
                                  ELSE IF x \in E[Null] THEN E[x] ELSE IF x \in u[z] THEN u[x] ELSE {}]
             v == [x \in Link |-> IF x = e THEN {e} \cup u[y] \cup b[r]
                                  ELSE IF x \in u[y] THEN u[x] ELSE IF x \in b[r] THEN b[x] ELSE {}]
  <1>4. /\ u[y] \subseteq u[r] /\ u[z] \subseteq u[r] /\ r \notin u[y] /\ r \notin u[z]
        /\ u[r] = {r} \cup u[y] \cup u[z]
    <2>1. IsTree(c, r, u) /\ r \in u[r] /\ s \in Sides  BY <1>1, <1>3
    <2>2. /\ u[c[r][s]] \subseteq u[r] /\ r \notin u[c[r][s]]
          /\ u[r] = {r} \cup u[c[r][s]] \cup u[c[r][Other(s)]]
      BY ONLY ElementsFit, <2>1, ChildSmaller
    <2>3. u[c[r][o]] \subseteq u[r] /\ r \notin u[c[r][o]]
      BY ONLY ElementsFit, <2>1, <1>2, ChildSmaller
    <2> QED BY <1>1, <2>2, <2>3
  <1>5. /\ \A x \in u[y] : On(s, x, r)
        /\ \A x \in u[z] : On(o, x, r)
    BY <1>1, <1>2, <1>3 DEF IsTree
  <1>6. IsTree(c, y, u) /\ IsTree(c, z, u)
    <2>1. IsTree(c, r, u) /\ r \in u[r] /\ s \in Sides /\ o \in Sides  BY <1>1, <1>2, <1>3
    <2> QED BY ONLY <2>1, ChildTree DEF y, z
  <1> HIDE DEF y, z, b, v, E
  <1>7. IsTree(d, y, u) /\ IsTree(d, z, u)
    <2>1. /\ \A x \in u[y] : \A q \in Sides : d[x][q] = c[x][q]
          /\ \A x \in u[z] : \A q \in Sides : d[x][q] = c[x][q]
      <3>1. \A x \in u[y] : x \in u[r] /\ x # r  BY <1>4
      <3>2. \A x \in u[z] : x \in u[r] /\ x # r  BY <1>4
      <3> QED BY <1>1, <3>1, <3>2
    <2>2. IsTree(d, y, u)  BY ONLY <1>6, <2>1, SameTree
    <2>3. IsTree(d, z, u)  BY ONLY <1>6, <2>1, SameTree
    <2> QED BY <2>2, <2>3
  <1>8. IsTree(d, r, b) /\ b[r] = {r} \cup u[z]
    <2>1. IsTree(d, Null, E)  BY NoTree DEF E
    <2>2. E[Null] = {}  BY DEF E, Link
    <2>3. d[r][s] = Null /\ d[r][o] = z  BY <1>1 DEF z
    <2>4. Joined(d, r, s, o, Null, z, E, u, b)
      BY <1>1, <1>3, <1>5, <1>7, <2>1, <2>2, <2>3 DEF Joined, b
    <2>5. IsTree(d, r, b) /\ b[r] = {r} \cup E[Null] \cup u[z]  BY ONLY ElementsFit, <2>4, Join
    <2> QED BY <2>2, <2>5
  <1>9. \A x \in b[r] : On(o, x, e)
    <2>1. On(o, r, e)  BY <1>1, <1>3, OnIsOrder
    <2>2. \A x \in u[z] : On(o, x, e)
      <3>1. u[z] \subseteq TreeElem  BY <1>3, <1>4
      <3> QED BY <1>1, <1>2, <1>3, <1>5, <2>1, <3>1, OnIsOrder
    <2> QED BY <1>8, <2>1, <2>2
  <1>10. \A x \in u[y] : On(s, x, e)  BY <1>1, <1>4, <1>5
  <1>11. Joined(d, e, s, o, y, r, u, b, v)
    BY <1>1, <1>7, <1>8, <1>9, <1>10 DEF Joined, v, y
  <1>12. IsTree(d, e, v) /\ v[e] = {e} \cup u[y] \cup b[r]  BY ONLY ElementsFit, <1>11, Join
  <1>13. v[e] = u[r] \cup {e}  BY ONLY <1>4, <1>8, <1>12
  <1> QED BY <1>12, <1>13

\* The element before which, or after which, there is none in T.
LEMMA SplayExtremeIs ==
  ASSUME ElementsFit, NEW T, T \subseteq TreeElem, NEW x \in T
  PROVE  /\ (\A y \in T : y # x => On("right", y, x)) => SplayOrder!Smallest(T) = x
         /\ (\A y \in T : y # x => On("left", y, x)) => SplayOrder!Greatest(T) = x
  <1>1. \A y \in T : Key[y] \in Int  BY DEF ElementsFit
  <1>2. T # {}  OBVIOUS
  <1>3. ASSUME \A y \in T : y # x => On("right", y, x) PROVE SplayOrder!Smallest(T) = x
    <2>1. \A y \in T : y # x => Key[x] < Key[y]  BY <1>3 DEF On
    <2>2. \A y \in T : (\A z \in T : Key[y] <= Key[z]) <=> y = x  BY <1>1, <2>1
    <2>3. (CHOOSE y \in T : \A z \in T : Key[y] <= Key[z]) = x  BY <2>2
    <2> QED BY <1>2, <2>3 DEF SplayOrder!Smallest
  <1>4. ASSUME \A y \in T : y # x => On("left", y, x) PROVE SplayOrder!Greatest(T) = x
    <2>1. \A y \in T : y # x => Key[y] < Key[x]  BY <1>4 DEF On
    <2>2. \A y \in T : (\A z \in T : Key[y] >= Key[z]) <=> y = x  BY <1>1, <2>1
    <2>3. (CHOOSE y \in T : \A z \in T : Key[y] >= Key[z]) = x  BY <2>2
    <2> QED BY <1>2, <2>3 DEF SplayOrder!Greatest
  <1> QED BY <1>3, <1>4

LEMMA SplayNone == SplayOrder!Smallest({}) = Null /\ SplayOrder!Greatest({}) = Null
  BY DEF SplayOrder!Smallest, SplayOrder!Greatest

\* The smallest element with a key, if it can only be x.
LEMMA SmallestEqual ==
  ASSUME ElementsFit, NEW x \in TreeElem, NEW T
  PROVE  (T = {x} => SplayOrder!Smallest(T) = x) /\ (T = {} => SplayOrder!Smallest(T) = Null)
  <1>1. SplayOrder!Smallest({x}) = x  BY SplayExtremeIs
  <1> QED BY <1>1, SplayNone

\* After a search in a tree with elements: what is at the root, and what has the key.
LEMMA SearchedFor ==
  ASSUME ElementsFit, NodeIsNoElement, SplaySound(splay), splay.root # Null, NEW e \in TreeElem,
         NEW t, t = SplayTo(splay, Compare(e))
  PROVE  /\ t \in SplayTree /\ t.root \in TreeElem /\ t.root \in SplaySet /\ SplaySet \subseteq TreeElem
         /\ \E v : IsTree(t.child, t.root, v) /\ v[t.root] = SplaySet
         /\ Closest(Compare(e), SplaySet, t.root)
         /\ IF Key[t.root] = Key[e] THEN SplayOrder!Equal(Key[e]) = {t.root} ELSE SplayOrder!Equal(Key[e]) = {}
  <1>1. PICK u : IsTree(splay.child, splay.root, u)  BY DEF SplaySound
  <1>2. SplaySet = u[splay.root] /\ SplaySet \subseteq TreeElem
    <2>1. Below(splay, splay.root) = u[splay.root] /\ u[splay.root] \subseteq TreeElem
      BY ONLY ElementsFit, <1>1, SplaySetIs
    <2> QED BY <2>1 DEF SplaySet
  <1>3. splay \in SplayTree /\ Monotone(Compare(e))  BY ComparisonsFit DEF SplaySound
  <1>4. /\ t \in SplayTree /\ t.root \in u[splay.root]
        /\ \E v : IsTree(t.child, t.root, v) /\ v[t.root] = u[splay.root]
        /\ Closest(Compare(e), u[splay.root], t.root)
    <2>1. splay.root # Null /\ t = SplayTo(splay, Compare(e))  OBVIOUS
    <2> QED BY ONLY ElementsFit, NodeIsNoElement, <1>1, <1>3, <2>1, SplayToIs
  <1>5. t.root \in TreeElem /\ t.root # Null  BY <1>2, <1>4 DEF ElementsFit
  <1>6. PICK v : IsTree(t.child, t.root, v) /\ v[t.root] = SplaySet  BY <1>2, <1>4
  <1>7. SplayOrder!Equal(Key[e]) = {x \in v[t.root] : Key[x] = Key[e]}  BY <1>6 DEF SplayOrder!Equal
  <1>8. IF Key[t.root] = Key[e] THEN SplayOrder!Equal(Key[e]) = {t.root} ELSE SplayOrder!Equal(Key[e]) = {}
    <2>1. Closest(Compare(e), v[t.root], t.root)  BY <1>2, <1>4, <1>6
    <2> QED BY <1>5, <1>6, <1>7, <2>1, EqualIs
  <1> QED BY <1>2, <1>4, <1>5, <1>6, <1>8

\* An empty tree has no elements.
LEMMA EmptySet ==
  ASSUME ElementsFit, splay.root = Null
  PROVE  SplaySet = {} /\ \A k : SplayOrder!Equal(k) = {}
  <1>1. Below(splay, Null) = {}  BY BelowNull DEF ElementsFit
  <1>2. SplaySet = {}  BY <1>1 DEF SplaySet
  <1> QED BY <1>2 DEF SplayOrder!Equal

\* The set after a step.
LEMMA NextSet ==
  ASSUME ElementsFit, NEW n, splay' = n, n \in SplayTree, NEW v, IsTree(n.child, n.root, v)
  PROVE  SplaySound(splay') /\ SplaySet' = v[n.root]
  <1>1. Below(n, n.root) = v[n.root]  BY SplaySetIs
  <1>2. SplaySet' = Below(n, n.root)  BY DEF SplaySet
  <1>3. SplaySound(n)  BY DEF SplaySound
  <1> QED BY <1>1, <1>2, <1>3

\* SPLAY_FIND.
LEMMA SplayFindActs ==
  ASSUME ElementsFit, NodeIsNoElement, SplaySound(splay), NEW e \in TreeElem, SplayFind(e)
  PROVE  SplaySound(splay') /\ SplayOrder!Ask(SplayOrder!FindOf(e))
  <1>1. CASE splay.root = Null
    <2>1. splayAnswer' = Null /\ splay' = splay  BY <1>1 DEF SplayFind
    <2>2. SplayOrder!FindOf(e) = Null  BY <1>1, EmptySet, SplayNone DEF SplayOrder!FindOf
    <2>3. SplaySet' = SplaySet  BY <2>1 DEF SplaySet
    <2> QED BY <2>1, <2>2, <2>3 DEF SplayOrder!Ask
  <1>2. CASE splay.root # Null
    <2> DEFINE t == SplayTo(splay, Compare(e))
    <2>1. splay' = t /\ splayAnswer' = IF Key[t.root] = Key[e] THEN t.root ELSE Null  BY <1>2 DEF SplayFind
    <2>2. t = SplayTo(splay, Compare(e))  OBVIOUS
    <2> HIDE DEF t
    <2>3. /\ t \in SplayTree /\ t.root \in TreeElem
          /\ \E v : IsTree(t.child, t.root, v) /\ v[t.root] = SplaySet
          /\ IF Key[t.root] = Key[e] THEN SplayOrder!Equal(Key[e]) = {t.root} ELSE SplayOrder!Equal(Key[e]) = {}
      BY <1>2, <2>2, SearchedFor
    <2>4. splayAnswer' = SplayOrder!FindOf(e)  BY <2>1, <2>3, SmallestEqual DEF SplayOrder!FindOf
    <2>5. SplaySound(splay') /\ SplaySet' = SplaySet  BY <2>1, <2>3, NextSet
    <2> QED BY <2>4, <2>5 DEF SplayOrder!Ask
  <1> QED BY <1>1, <1>2

\* SPLAY_MIN and SPLAY_MAX.
LEMMA SplayMinMaxActs ==
  ASSUME ElementsFit, NodeIsNoElement, SplaySound(splay), NEW s \in Sides, SplayMinMax(s)
  PROVE  /\ SplaySound(splay')
         /\ s = "left" => SplayOrder!Ask(SplayOrder!MinOf)
         /\ s = "right" => SplayOrder!Ask(SplayOrder!MaxOf)
  <1>1. CASE splay.root = Null
    <2>1. splayAnswer' = Null /\ splay' = splay  BY <1>1 DEF SplayMinMax
    <2>2. SplayOrder!MinOf = Null /\ SplayOrder!MaxOf = Null  BY <1>1, EmptySet, SplayNone DEF SplayOrder!MinOf, SplayOrder!MaxOf
    <2>3. SplaySet' = SplaySet  BY <2>1 DEF SplaySet
    <2> QED BY <2>1, <2>2, <2>3 DEF SplayOrder!Ask
  <1>2. CASE splay.root # Null
    <2> DEFINE t == SplayTo(splay, Always(s))
    <2>1. splay' = t /\ splayAnswer' = t.root  BY <1>2 DEF SplayMinMax
    <2>2. t = SplayTo(splay, Always(s))  OBVIOUS
    <2> HIDE DEF t
    <2>3. PICK u : IsTree(splay.child, splay.root, u)  BY DEF SplaySound
    <2>4. SplaySet = u[splay.root] /\ SplaySet \subseteq TreeElem
      <3>1. Below(splay, splay.root) = u[splay.root] /\ u[splay.root] \subseteq TreeElem
        BY ONLY ElementsFit, <2>3, SplaySetIs
      <3> QED BY <3>1 DEF SplaySet
    <2>5. splay \in SplayTree /\ Monotone(Always(s))  BY ComparisonsFit DEF SplaySound
    <2>6. /\ t \in SplayTree /\ t.root \in u[splay.root]
          /\ \E v : IsTree(t.child, t.root, v) /\ v[t.root] = u[splay.root]
          /\ Closest(Always(s), u[splay.root], t.root)
      BY ONLY ElementsFit, NodeIsNoElement, <1>2, <2>2, <2>3, <2>5, SplayToIs
    <2>7. PICK v : IsTree(t.child, t.root, v) /\ v[t.root] = SplaySet  BY <2>4, <2>6
    <2>8. \A x \in SplaySet : x # t.root => On(Other(s), x, t.root)
      <3> SUFFICES ASSUME NEW x \in SplaySet, x # t.root PROVE On(Other(s), x, t.root)
        OBVIOUS
      <3>1. x \in TreeElem /\ t.root \in TreeElem /\ t.root \in SplaySet  BY <2>4, <2>6
      <3>2. Key[x] # Key[t.root]
        <4>1. \A r : IsTree(t.child, r, v) => \A a \in v[r] : \A b \in v[r] : a # b => Key[a] # Key[b]
          BY KeysDiffer
        <4> QED BY <2>7, <3>1, <4>1
      <3>3. ~On(s, x, t.root)
        <4>1. On(s, x, t.root) => Always(s)[x] = Other(s)  BY <2>4, <2>6 DEF Closest
        <4>2. Always(s)[x] = s  BY <3>1 DEF Always
        <4> QED BY <4>1, <4>2, SidesAre
      <3> QED BY <3>1, <3>2, <3>3, OnIsOrder
    <2>9. t.root \in SplaySet  BY <2>4, <2>6
    <2>10. SplaySound(splay') /\ SplaySet' = SplaySet  BY <2>1, <2>6, <2>7, NextSet
    <2>11. ASSUME NEW r, r = t.root
           PROVE  (s = "left" => SplayOrder!MinOf = r) /\ (s = "right" => SplayOrder!MaxOf = r)
      <3>1. \A y \in SplaySet : y # r => On(Other(s), y, r)  BY <2>8, <2>11
      <3>2. r \in SplaySet /\ SplaySet \subseteq TreeElem  BY <2>4, <2>9, <2>11
      <3>3. CASE s = "left"
        <4>1. \A y \in SplaySet : y # r => On("right", y, r)  BY <3>1, <3>3 DEF Other
        <4>2. SplayOrder!Smallest(SplaySet) = r  BY ONLY ElementsFit, <3>2, <4>1, SplayExtremeIs
        <4> QED BY <3>3, <4>2 DEF SplayOrder!MinOf
      <3>4. CASE s = "right"
        <4>1. \A y \in SplaySet : y # r => On("left", y, r)  BY <3>1, <3>4 DEF Other
        <4>2. SplayOrder!Greatest(SplaySet) = r  BY ONLY ElementsFit, <3>2, <4>1, SplayExtremeIs
        <4> QED BY <3>4, <4>2 DEF SplayOrder!MaxOf
      <3> QED BY <3>3, <3>4 DEF Sides
    <2> QED BY <2>1, <2>10, <2>11 DEF SplayOrder!Ask
  <1> QED BY <1>1, <1>2

\* SPLAY_NEXT.
LEMMA SplayAfterActs ==
  ASSUME ElementsFit, NodeIsNoElement, SplaySound(splay), NEW e \in TreeElem, SplayAfter(e)
  PROVE  SplaySound(splay') /\ SplayOrder!Ask(SplayOrder!NextOf(e))
  <1> DEFINE t == SplayTo(splay, Compare(e))
             y == t.child[e]["right"]
             T == {x \in SplaySet : Key[x] >= Key[e] + 1}
  <1>1. /\ e \in SplaySet /\ splay' = t
        /\ splayAnswer' = IF y = Null THEN Null ELSE Outermost(t, y, "left")
    BY DEF SplayAfter
  <1>2. t = SplayTo(splay, Compare(e))  OBVIOUS
  <1> HIDE DEF t
  <1>3. splay.root # Null  BY <1>1, EmptySet
  <1>4. /\ t \in SplayTree /\ t.root \in TreeElem /\ t.root \in SplaySet /\ SplaySet \subseteq TreeElem
        /\ \E v : IsTree(t.child, t.root, v) /\ v[t.root] = SplaySet
        /\ IF Key[t.root] = Key[e] THEN SplayOrder!Equal(Key[e]) = {t.root} ELSE SplayOrder!Equal(Key[e]) = {}
    BY <1>2, <1>3, SearchedFor
  <1>5. t.root = e
    <2>1. e \in SplayOrder!Equal(Key[e])  BY <1>1 DEF SplayOrder!Equal
    <2> QED BY <1>4, <2>1
  <1>6. PICK v : IsTree(t.child, e, v) /\ v[e] = SplaySet  BY <1>4, <1>5
  <1>7. y \in Link /\ v[Null] = {} /\ (y # Null => y \in v[e]) /\ v[y] \subseteq v[e]
    <2>1. IsTree(t.child, e, v) /\ e \in v[e] /\ "right" \in Sides  BY <1>1, <1>6 DEF Sides
    <2>2. ASSUME NEW c, c = t.child
          PROVE  /\ c[e]["right"] \in Link /\ (c[e]["right"] # Null => c[e]["right"] \in v[e])
                 /\ v[c[e]["right"]] \subseteq v[e]
      <3>1. IsTree(c, e, v)  BY <2>1, <2>2
      <3> QED BY ONLY ElementsFit, <2>1, <3>1, ChildSmaller
    <2> QED BY <1>6, <2>2 DEF IsTree
  <1>8. T = v[y]
    <2>1. /\ v[e] = {e} \cup v[t.child[e]["left"]] \cup v[y]
          /\ \A x \in v[t.child[e]["left"]] : On("left", x, e)
          /\ \A x \in v[y] : On("right", x, e)
      BY <1>1, <1>6, SidesAre DEF IsTree
    <2>2. \A x \in SplaySet : Key[x] >= Key[e] + 1 <=> On("right", x, e)
      <3>1. \A x \in SplaySet : Key[x] \in Int  BY <1>4 DEF ElementsFit
      <3>2. Key[e] \in Int  BY DEF ElementsFit
      <3> QED BY <3>1, <3>2 DEF On
    <2>3. \A x \in SplaySet : On("right", x, e) => x \in v[y]
      <3> SUFFICES ASSUME NEW x \in SplaySet, On("right", x, e) PROVE x \in v[y]
        OBVIOUS
      <3>1. x \in TreeElem /\ ~On("left", x, e) /\ x # e
        <4>1. Key[x] \in Int /\ Key[e] \in Int  BY <1>4 DEF ElementsFit
        <4> QED BY <1>4, <4>1 DEF On
      <3> HIDE DEF y
      <3> QED BY <1>6, <2>1, <3>1
    <2> HIDE DEF y
    <2> QED BY <1>6, <1>7, <2>1, <2>2, <2>3
  <1>9. SplayOrder!NextOf(e) = SplayOrder!Smallest(T)  BY Zenon DEF SplayOrder!NextOf, SplayOrder!AtLeast
  <1>10. SplaySound(splay') /\ SplaySet' = SplaySet
    <2>1. IsTree(t.child, t.root, v) /\ v[t.root] = SplaySet  BY <1>5, <1>6
    <2> QED BY <1>1, <1>4, <2>1, NextSet
  <1> HIDE DEF y, T
  <1>11. splayAnswer' = SplayOrder!NextOf(e)
    <2>1. CASE y = Null
      <3>1. T = {}  BY <1>7, <1>8, <2>1
      <3> QED BY <1>1, <1>9, <2>1, <3>1, SplayNone
    <2>2. CASE y # Null
      <3>1. ASSUME NEW n, n = Outermost(t, y, "left") PROVE SplayOrder!Smallest(T) = n
        <4>1. IsTree(t.child, e, v) /\ y \in v[e] /\ "left" \in Sides  BY <1>6, <1>7, <2>2 DEF Sides
        <4>2. \A a \in v[e] : \A s \in Sides :
                /\ Outermost(t, a, s) \in v[a]
                /\ \A x \in v[a] : x # Outermost(t, a, s) => On(Other(s), x, Outermost(t, a, s))
          BY ONLY ElementsFit, <4>1, OutermostIs
        <4>3. n \in T /\ \A x \in T : x # n => On("right", x, n)
          BY <1>8, <3>1, <4>1, <4>2 DEF Other
        <4>4. T \subseteq TreeElem  BY <1>4, <1>6, <1>7, <1>8
        <4> QED BY ONLY ElementsFit, <4>3, <4>4, SplayExtremeIs
      <3> QED BY <1>1, <1>9, <2>2, <3>1
    <2> QED BY <2>1, <2>2
  <1> QED BY <1>10, <1>11 DEF SplayOrder!Ask

\* The record of the tree with a new root.
TopOf(t, r, e, s) ==
  [t EXCEPT !.child[e][s] = t.child[r][s], !.child[e][Other(s)] = r,
            !.child[r][s] = Null, !.root = e]

LEMMA InsertTree ==
  ASSUME NodeIsNoElement, NEW t \in SplayTree, NEW r \in TreeElem, NEW e \in TreeElem, e # r, NEW s \in Sides,
         NEW n, n = TopOf(t, r, e, s)
  PROVE  /\ n \in SplayTree /\ n.root = e
         /\ n.child[e][s] = t.child[r][s] /\ n.child[e][Other(s)] = r
         /\ n.child[r][s] = Null /\ n.child[r][Other(s)] = t.child[r][Other(s)]
         /\ \A x \in TreeElem : x # e /\ x # r => \A q \in Sides : n.child[x][q] = t.child[x][q]
  <1> DEFINE o == Other(s)
             y == t.child[r][s]
             t1 == SetChild(t, e, s, y)
             t2 == SetChild(t1, e, o, r)
             t3 == SetChild(t2, r, s, Null)
  <1>1. n = [t3 EXCEPT !.root = e]
    <2>1. n = [t EXCEPT !.child[e][s] = y, !.child[e][o] = r, !.child[r][s] = Null, !.root = e]
      BY DEF TopOf
    <2> HIDE DEF y, o
    <2> QED BY ONLY <2>1 DEF SetChild
  <1>2. /\ o \in Sides /\ o # s /\ \A q \in Sides : q = s \/ q = o
        /\ r \in Link /\ Null \in Link /\ r \in SplayCell /\ e \in SplayCell /\ \A x \in TreeElem : x \in SplayCell
    BY SidesAre DEF SplayCell, Link
  <1>3. y \in Link  BY <1>2 DEF SplayTree
  <1> HIDE DEF o, y
  <1>4. /\ t1 \in SplayTree /\ t1.root = t.root
        /\ \A b \in SplayCell : \A q \in Sides : t1.child[b][q] = IF b = e /\ q = s THEN y ELSE t.child[b][q]
    BY ONLY <1>2, <1>3, t \in SplayTree, s \in Sides, SetChildIs
  <1> HIDE DEF t1
  <1>5. /\ t2 \in SplayTree /\ t2.root = t1.root
        /\ \A b \in SplayCell : \A q \in Sides : t2.child[b][q] = IF b = e /\ q = o THEN r ELSE t1.child[b][q]
    BY ONLY <1>2, <1>4, SetChildIs
  <1> HIDE DEF t2
  <1>6. /\ t3 \in SplayTree /\ t3.root = t2.root
        /\ \A b \in SplayCell : \A q \in Sides : t3.child[b][q] = IF b = r /\ q = s THEN Null ELSE t2.child[b][q]
    BY ONLY <1>2, <1>5, s \in Sides, SetChildIs
  <1> HIDE DEF t3
  <1>7. n \in SplayTree /\ n.root = e /\ n.child = t3.child
    <2>1. e \in Link  BY DEF Link
    <2> QED BY <1>1, <1>6, <2>1 DEF SplayTree
  <1>8. \A b \in SplayCell : \A q \in Sides :
          n.child[b][q] = IF b = r /\ q = s THEN Null ELSE IF b = e /\ q = o THEN r
                          ELSE IF b = e /\ q = s THEN y ELSE t.child[b][q]
    <2> SUFFICES ASSUME NEW b \in SplayCell, NEW q \in Sides
                 PROVE  n.child[b][q] = IF b = r /\ q = s THEN Null ELSE IF b = e /\ q = o THEN r
                                        ELSE IF b = e /\ q = s THEN y ELSE t.child[b][q]
      OBVIOUS
    <2>1. t1.child[b][q] = IF b = e /\ q = s THEN y ELSE t.child[b][q]  BY <1>4
    <2>2. t2.child[b][q] = IF b = e /\ q = o THEN r ELSE t1.child[b][q]  BY <1>5
    <2>3. n.child[b][q] = IF b = r /\ q = s THEN Null ELSE t2.child[b][q]  BY <1>6, <1>7
    <2> QED BY ONLY <2>1, <2>2, <2>3
  <1>9. n.child[e][s] = y /\ n.child[e][o] = r /\ n.child[r][s] = Null /\ n.child[r][o] = t.child[r][o]
    BY <1>2, <1>8
  <1>10. \A x \in TreeElem : x # e /\ x # r => \A q \in Sides : n.child[x][q] = t.child[x][q]
    BY <1>2, <1>8
  <1> QED BY <1>7, <1>9, <1>10 DEF o, y

\* SPLAY_INSERT.
LEMMA SplayInsertActs ==
  ASSUME ElementsFit, NodeIsNoElement, SplaySound(splay), NEW e \in TreeElem, SplayInsert(e)
  PROVE  SplaySound(splay') /\ SplayOrder!Insert(e)
  <1>1. e \notin SplaySet  BY DEF SplayInsert
  <1>2. CASE splay.root = Null
    <2> DEFINE n == [splay EXCEPT !.root = e, !.child[e] = NoChild]
    <2>1. splay' = n /\ splayAnswer' = Null  BY <1>2 DEF SplayInsert
    <2>2. n \in SplayTree /\ n.root = e /\ \A s \in Sides : n.child[e][s] = Null
      <3>1. splay \in SplayTree /\ e \in Link /\ e \in SplayCell  BY DEF SplaySound, Link, SplayCell
      <3>2. NoChild \in [Sides -> Link] /\ \A s \in Sides : NoChild[s] = Null  BY DEF NoChild, Link
      <3> HIDE DEF NoChild
      <3> QED BY <3>1, <3>2 DEF SplayTree
    <2> HIDE DEF n
    <2>3. \E v : IsTree(n.child, e, v) /\ v[e] = {e}  BY <2>2, FirstIs
    <2>4. SplaySound(splay') /\ SplaySet' = {e}
      <3>1. PICK v : IsTree(n.child, n.root, v) /\ v[n.root] = {e}  BY <2>2, <2>3
      <3>2. SplaySound(splay') /\ SplaySet' = v[n.root]  BY ONLY ElementsFit, <2>1, <2>2, <3>1, NextSet
      <3> QED BY <3>1, <3>2
    <2>5. SplaySet = {} /\ SplayOrder!Equal(Key[e]) = {}  BY <1>2, EmptySet
    <2>6. SplayOrder!Smallest(SplayOrder!Equal(Key[e])) = Null  BY <2>5, SplayNone
    <2> QED BY <1>1, <2>1, <2>4, <2>5, <2>6 DEF SplayOrder!Insert
  <1>3. CASE splay.root # Null
    <2> DEFINE t == SplayTo(splay, Compare(e))
               r == t.root
               s == Compare(e)[r]
               n == [t EXCEPT !.child[e][s] = t.child[r][s], !.child[e][Other(s)] = r,
                              !.child[r][s] = Null, !.root = e]
    <2>1. IF s = "here" THEN splay' = t /\ splayAnswer' = r ELSE splay' = n /\ splayAnswer' = Null
      BY <1>3 DEF SplayInsert
    <2>2. t = SplayTo(splay, Compare(e))  OBVIOUS
    <2> HIDE DEF t
    <2>3. /\ t \in SplayTree /\ r \in TreeElem /\ r \in SplaySet /\ SplaySet \subseteq TreeElem
          /\ \E v : IsTree(t.child, r, v) /\ v[r] = SplaySet
          /\ Closest(Compare(e), SplaySet, r)
          /\ IF Key[r] = Key[e] THEN SplayOrder!Equal(Key[e]) = {r} ELSE SplayOrder!Equal(Key[e]) = {}
      BY <1>3, <2>2, SearchedFor
    <2>4. PICK v : IsTree(t.child, t.root, v) /\ v[t.root] = SplaySet  BY <2>3
    <2>5. CASE s = "here"
      <3>1. Key[r] = Key[e]  BY <2>3, <2>5, CompareIs
      <3>2. SplayOrder!Equal(Key[e]) # {} /\ SplayOrder!Smallest(SplayOrder!Equal(Key[e])) = r
        <4> HIDE DEF r
        <4> QED BY <2>3, <3>1, SmallestEqual
      <3>3. SplaySound(splay') /\ SplaySet' = SplaySet  BY <2>1, <2>3, <2>4, <2>5, NextSet
      <3> QED BY <1>1, <2>1, <2>5, <3>2, <3>3 DEF SplayOrder!Insert
    <2>6. CASE s # "here"
      <3>1. s \in Sides /\ On(s, e, r) /\ Key[r] # Key[e]
        <4>1. ASSUME NEW x \in TreeElem, x = r
              PROVE  Compare(e)[x] \in Sides /\ On(Compare(e)[x], e, x) /\ Key[x] # Key[e]
          <5>1. Compare(e)[x] # "here"  BY <2>6, <4>1
          <5> QED BY <5>1, CompareIs
        <4> QED BY <2>3, <4>1
      <3>2. SplayOrder!Equal(Key[e]) = {} /\ SplayOrder!Smallest(SplayOrder!Equal(Key[e])) = Null
        <4>1. SplayOrder!Equal(Key[e]) = {}  BY <2>3, <3>1
        <4> QED BY <4>1, SplayNone
      <3>3. \A x \in SplaySet : On(s, x, r) => On(s, x, e)
        <4> HIDE DEF s, r
        <4> SUFFICES ASSUME NEW x \in SplaySet, On(s, x, r) PROVE On(s, x, e)
          OBVIOUS
        <4>1. Compare(e)[x] = Other(s) /\ x \in TreeElem  BY <2>3, <3>1 DEF Closest
        <4>2. On(Other(s), e, x)  BY <3>1, <4>1, CompareIs, SidesAre
        <4> QED BY <3>1, <4>1, <4>2, OnIsOrder
      <3>4. splay' = n /\ splayAnswer' = Null  BY <2>1, <2>6
      <3>5. e # r  BY <1>1, <2>3
      <3>6. r \in TreeElem /\ r = t.root  BY <2>3
      <3> HIDE DEF r, s
      <3>7. /\ n \in SplayTree /\ n.root = e
            /\ n.child[e][s] = t.child[r][s] /\ n.child[e][Other(s)] = r
            /\ n.child[r][s] = Null /\ n.child[r][Other(s)] = t.child[r][Other(s)]
            /\ \A x \in TreeElem : x # e /\ x # r => \A q \in Sides : n.child[x][q] = t.child[x][q]
        <4>1. n = TopOf(t, r, e, s)  BY DEF TopOf
        <4>2. t \in SplayTree /\ r \in TreeElem /\ e # r /\ s \in Sides  BY <2>3, <3>1, <3>5, <3>6
        <4> HIDE DEF n
        <4> DEFINE o == TopOf(t, r, e, s)
        <4>3. /\ o \in SplayTree /\ o.root = e
              /\ o.child[e][s] = t.child[r][s] /\ o.child[e][Other(s)] = r
              /\ o.child[r][s] = Null /\ o.child[r][Other(s)] = t.child[r][Other(s)]
              /\ \A x \in TreeElem : x # e /\ x # r =>
                   \A q \in Sides : o.child[x][q] = t.child[x][q]
          BY ONLY NodeIsNoElement, e \in TreeElem, <4>2, InsertTree
        <4>4. n = o  BY <4>1
        <4> HIDE DEF o
        <4> QED BY <4>3, <4>4
      <3> HIDE DEF n
      <3>8. Topped(t.child, r, v, s, Other(s), e, n.child)
        <4>1. IsTree(t.child, r, v) /\ v[r] = SplaySet /\ r # Null  BY <2>4, <3>6 DEF ElementsFit
        <4>2. \A x \in v[r] : x # r => \A q \in Sides : n.child[x][q] = t.child[x][q]
          <5>1. \A x \in v[r] : x \in TreeElem /\ x # e  BY <1>1, <2>3, <4>1
          <5> QED BY <3>7, <5>1
        <4> QED BY <1>1, <3>1, <3>3, <3>7, <4>1, <4>2 DEF Topped
      <3>9. \E w : IsTree(n.child, e, w) /\ w[e] = v[r] \cup {e}  BY ONLY ElementsFit, <3>8, Top
      <3>10. PICK w : IsTree(n.child, n.root, w) /\ w[n.root] = SplaySet \cup {e}
        BY <2>4, <3>6, <3>7, <3>9
      <3>11. SplaySound(splay') /\ SplaySet' = w[n.root]  BY ONLY ElementsFit, <3>4, <3>7, <3>10, NextSet
      <3> QED BY <1>1, <3>2, <3>4, <3>10, <3>11 DEF SplayOrder!Insert
    <2> QED BY <2>5, <2>6
  <1> QED BY <1>2, <1>3

\* The right subtree comes to hang on the root of the left one; the element between them is freed.
LinkOf(t, m, y, r) == [[t EXCEPT !.child[m]["right"] = y] EXCEPT !.child[r] = NoChild]

LEMMA RemoveTree ==
  ASSUME NEW t \in SplayTree, NEW m \in TreeElem, NEW r \in TreeElem, m # r, NEW y \in Link,
         NEW n, n = LinkOf(t, m, y, r)
  PROVE  /\ n \in SplayTree /\ n.root = t.root
         /\ n.child[m]["right"] = y /\ n.child[m]["left"] = t.child[m]["left"]
         /\ \A x \in TreeElem : x # m /\ x # r => \A q \in Sides : n.child[x][q] = t.child[x][q]
  <1> DEFINE t1 == SetChild(t, m, "right", y)
  <1>1. n = [t1 EXCEPT !.child[r] = NoChild]  BY DEF LinkOf, SetChild
  <1>2. m \in SplayCell /\ r \in SplayCell /\ "right" \in Sides /\ "left" \in Sides /\ \A x \in TreeElem : x \in SplayCell
    BY DEF SplayCell, Sides
  <1>3. /\ t1 \in SplayTree /\ t1.root = t.root
        /\ \A b \in SplayCell : \A q \in Sides :
             t1.child[b][q] = IF b = m /\ q = "right" THEN y ELSE t.child[b][q]
    BY <1>2, SetChildIs
  <1> HIDE DEF t1
  <1>4. NoChild \in [Sides -> Link]  BY DEF NoChild, Link
  <1>5. /\ n \in SplayTree /\ n.root = t.root
        /\ \A b \in SplayCell : b # r => \A q \in Sides : n.child[b][q] = t1.child[b][q]
    <2>1. n \in SplayTree /\ n.root = t1.root /\ n.child = [t1.child EXCEPT ![r] = NoChild]
      BY ONLY <1>1, <1>2, <1>3, <1>4 DEF SplayTree
    <2>2. t1.child \in [SplayCell -> [Sides -> Link]]  BY <1>3 DEF SplayTree
    <2> QED BY ONLY <1>2, <1>3, <2>1, <2>2
  <1>6. n.child[m]["right"] = y /\ n.child[m]["left"] = t.child[m]["left"]
    <2>1. n.child[m]["right"] = t1.child[m]["right"] /\ n.child[m]["left"] = t1.child[m]["left"]
      BY <1>2, <1>5
    <2> QED BY <1>2, <1>3, <2>1
  <1>7. \A x \in TreeElem : x # m /\ x # r => \A q \in Sides : n.child[x][q] = t.child[x][q]
    BY <1>2, <1>3, <1>5
  <1> QED BY <1>5, <1>6, <1>7

\* Only the right subtree is left.
DropOf(t, y, r) == [[t EXCEPT !.root = y] EXCEPT !.child[r] = NoChild]

LEMMA DropTree ==
  ASSUME NEW t \in SplayTree, NEW r \in TreeElem, NEW y \in Link, NEW n, n = DropOf(t, y, r)
  PROVE  /\ n \in SplayTree /\ n.root = y
         /\ \A x \in TreeElem : x # r => \A q \in Sides : n.child[x][q] = t.child[x][q]
  <1>1. NoChild \in [Sides -> Link] /\ r \in SplayCell /\ \A x \in TreeElem : x \in SplayCell
    BY DEF NoChild, Link, SplayCell
  <1> DEFINE t1 == [t EXCEPT !.root = y]
  <1>2. t1 \in SplayTree /\ t1.root = y /\ t1.child = t.child  BY DEF SplayTree
  <1>3. n = [t1 EXCEPT !.child[r] = NoChild]  BY DEF DropOf
  <1> HIDE DEF t1
  <1> QED BY <1>1, <1>2, <1>3 DEF SplayTree

\* m has the tree y on its left and the tree z on its right.
Between(d, m, y, z, a, b) ==
  /\ m \in TreeElem /\ IsTree(d, y, a) /\ IsTree(d, z, b) /\ d[m]["left"] = y /\ d[m]["right"] = z
  /\ \A x \in a[y] : On("left", x, m)
  /\ \A x \in b[z] : On("right", x, m)

LEMMA BetweenIsTree ==
  ASSUME ElementsFit, NEW d, NEW m, NEW y, NEW z, NEW a, NEW b, Between(d, m, y, z, a, b)
  PROVE  \E v : IsTree(d, m, v) /\ v[m] = {m} \cup a[y] \cup b[z]
  <1> DEFINE v == [x \in Link |-> IF x = m THEN {m} \cup a[y] \cup b[z]
                                  ELSE IF x \in a[y] THEN a[x] ELSE IF x \in b[z] THEN b[x] ELSE {}]
  <1>1. "left" \in Sides /\ Other("left") = "right"  BY DEF Sides, Other
  <1>2. Joined(d, m, "left", "right", y, z, a, b, v)  BY <1>1 DEF Joined, Between
  <1> HIDE DEF v
  <1>3. IsTree(d, m, v) /\ v[m] = {m} \cup a[y] \cup b[z]  BY ONLY ElementsFit, <1>2, Join
  <1> QED BY <1>3

\* SPLAY_REMOVE.
LEMMA SplayRemoveActs ==
  ASSUME ElementsFit, NodeIsNoElement, SplaySound(splay), NEW e \in TreeElem, SplayRemove(e)
  PROVE  SplaySound(splay') /\ SplayOrder!Remove(e)
  <1>1. CASE splay.root = Null
    <2>1. splayAnswer' = Null /\ splay' = splay  BY <1>1 DEF SplayRemove
    <2>2. SplaySet = {} /\ SplayOrder!Equal(Key[e]) = {}  BY <1>1, EmptySet
    <2>3. SplaySet' = SplaySet  BY <2>1 DEF SplaySet
    <2> QED BY <2>1, <2>2, <2>3 DEF SplayOrder!Remove
  <1>2. CASE splay.root # Null
    <2> DEFINE t == SplayTo(splay, Compare(e))
               r == t.root
               k == t.child[r]
               t0 == [t EXCEPT !.root = k["left"]]
               u2 == SplayTo(t0, Compare(e))
               n == IF k["left"] = Null THEN DropOf(t, k["right"], r)
                    ELSE LinkOf(u2, u2.root, k["right"], r)
    <2>1. IF Key[r] # Key[e] THEN splayAnswer' = Null /\ splay' = t ELSE splayAnswer' = e /\ splay' = n
      <3>1. IF Key[r] # Key[e] THEN splayAnswer' = Null /\ splay' = t
            ELSE /\ splayAnswer' = e
                 /\ splay' = [IF k["left"] = Null THEN [t EXCEPT !.root = k["right"]]
                                ELSE [u2 EXCEPT !.child[u2.root]["right"] = k["right"]]
                              EXCEPT !.child[r] = NoChild]
        BY <1>2 DEF SplayRemove
      <3> HIDE DEF t, r, k, u2
      <3> QED BY <3>1 DEF DropOf, LinkOf
    <2>2. t = SplayTo(splay, Compare(e))  OBVIOUS
    <2> HIDE DEF t
    <2>3. /\ t \in SplayTree /\ r \in TreeElem /\ r \in SplaySet /\ SplaySet \subseteq TreeElem
          /\ \E v : IsTree(t.child, r, v) /\ v[r] = SplaySet
          /\ IF Key[r] = Key[e] THEN SplayOrder!Equal(Key[e]) = {r} ELSE SplayOrder!Equal(Key[e]) = {}
      BY <1>2, <2>2, SearchedFor
    <2>4. PICK v : IsTree(t.child, t.root, v) /\ v[t.root] = SplaySet  BY <2>3
    <2>5. CASE Key[r] # Key[e]
      <3>1. SplayOrder!Equal(Key[e]) = {}  BY <2>3, <2>5
      <3>2. SplaySound(splay') /\ SplaySet' = SplaySet  BY <2>1, <2>3, <2>4, <2>5, NextSet
      <3> QED BY <2>1, <2>5, <3>1, <3>2 DEF SplayOrder!Remove
    <2>6. CASE Key[r] = Key[e]
      <3> DEFINE c == t.child
                 y == c[r]["left"]
                 z == c[r]["right"]
                 L == v[y]
                 R == v[z]
      <3>1. SplayOrder!Equal(Key[e]) = {r} /\ splayAnswer' = e /\ splay' = n  BY <2>1, <2>3, <2>6
      <3>2. IsTree(c, r, v) /\ r \in v[r] /\ v[r] = SplaySet  BY <2>3, <2>4
      <3>3. /\ y \in Link /\ z \in Link /\ r \notin L /\ r \notin R /\ L \cap R = {}
            /\ SplaySet = {r} \cup L \cup R /\ (y # Null => y \in v[r])
        <4>1. "left" \in Sides /\ "right" \in Sides /\ Other("left") = "right" /\ Other("right") = "left"
          BY DEF Sides, Other
        <4> HIDE DEF c, r
        <4>2. /\ c[r]["left"] \in Link /\ r \notin v[c[r]["left"]]
              /\ v[c[r]["left"]] \cap v[c[r][Other("left")]] = {}
              /\ v[r] = {r} \cup v[c[r]["left"]] \cup v[c[r][Other("left")]]
              /\ (c[r]["left"] # Null => c[r]["left"] \in v[r])
          BY ONLY ElementsFit, <3>2, <4>1, ChildSmaller
        <4>3. c[r]["right"] \in Link /\ r \notin v[c[r]["right"]]
          BY ONLY ElementsFit, <3>2, <4>1, ChildSmaller
        <4> QED BY <3>2, <4>1, <4>2, <4>3
      <3>4. IsTree(c, y, v) /\ IsTree(c, z, v)
        <4>1. "left" \in Sides /\ "right" \in Sides  BY DEF Sides
        <4> HIDE DEF c, r
        <4> QED BY ONLY <3>2, <4>1, ChildTree DEF y, z
      <3>5. (\A x \in L : On("left", x, r)) /\ (\A x \in R : On("right", x, r))
        BY <3>2 DEF IsTree, Sides
      <3>6. r \in TreeElem /\ r = t.root /\ k["left"] = y /\ k["right"] = z /\ t \in SplayTree /\ c = t.child
        BY <2>3
      <3>7. n = IF y = Null THEN DropOf(t, z, r) ELSE LinkOf(u2, u2.root, z, r)
        OBVIOUS
      <3>8. t0 = [t EXCEPT !.root = y] /\ u2 = SplayTo(t0, Compare(e))
        OBVIOUS
      <3> HIDE DEF t, r, k, c, y, z, n, u2, t0
      <3>9. SplaySound(splay') /\ SplaySet' = SplaySet \ {r}
        <4>1. CASE y = Null
          <5>1. n = DropOf(t, z, r)  BY <3>7, <4>1
          <5>2. /\ n \in SplayTree /\ n.root = z
                /\ \A x \in TreeElem : x # r => \A q \in Sides : n.child[x][q] = t.child[x][q]
            <6>1. t \in SplayTree /\ r \in TreeElem /\ z \in Link  BY <3>3, <3>6
            <6> QED BY ONLY <5>1, <6>1, DropTree
          <5>3. \A x \in R : \A q \in Sides : n.child[x][q] = c[x][q]
            <6>1. \A x \in R : x \in TreeElem /\ x # r  BY <2>3, <3>3
            <6> QED BY <3>6, <5>2, <6>1
          <5>4. IsTree(n.child, z, v)  BY <3>4, <5>3, SameTree
          <5>5. SplaySound(splay') /\ SplaySet' = R
            <6>1. IsTree(n.child, n.root, v) /\ v[n.root] = R  BY <5>2, <5>4
            <6> HIDE DEF R
            <6> QED BY <3>1, <5>2, <6>1, NextSet
          <5>6. L = {}  BY <3>4, <4>1 DEF IsTree
          <5> HIDE DEF L, R
          <5> QED BY <3>3, <5>5, <5>6
        <4>2. CASE y # Null
          <5> DEFINE m == u2.root
          <5>1. t0 \in SplayTree /\ t0.root = y /\ t0.child = c  BY <3>3, <3>6, <3>8 DEF SplayTree
          <5>2. IsTree(t0.child, t0.root, v) /\ t0.root # Null /\ v[t0.root] = L  BY <3>4, <4>2, <5>1
          <5>3. Monotone(Compare(e))  BY ComparisonsFit
          <5>4. /\ u2 \in SplayTree /\ m \in L
                /\ \E w : IsTree(u2.child, m, w) /\ w[m] = L
                /\ \A a \in TreeElem : a \notin L => \A s \in Sides : u2.child[a][s] = c[a][s]
                /\ Closest(Compare(e), L, m)
            <6>1. /\ u2 \in SplayTree /\ u2.root \in v[t0.root]
                  /\ \E w : IsTree(u2.child, u2.root, w) /\ w[u2.root] = v[t0.root]
                  /\ \A a \in TreeElem : a \notin v[t0.root] => \A s \in Sides : u2.child[a][s] = t0.child[a][s]
                  /\ Closest(Compare(e), v[t0.root], u2.root)
              <7>1. u2 = SplayTo(t0, Compare(e)) /\ t0 \in SplayTree  BY <3>8, <5>1
              <7>2. IsTree(t0.child, t0.root, v) /\ t0.root # Null  BY <5>2
              <7> QED BY ONLY ElementsFit, NodeIsNoElement, <5>3, <7>1, <7>2, SplayToIs
            <6> HIDE DEF L
            <6> QED BY <5>1, <5>2, <6>1
          <5>5. PICK w : IsTree(u2.child, m, w) /\ w[m] = L  BY <5>4
          <5> HIDE DEF m
          <5>6. L \subseteq TreeElem /\ R \subseteq TreeElem /\ m \in TreeElem /\ m # r
            BY <2>3, <3>3, <5>4
          <5>7. u2.child[m]["right"] = Null
            <6> SUFFICES ASSUME u2.child[m]["right"] # Null PROVE FALSE
              OBVIOUS
            <6> DEFINE x == u2.child[m]["right"]
            <6>1. x \in L /\ On("right", x, m)
              <7>1. m \in w[m] /\ "right" \in Sides /\ x # Null  BY <5>4, <5>5 DEF Sides
              <7>2. x \in w[x]  BY <5>5, <7>1 DEF IsTree
              <7>3. On("right", x, m)  BY <5>5, <7>1, <7>2 DEF IsTree
              <7>4. w[m] = {m} \cup w[u2.child[m]["left"]] \cup w[x]  BY <5>5, <7>1 DEF IsTree
              <7> HIDE DEF x
              <7> QED BY <5>5, <7>2, <7>3, <7>4
            <6> HIDE DEF x
            <6>2. Compare(e)[x] = "left"  BY <5>4, <6>1 DEF Closest, Other, Sides
            <6>3. On("left", e, x)
              <7>1. x \in TreeElem /\ "left" \in Sides  BY <5>6, <6>1 DEF Sides
              <7> QED BY <6>2, <7>1, CompareIs
            <6>4. On("left", x, r)  BY <3>5, <6>1
            <6>5. Key[x] \in Int /\ Key[e] \in Int  BY <5>6, <6>1 DEF ElementsFit
            <6> QED BY <2>6, <6>3, <6>4, <6>5 DEF On
          <5>8. n = LinkOf(u2, m, z, r)  BY <3>7, <4>2 DEF m
          <5>9. /\ n \in SplayTree /\ n.root = m
                /\ n.child[m]["right"] = z /\ n.child[m]["left"] = u2.child[m]["left"]
                /\ \A x \in TreeElem : x # m /\ x # r => \A q \in Sides : n.child[x][q] = u2.child[x][q]
            <6>1. u2 \in SplayTree /\ m \in TreeElem /\ r \in TreeElem /\ m # r /\ z \in Link
              BY <3>3, <3>6, <5>4, <5>6
            <6>2. u2.root = m  BY DEF m
            <6> QED BY ONLY <5>8, <6>1, <6>2, RemoveTree
          <5> DEFINE y2 == u2.child[m]["left"]
          <5>10. /\ IsTree(u2.child, y2, w) /\ w[m] = {m} \cup w[y2] /\ m \notin w[y2]
                 /\ \A x \in w[y2] : On("left", x, m)
            <6>1. m \in w[m] /\ "left" \in Sides /\ Other("left") = "right" /\ w[Null] = {}
              BY <5>4, <5>5 DEF Sides, Other, IsTree
            <6>2. IsTree(u2.child, y2, w)  BY ONLY <5>5, <6>1, ChildTree
            <6>3. /\ w[m] = {m} \cup w[y2] \cup w[u2.child[m]["right"]]
                  /\ \A x \in w[y2] : On("left", x, m)
              BY <5>5, <6>1 DEF IsTree
            <6>4. m \notin w[y2]
              <7>1. ASSUME NEW d, d = u2.child PROVE m \notin w[d[m]["left"]]
                <8>1. IsTree(d, m, w)  BY <5>5, <7>1
                <8> QED BY ONLY ElementsFit, <6>1, <8>1, ChildSmaller
              <7> QED BY <7>1
            <6> HIDE DEF y2
            <6> QED BY <5>7, <6>1, <6>2, <6>3, <6>4
          <5> HIDE DEF y2
          <5>11. IsTree(n.child, y2, w)
            <6>1. \A x \in w[y2] : x \in TreeElem /\ x # m /\ x # r
              <7>1. w[y2] \subseteq L /\ m \notin w[y2] /\ r \notin L  BY <3>3, <5>5, <5>10
              <7> QED BY <5>6, <7>1
            <6>2. \A x \in w[y2] : \A q \in Sides : n.child[x][q] = u2.child[x][q]  BY <5>9, <6>1
            <6> QED BY ONLY <5>10, <6>2, SameTree
          <5>12. IsTree(n.child, z, v)
            <6>1. \A x \in R : x \in TreeElem /\ x # r /\ x \notin L /\ x # m
              BY <3>3, <5>4, <5>6
            <6>2. \A x \in v[z] : \A q \in Sides : n.child[x][q] = c[x][q]
              BY <5>4, <5>9, <6>1
            <6> QED BY ONLY <3>4, <6>2, SameTree
          <5>13. \A x \in R : On("right", x, m)
            <6>1. On("left", m, r)  BY <3>5, <5>4
            <6>2. \A x \in R : Key[x] \in Int  BY <5>6 DEF ElementsFit
            <6>3. Key[m] \in Int /\ Key[r] \in Int  BY <3>6, <5>6 DEF ElementsFit
            <6> QED BY <3>5, <6>1, <6>2, <6>3 DEF On
          <5>14. \E f : IsTree(n.child, m, f) /\ f[m] = {m} \cup w[y2] \cup v[z]
            <6>1. n.child[m]["left"] = y2 /\ n.child[m]["right"] = z  BY <5>9 DEF y2
            <6>2. \A x \in v[z] : On("right", x, m)  BY <5>13
            <6>3. \A x \in w[y2] : On("left", x, m)  BY <5>10
            <6>4. m \in TreeElem  BY <5>6
            <6>5. Between(n.child, m, y2, z, w, v)
              BY <5>11, <5>12, <6>1, <6>2, <6>3, <6>4 DEF Between
            <6> QED BY ONLY ElementsFit, <6>5, BetweenIsTree
          <5>15. PICK f : IsTree(n.child, n.root, f) /\ f[n.root] = {m} \cup w[y2] \cup v[z]
            BY <5>9, <5>14
          <5>16. SplaySound(splay') /\ SplaySet' = f[n.root]  BY ONLY ElementsFit, <3>1, <5>9, <5>15, NextSet
          <5>17. SplaySet \ {r} = L \cup R /\ L = {m} \cup w[y2]
            <6> HIDE DEF L, R
            <6> QED BY <3>3, <5>5, <5>10
          <5>18. SplaySet \ {r} = {m} \cup w[y2] \cup v[z]  BY <5>17
          <5> QED BY <5>15, <5>16, <5>18
        <4> QED BY <4>1, <4>2
      <3> QED BY <3>1, <3>9 DEF SplayOrder!Remove
    <2> QED BY <2>5, <2>6
  <1> QED BY <1>1, <1>2

-----------------------------------------------------------------------------
(***************************************************************************)
(* The theorems.                                                           *)
(***************************************************************************)
LEMMA EmptyIsSplay == ASSUME ElementsFit PROVE SplayInit => SplaySound(splay)
  <1>1. NoChild \in [Sides -> Link] /\ Null \in Link  BY DEF NoChild, Link
  <1>2. SplayEmpty \in SplayTree /\ SplayEmpty.root = Null  BY <1>1 DEF SplayEmpty, SplayTree
  <1>3. IsTree(SplayEmpty.child, SplayEmpty.root, [x \in Link |-> {}])  BY <1>2, NoTree
  <1>4. SplaySound(SplayEmpty)  BY <1>2, <1>3 DEF SplaySound
  <1> QED BY <1>4 DEF SplayInit

LEMMA SplayStays ==
  ASSUME ElementsFit, NodeIsNoElement, SplaySound(splay), [SplayNext]_splayVars
  PROVE  SplaySound(splay')
  <1>1. CASE UNCHANGED splayVars  BY <1>1 DEF splayVars
  <1>2. ASSUME NEW e \in TreeElem, SplayInsert(e) \/ SplayRemove(e) \/ SplayFind(e) \/ SplayAfter(e) PROVE SplaySound(splay')
    BY <1>2, SplayInsertActs, SplayRemoveActs, SplayFindActs, SplayAfterActs
  <1>3. ASSUME NEW s \in Sides, SplayMinMax(s) PROVE SplaySound(splay')
    BY <1>3, SplayMinMaxActs
  <1> QED BY <1>1, <1>2, <1>3 DEF SplayNext

\* Whatever is searched, inserted and removed, the pointers are those of a search tree (tree.h
\* 85-291): what SPLAY takes apart is put together in the order of the keys.
THEOREM SplaySoundAlways ==
  ASSUME ElementsFit, NodeIsNoElement
  PROVE  SplaySpec => []SplaySound(splay)
  <1>1. SplayInit => SplaySound(splay)  BY EmptyIsSplay
  <1>2. SplaySound(splay) /\ [SplayNext]_splayVars => SplaySound(splay)'  BY SplayStays DEF SplaySound
  <1> QED BY <1>1, <1>2, PTL DEF SplaySpec

\* SPLAY_INSERT, SPLAY_REMOVE, SPLAY_FIND, SPLAY_NEXT, SPLAY_MIN and SPLAY_MAX do to the tree
\* what they do to a set in the order of the keys, and answer what the set answers.
THEOREM SplayActs ==
  ASSUME ElementsFit, NodeIsNoElement
  PROVE  SplaySpec => SplayActsOnSet
  <1> DEFINE Acts ==
        /\ \A e \in TreeElem :
             /\ SplayInsert(e) => SplayOrder!Insert(e)
             /\ SplayRemove(e) => SplayOrder!Remove(e)
             /\ SplayFind(e)   => SplayOrder!Ask(SplayOrder!FindOf(e))
             /\ SplayAfter(e)  => SplayOrder!Ask(SplayOrder!NextOf(e))
        /\ SplayMinMax("left")  => SplayOrder!Ask(SplayOrder!MinOf)
        /\ SplayMinMax("right") => SplayOrder!Ask(SplayOrder!MaxOf)
  <1>1. SplaySound(splay) => Acts
    <2> SUFFICES ASSUME SplaySound(splay) PROVE Acts
      OBVIOUS
    <2>1. ASSUME NEW e \in TreeElem
          PROVE  /\ SplayInsert(e) => SplayOrder!Insert(e)
                 /\ SplayRemove(e) => SplayOrder!Remove(e)
                 /\ SplayFind(e)   => SplayOrder!Ask(SplayOrder!FindOf(e))
                 /\ SplayAfter(e)  => SplayOrder!Ask(SplayOrder!NextOf(e))
      BY SplayInsertActs, SplayRemoveActs, SplayFindActs, SplayAfterActs
    <2>2. SplayMinMax("left") => SplayOrder!Ask(SplayOrder!MinOf)  BY SplayMinMaxActs DEF Sides
    <2>3. SplayMinMax("right") => SplayOrder!Ask(SplayOrder!MaxOf)  BY SplayMinMaxActs DEF Sides
    <2> QED BY <2>1, <2>2, <2>3
  <1> QED BY <1>1, SplaySoundAlways, PTL DEF SplayActsOnSet
=============================================================================
