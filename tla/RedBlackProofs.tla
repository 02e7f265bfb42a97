---------------------------- MODULE RedBlackProofs ----------------------------
(***************************************************************************)
(* Red-black trees act on a set, keep their rules and answer rightly, for  *)
(* any number of elements.                                                 *)
(***************************************************************************)
EXTENDS RedBlack, TreesProofs

-----------------------------------------------------------------------------
(***************************************************************************)
(* What the macros do to the fields.                                       *)
(***************************************************************************)
LEMMA SetChildIs ==
  ASSUME NEW t \in Tree, NEW e \in TreeElem, NEW s \in Sides, NEW c \in Link
  PROVE  /\ SetChild(t, e, s, c) \in Tree
         /\ SetChild(t, e, s, c).root = t.root /\ SetChild(t, e, s, c).parent = t.parent
         /\ SetChild(t, e, s, c).color = t.color
         /\ \A a \in TreeElem : \A x \in Sides :
              SetChild(t, e, s, c).child[a][x] = IF a = e /\ x = s THEN c ELSE t.child[a][x]
  BY DEF SetChild, Tree

LEMMA SetParentIs ==
  ASSUME NEW t \in Tree, NEW e \in Link, NEW p \in Link, Null \notin TreeElem
  PROVE  /\ SetParent(t, e, p) \in Tree
         /\ SetParent(t, e, p).root = t.root /\ SetParent(t, e, p).child = t.child
         /\ SetParent(t, e, p).color = t.color
         /\ \A a \in TreeElem : SetParent(t, e, p).parent[a] = IF a = e THEN p ELSE t.parent[a]
  BY DEF SetParent, Tree, Link

LEMMA PaintIs ==
  ASSUME NEW t \in Tree, NEW e \in Link, NEW k \in {"red", "black"}, Null \notin TreeElem
  PROVE  /\ Paint(t, e, k) \in Tree
         /\ Paint(t, e, k).root = t.root /\ Paint(t, e, k).child = t.child
         /\ Paint(t, e, k).parent = t.parent
         /\ \A a \in TreeElem : Paint(t, e, k).color[a] = IF a = e THEN k ELSE t.color[a]
  BY DEF Paint, Tree, Link

LEMMA HangIs ==
  ASSUME NEW t \in Tree, NEW p \in Link, NEW old, NEW new \in Link, Null \notin TreeElem
  PROVE  /\ Hang(t, p, old, new) \in Tree
         /\ Hang(t, p, old, new).root = IF p = Null THEN new ELSE t.root
         /\ Hang(t, p, old, new).parent = t.parent /\ Hang(t, p, old, new).color = t.color
         /\ \A a \in TreeElem : \A x \in Sides :
              Hang(t, p, old, new).child[a][x] =
                IF a = p /\ x = SideOf(t, old, p) THEN new ELSE t.child[a][x]
  <1>1. SideOf(t, old, p) \in Sides  BY DEF SideOf, Sides
  <1>2. CASE p = Null
    <2>1. \A a \in TreeElem : a # p  BY <1>2
    <2> QED BY <1>2, <2>1 DEF Hang, Tree
  <1>3. CASE p # Null
    <2>1. p \in TreeElem  BY <1>3 DEF Link
    <2> QED BY <1>1, <1>3, <2>1, SetChildIs DEF Hang
  <1> QED BY <1>2, <1>3

-----------------------------------------------------------------------------
(***************************************************************************)
(* The shape: children, parents and keys.                                  *)
(***************************************************************************)
Shape(t, u) ==
  /\ t \in Tree /\ IsTree(t.child, t.root, u)
  /\ t.root # Null => t.parent[t.root] = Null
  /\ \A e \in u[t.root] : \A s \in Sides :
       t.child[e][s] # Null => t.parent[t.child[e][s]] = e

LEMMA TreeFields ==
  ASSUME NEW t \in Tree
  PROVE  /\ t.root \in Link
         /\ \A e \in TreeElem : t.parent[e] \in Link /\ t.color[e] \in {"red", "black"}
         /\ \A e \in TreeElem : \A s \in Sides : t.child[e][s] \in Link
  BY DEF Tree

\* The loop of the model finds the elements below e.
LEMMA BelowShape ==
  ASSUME ElementsFit, NEW t, NEW u, Shape(t, u), NEW e \in u[t.root]
  PROVE  Below(t, e) = u[e]
  <1>1. \A x, y : IsTree(t.child, x, y) => \A a \in y[x] : Below(t, a) = y[a]
    BY BelowIs
  <1>2. IsTree(t.child, t.root, u)  BY DEF Shape
  <1> QED BY <1>1, <1>2

\* An element is the child of its parent, on the side that the macros find.
LEMMA ParentIs ==
  ASSUME ElementsFit, NEW t, NEW u, Shape(t, u), NEW x \in u[t.root]
  PROVE  /\ x \in TreeElem /\ x # Null
         /\ t.parent[x] = Null <=> x = t.root
         /\ x # t.root =>
              /\ t.parent[x] \in u[t.root] /\ t.parent[x] \in TreeElem /\ t.parent[x] # x
              /\ SideOf(t, x, t.parent[x]) \in Sides
              /\ t.child[t.parent[x]][SideOf(t, x, t.parent[x])] = x
              /\ x \in u[t.parent[x]] /\ t.parent[x] \notin u[x]
         /\ \A e \in u[t.root] : \A s \in Sides :
              t.child[e][s] = x => /\ x # t.root /\ t.parent[x] = e
                                   /\ SideOf(t, x, t.parent[x]) = s
  <1> DEFINE X == u[t.root]
  <1>1. IsTree(t.child, t.root, u) /\ x \in TreeElem /\ x # Null /\ x \in u[x] /\ t.root \in X /\ t.root # Null
    BY DEF Shape, IsTree, ElementsFit
  <1>2. ASSUME NEW e \in X, NEW s \in Sides, t.child[e][s] = x
        PROVE  /\ x # t.root /\ t.parent[x] = e /\ SideOf(t, x, t.parent[x]) = s
               /\ x \in u[e] /\ e \notin u[x] /\ e # x /\ e \in TreeElem
    <2>1. t.parent[x] = e  BY <1>1, <1>2 DEF Shape
    <2>2. x # t.root  BY <1>1, <1>2, OneParent
    <2>3. SideOf(t, x, e) \in Sides /\ t.child[e][SideOf(t, x, e)] = x
      BY <1>2 DEF SideOf, Sides
    <2>4. SideOf(t, x, e) = s
      BY <1>1, <1>2, <2>3, OneParent
    <2>5. x \in u[e] /\ e \notin u[x] /\ e # x /\ e \in TreeElem
      BY <1>1, <1>2, ChildSmaller
    <2> QED BY <2>1, <2>2, <2>4, <2>5
  <1>3. CASE x # t.root
    <2>1. PICK e \in X : \E s \in Sides : t.child[e][s] = x
      BY <1>1, <1>3, HasParent
    <2>2. PICK s \in Sides : t.child[e][s] = x
      BY <2>1
    <2>3. e \in TreeElem /\ e # Null  BY <1>2, <2>2 DEF ElementsFit
    <2> QED BY <1>1, <1>2, <1>3, <2>2, <2>3
  <1>4. CASE x = t.root
    BY <1>1, <1>2, <1>4 DEF Shape
  <1> QED BY <1>3, <1>4

\* RB_ROTATE_LEFT, RB_ROTATE_RIGHT, field by field.
LEMMA RotateFields ==
  ASSUME ElementsFit, NEW t, NEW u, Shape(t, u), NEW e \in u[t.root], NEW s \in Sides,
         NEW up, up = t.child[e][Other(s)], up # Null,
         NEW inner, inner = t.child[up][s],
         NEW r, r = Rotate(t, e, s)
  PROVE  /\ r \in Tree /\ r.color = t.color
         /\ r.root = IF e = t.root THEN up ELSE t.root
         /\ \A a \in TreeElem : r.parent[a] = IF a = up THEN t.parent[e]
                                              ELSE IF a = e THEN up
                                              ELSE IF a = inner THEN e ELSE t.parent[a]
         /\ \A a \in u[t.root] : \A x \in Sides :
              r.child[a][x] = IF a = e /\ x = Other(s) THEN inner
                              ELSE IF a = up /\ x = s THEN e
                              ELSE IF t.child[a][x] = e THEN up ELSE t.child[a][x]
  <1> DEFINE p  == t.parent[e]
             X  == u[t.root]
             t1 == SetChild(t, e, Other(s), inner)
             t2 == SetParent(t1, inner, e)
             t3 == SetParent(t2, up, p)
             t4 == Hang(t3, p, e, up)
             t5 == SetChild(t4, up, s, e)
  <1> HIDE DEF t1, t2, t3, t4, t5
  <1>1. /\ Null \notin TreeElem /\ t \in Tree /\ IsTree(t.child, t.root, u) /\ Other(s) \in Sides
        /\ Other(s) # s
    BY SidesAre DEF Shape, ElementsFit
  <1>2. /\ e \in TreeElem /\ up \in X /\ up \in TreeElem /\ inner \in Link /\ e # up /\ e # Null
        /\ p \in Link /\ e \in Link /\ up \in Link
    <2>1. e \in TreeElem /\ up \in X /\ e # up  BY <1>1, ChildSmaller
    <2>2. up \in TreeElem  BY <1>1, <2>1, ChildSmaller
    <2> QED BY <1>1, <2>1, <2>2, TreeFields DEF Link
  <1>3. inner # e /\ inner # up
    <2>1. inner # up  BY <1>1, <1>2, ChildSmaller
    <2>2. inner # e
      <3>1. up \in u[e] /\ e \notin u[up]  BY <1>1, ChildSmaller
      <3>2. inner # Null => inner \in u[up]  BY <1>1, <1>2, ChildSmaller
      <3> QED BY <1>2, <3>1, <3>2
    <2> QED BY <2>1, <2>2
  <1>4. e # t.root => p \in X /\ p \in TreeElem /\ p # Null /\ p # e /\ p # up
                      /\ SideOf(t, e, p) \in Sides /\ t.child[p][SideOf(t, e, p)] = e
    <2>1. e # t.root => p # up
      <3>1. up \in u[e]  BY <1>1, ChildSmaller
      <3> QED BY <3>1, ParentIs
    <2> QED BY <1>1, <2>1, ParentIs
  <1>5. e = t.root => p = Null
    BY <1>1, <1>2 DEF Shape
  <1>6. /\ t1 \in Tree /\ t1.root = t.root /\ t1.parent = t.parent /\ t1.color = t.color
        /\ \A a \in TreeElem : \A x \in Sides :
             t1.child[a][x] = IF a = e /\ x = Other(s) THEN inner ELSE t.child[a][x]
    <2> HIDE DEF p, X
    <2>1. t \in Tree /\ e \in TreeElem /\ Other(s) \in Sides /\ inner \in Link  BY <1>1, <1>2
    <2> QED BY ONLY <2>1, SetChildIs DEF t1
  <1>7. /\ t2 \in Tree /\ t2.root = t.root /\ t2.child = t1.child /\ t2.color = t.color
        /\ \A a \in TreeElem : t2.parent[a] = IF a = inner THEN e ELSE t.parent[a]
    <2>1. t1 \in Tree /\ inner \in Link /\ e \in Link /\ Null \notin TreeElem  BY <1>1, <1>2, <1>6
    <2> QED BY ONLY <2>1, <1>6, SetParentIs DEF t2
  <1>8. /\ t3 \in Tree /\ t3.root = t.root /\ t3.child = t1.child /\ t3.color = t.color
        /\ \A a \in TreeElem : t3.parent[a] = IF a = up THEN p ELSE IF a = inner THEN e ELSE t.parent[a]
    <2>1. t2 \in Tree /\ up \in Link /\ p \in Link /\ Null \notin TreeElem  BY <1>1, <1>2, <1>7
    <2> QED BY ONLY <2>1, <1>7, SetParentIs DEF t3
  <1>10. p # Null => SideOf(t3, e, p) = SideOf(t, e, p)
    <2>1. p # Null => e # t.root  BY <1>5
    <2>2. p # Null => \A x \in Sides : t3.child[p][x] = t.child[p][x]
      BY <1>4, <1>6, <1>8, <2>1
    <2> QED BY <2>2 DEF SideOf, Sides
  <1>11. /\ t4 \in Tree /\ t4.root = (IF p = Null THEN up ELSE t.root)
         /\ t4.parent = t3.parent /\ t4.color = t.color
         /\ \A a \in TreeElem : \A x \in Sides :
              t4.child[a][x] = IF a = p /\ x = SideOf(t3, e, p) THEN up ELSE t1.child[a][x]
    <2>1. t3 \in Tree /\ p \in Link /\ up \in Link /\ Null \notin TreeElem  BY <1>1, <1>2, <1>8
    <2> QED BY ONLY <2>1, <1>8, HangIs DEF t4
  <1>12. /\ t5 \in Tree /\ t5.root = t4.root /\ t5.parent = t3.parent /\ t5.color = t.color
         /\ \A a \in TreeElem : \A x \in Sides :
              t5.child[a][x] = IF a = up /\ x = s THEN e ELSE t4.child[a][x]
    <2>1. t4 \in Tree /\ up \in TreeElem /\ e \in Link /\ s \in Sides  BY <1>1, <1>2, <1>11
    <2> QED BY ONLY <2>1, <1>11, SetChildIs DEF t5
  <1>13. r = SetParent(t5, e, up)
    <2>1. r = Raise(t2, up, e, s)
      <3>1. r = Raise(SetParent(SetChild(t, e, Other(s), inner), inner, e), up, e, s)
        BY ONLY up = t.child[e][Other(s)], inner = t.child[up][s], r = Rotate(t, e, s) DEF Rotate
      <3> QED BY ONLY <3>1, Zenon DEF t1, t2
    <2>2. t2.parent[e] = p  BY <1>2, <1>3, <1>7
    <2>3. \A y : Raise(y, up, e, s) =
                   SetParent(SetChild(Hang(SetParent(y, up, y.parent[e]), y.parent[e], e, up), up, s, e), e, up)
      BY Zenon DEF Raise
    <2> QED BY ONLY <2>1, <2>2, <2>3, Zenon DEF t3, t4, t5
  <1>14. /\ r \in Tree /\ r.root = t4.root /\ r.child = t5.child /\ r.color = t.color
         /\ \A a \in TreeElem : r.parent[a] = IF a = e THEN up ELSE t3.parent[a]
    <2>1. t5 \in Tree /\ e \in Link /\ up \in Link /\ Null \notin TreeElem  BY <1>1, <1>2, <1>12
    <2> QED BY ONLY <2>1, <1>12, <1>13, SetParentIs
  <1>15. r.root = IF e = t.root THEN up ELSE t.root
    BY <1>4, <1>5, <1>11, <1>14
  <1>16. ASSUME NEW a \in TreeElem
         PROVE  r.parent[a] = IF a = up THEN t.parent[e] ELSE IF a = e THEN up
                              ELSE IF a = inner THEN e ELSE t.parent[a]
    BY <1>2, <1>8, <1>14
  <1>17. ASSUME NEW a \in X, NEW x \in Sides
         PROVE  r.child[a][x] = IF a = e /\ x = Other(s) THEN inner
                                ELSE IF a = up /\ x = s THEN e
                                ELSE IF t.child[a][x] = e THEN up ELSE t.child[a][x]
    <2>1. a \in TreeElem  BY <1>1 DEF IsTree
    <2>2. r.child[a][x] = IF a = up /\ x = s THEN e
                          ELSE IF a = p /\ x = SideOf(t3, e, p) THEN up
                          ELSE IF a = e /\ x = Other(s) THEN inner ELSE t.child[a][x]
      BY <1>6, <1>11, <1>12, <1>14, <2>1
    <2>3. t.child[a][x] = e <=> p # Null /\ a = p /\ x = SideOf(t, e, p)
      BY <1>4, <1>5, <1>17, ParentIs
    <2>4. p # Null /\ a = p => a # up /\ a # e
      BY <1>4, <1>5
    <2>5. a # Null  BY <1>1, <2>1
    <2> QED BY <1>2, <1>10, <2>2, <2>3, <2>4, <2>5
  <1> QED BY <1>14, <1>15, <1>16, <1>17

\* r is the tree t after a rotation, and v are its families.
Rotated(t, u, e, s, o, up, l, inner, outer, r, v) ==
  /\ Shape(t, u) /\ Place(t.child, t.root, u, e, s, o, up, l, inner, outer)
  /\ r = Rotate(t, e, s) /\ v = [u EXCEPT ![up] = u[e], ![e] = {e} \cup u[l] \cup u[inner]]

\* A rotated tree is a tree of the same elements.
LEMMA RotateShape ==
  ASSUME ElementsFit, NEW t, NEW u, NEW e, NEW s, NEW o, NEW up, NEW l, NEW inner, NEW outer,
         NEW r, NEW v, Rotated(t, u, e, s, o, up, l, inner, outer, r, v)
  PROVE  /\ Shape(r, v) /\ v[r.root] = u[t.root] /\ r.color = t.color
         /\ r.root = (IF e = t.root THEN up ELSE t.root)
         /\ \A x \in Sides : r.child[e][x] = IF x = o THEN inner ELSE l
         /\ \A x \in Sides : r.child[up][x] = IF x = s THEN e ELSE outer
         /\ \A a \in u[t.root] : a # e /\ a # up =>
              \A x \in Sides : r.child[a][x] = IF t.child[a][x] = e THEN up ELSE t.child[a][x]
         /\ \A a \in TreeElem : r.parent[a] = IF a = up THEN t.parent[e] ELSE IF a = e THEN up
                                              ELSE IF a = inner THEN e ELSE t.parent[a]
         /\ \A a \in Link : a # e /\ a # up => v[a] = u[a]
         /\ v[up] = u[e] /\ v[e] = {e} \cup u[l] \cup u[inner]
  <1> DEFINE X == u[t.root]
             c == t.child
             d == r.child
  <1>0. /\ Shape(t, u) /\ Place(t.child, t.root, u, e, s, o, up, l, inner, outer)
         /\ r = Rotate(t, e, s)
         /\ v = [u EXCEPT ![up] = u[e], ![e] = {e} \cup u[l] \cup u[inner]]
    BY DEF Rotated
  <1>9. /\ IsTree(c, t.root, u) /\ e \in X /\ s \in Sides /\ c[e][o] = up /\ c[up][s] = inner
        /\ c[up][o] = outer /\ c[e][s] = l /\ up # Null /\ o = Other(s) /\ t \in Tree /\ Null \notin TreeElem
        /\ X \subseteq TreeElem
    BY <1>0 DEF Place, Shape, ElementsFit, IsTree
  <1>1. /\ r \in Tree /\ r.color = t.color
        /\ r.root = IF e = t.root THEN up ELSE t.root
        /\ \A a \in TreeElem : r.parent[a] = IF a = up THEN t.parent[e] ELSE IF a = e THEN up
                                             ELSE IF a = inner THEN e ELSE t.parent[a]
        /\ \A a \in X : \A x \in Sides : d[a][x] = IF a = e /\ x = o THEN inner
                                                   ELSE IF a = up /\ x = s THEN e
                                                   ELSE IF c[a][x] = e THEN up ELSE c[a][x]
    BY <1>0, <1>9, RotateFields
  <1>2. /\ e \in TreeElem /\ up \in TreeElem /\ up \in X /\ e # up /\ o \in Sides /\ o # s
        /\ \A x \in Sides : x = s \/ x = o
    BY <1>0, TurnParts
  <1>3. /\ inner # e /\ inner # up /\ l # e /\ l # up /\ outer # e /\ outer # up
        /\ (l # Null => l \in X /\ l # inner /\ l # outer)
        /\ (inner # Null => inner \in X /\ inner # outer /\ inner # t.root)
        /\ (outer # Null => outer \in X) /\ up # t.root
    BY <1>0, TurnParts
  <1>4. /\ \A x \in Sides : d[e][x] = IF x = o THEN inner ELSE l
        /\ \A x \in Sides : d[up][x] = IF x = s THEN e ELSE outer
        /\ \A a \in X : a # e /\ a # up =>
             \A x \in Sides : d[a][x] = IF c[a][x] = e THEN up ELSE c[a][x]
    BY <1>9, <1>1, <1>2, <1>3
  <1>5. /\ IsTree(d, r.root, v) /\ v[r.root] = X
        /\ \A a \in Link : a # e /\ a # up => v[a] = u[a]
        /\ v[up] = u[e] /\ v[e] = {e} \cup u[l] \cup u[inner]
    <2>1. ElementsFit /\ Place(c, t.root, u, e, s, o, up, l, inner, outer)
      BY <1>0
    <2>2. r.root = IF e = t.root THEN up ELSE t.root
      BY <1>1
    <2>3. v = [u EXCEPT ![up] = u[e], ![e] = {e} \cup u[l] \cup u[inner]]
      BY <1>0
    <2> HIDE DEF c, d, X
    <2>4. \A a \in u[t.root] : a # e /\ a # up =>
            \A x \in Sides : d[a][x] = IF c[a][x] = e THEN up ELSE c[a][x]
      BY <1>4 DEF X
    <2>5. /\ IsTree(d, r.root, v) /\ v[r.root] = u[t.root]
          /\ \A a \in Link : a # e /\ a # up => v[a] = u[a]
          /\ v[up] = u[e] /\ v[e] = {e} \cup u[l] \cup u[inner]
      <3>1. Turned(c, t.root, u, e, s, o, up, l, inner, outer, d, r.root, v)
        BY ONLY <1>4, <2>1, <2>2, <2>3, <2>4 DEF Turned
      <3> QED BY ONLY <2>1, <3>1, Turn
    <2> QED BY <2>5 DEF X
  <1>6. r.parent[r.root] = Null
    <2>1. t.parent[t.root] = Null /\ t.root \in TreeElem  BY <1>0, <1>9 DEF Shape, IsTree
    <2> QED BY <1>9, <1>1, <1>2, <1>3, <2>1
  <1>7. ASSUME NEW a \in X, NEW x \in Sides, d[a][x] # Null PROVE r.parent[d[a][x]] = a
    <2>1. \A z \in X : \A q \in Sides : c[z][q] # Null => t.parent[c[z][q]] = z
      BY <1>0 DEF Shape
    <2>2. CASE a = e
      <3>1. CASE x = o
        <4>1. d[a][x] = inner /\ inner \in TreeElem  BY <1>9, <1>3, <1>4, <1>7, <2>2, <3>1
        <4> QED BY <1>1, <1>3, <2>2, <4>1
      <3>2. CASE x # o
        <4>1. d[a][x] = l /\ l \in TreeElem /\ l # inner  BY <1>9, <1>3, <1>4, <1>7, <2>2, <3>2
        <4>2. t.parent[l] = e  BY <1>9, <1>7, <2>1, <4>1
        <4> QED BY <1>1, <1>3, <2>2, <4>1, <4>2
      <3> QED BY <3>1, <3>2
    <2>3. CASE a = up
      <3>1. CASE x = s
        <4>1. d[a][x] = e  BY <1>4, <2>3, <3>1
        <4> QED BY <1>1, <1>2, <2>3, <4>1
      <3>2. CASE x # s
        <4>1. d[a][x] = outer /\ outer \in TreeElem /\ outer # inner
          BY <1>9, <1>3, <1>4, <1>7, <2>3, <3>2
        <4>2. t.parent[outer] = up  BY <1>9, <1>2, <1>7, <2>1, <4>1
        <4> QED BY <1>1, <1>3, <2>3, <4>1, <4>2
      <3> QED BY <3>1, <3>2
    <2>4. CASE a # e /\ a # up
      <3>1. CASE c[a][x] = e
        <4>1. d[a][x] = up /\ t.parent[e] = a  BY <1>2, <1>4, <2>1, <2>4, <3>1, <1>9
        <4> QED BY <1>1, <1>2, <4>1
      <3>2. CASE c[a][x] # e
        <4>1. d[a][x] = c[a][x]  BY <1>4, <2>4, <3>2
        <4>2. c[a][x] # inner /\ c[a][x] # up
          BY <1>9, <1>2, <1>7, <2>4, <4>1, OneParent
        <4>3. c[a][x] \in TreeElem  BY <1>9, <1>7, <4>1, ChildSmaller
        <4>4. t.parent[c[a][x]] = a  BY <1>7, <2>1, <4>1
        <4> QED BY <1>1, <3>2, <4>1, <4>2, <4>3, <4>4
      <3> QED BY <3>1, <3>2
    <2> QED BY <2>2, <2>3, <2>4
  <1>8. Shape(r, v)
    BY <1>1, <1>5, <1>6, <1>7 DEF Shape
  <1> QED BY <1>1, <1>4, <1>5, <1>8

-----------------------------------------------------------------------------
(***************************************************************************)
(* The colours.  c are the children, r is the root, w are the colours and  *)
(* u the families.  h gives the number of black elements from an element   *)
(* down to a leaf; below p on side s one may be missing.                   *)
(***************************************************************************)
IsRed(w, e)  == e # Null /\ w[e] = "red"
Weight(w, a) == IF w[a] = "black" THEN 1 ELSE 0
Lack(a, x, p, s) == IF a = p /\ x = s THEN 1 ELSE 0

Level(c, w, X, h, p, s) ==
  /\ h \in [Link -> Nat] /\ h[Null] = 0
  /\ \A a \in X : \A x \in Sides : h[a] = h[c[a][x]] + Weight(w, a) + Lack(a, x, p, s)

\* Paint does not change the shape.
LEMMA PaintShape ==
  ASSUME Null \notin TreeElem, NEW t, NEW u, Shape(t, u), NEW e \in Link, NEW k \in {"red", "black"}
  PROVE  Shape(Paint(t, e, k), u)
  <1>1. t \in Tree  BY DEF Shape
  <1>2. /\ Paint(t, e, k) \in Tree /\ Paint(t, e, k).root = t.root
        /\ Paint(t, e, k).child = t.child /\ Paint(t, e, k).parent = t.parent
    BY <1>1, PaintIs
  <1> QED BY <1>2 DEF Shape

\* r is the tree t with e in the colour k.
Recoloured(t, u, e, k, r) ==
  Shape(t, u) /\ e \in Link /\ k \in {"red", "black"} /\ r = Paint(t, e, k)

LEMMA Painted ==
  ASSUME Null \notin TreeElem, NEW t, NEW u, NEW e, NEW k, NEW r, Recoloured(t, u, e, k, r)
  PROVE  /\ r \in Tree /\ Shape(r, u) /\ r.root = t.root /\ r.child = t.child
         /\ r.color \in [TreeElem -> {"red", "black"}]
         /\ \A a \in TreeElem : r.color[a] = IF a = e THEN k ELSE t.color[a]
  <1>0. Shape(t, u) /\ e \in Link /\ k \in {"red", "black"} /\ r = Paint(t, e, k)
    BY DEF Recoloured
  <1>1. t \in Tree  BY <1>0 DEF Shape
  <1>2. /\ r \in Tree /\ r.root = t.root /\ r.child = t.child
        /\ \A a \in TreeElem : r.color[a] = IF a = e THEN k ELSE t.color[a]
    BY <1>0, <1>1, PaintIs
  <1>3. Shape(r, u)  BY <1>0, PaintShape
  <1>4. r.color \in [TreeElem -> {"red", "black"}]  BY <1>2 DEF Tree
  <1> QED BY <1>2, <1>3, <1>4

LEMMA BlackRedIs ==
  ASSUME Null \notin TreeElem, NEW t, NEW u, Shape(t, u), NEW b \in TreeElem, NEW r \in TreeElem
  PROVE  /\ Shape(BlackRed(t, b, r), u) /\ BlackRed(t, b, r) \in Tree
         /\ BlackRed(t, b, r).root = t.root /\ BlackRed(t, b, r).child = t.child
         /\ BlackRed(t, b, r).parent = t.parent
         /\ \A a \in TreeElem : BlackRed(t, b, r).color[a] =
              IF a = r THEN "red" ELSE IF a = b THEN "black" ELSE t.color[a]
  <1>1. t \in Tree /\ b \in Link /\ r \in Link  BY DEF Shape, Link
  <1> DEFINE t1 == Paint(t, b, "black")
  <1>2. /\ t1 \in Tree /\ t1.root = t.root /\ t1.child = t.child /\ t1.parent = t.parent
        /\ \A a \in TreeElem : t1.color[a] = IF a = b THEN "black" ELSE t.color[a]
    BY <1>1, PaintIs
  <1>3. Shape(t1, u)  BY <1>1, PaintShape
  <1>4. BlackRed(t, b, r) = Paint(t1, r, "red")  BY DEF BlackRed
  <1> HIDE DEF t1
  <1>5. /\ Paint(t1, r, "red") \in Tree /\ Paint(t1, r, "red").root = t1.root
        /\ Paint(t1, r, "red").child = t1.child /\ Paint(t1, r, "red").parent = t1.parent
        /\ \A a \in TreeElem : Paint(t1, r, "red").color[a] = IF a = r THEN "red" ELSE t1.color[a]
    BY <1>1, <1>2, PaintIs
  <1>6. Shape(Paint(t1, r, "red"), u)  BY <1>1, <1>3, PaintShape
  <1> QED BY <1>2, <1>4, <1>5, <1>6

-----------------------------------------------------------------------------
(***************************************************************************)
(* Insertion.                                                              *)
(***************************************************************************)
\* Only the red element e may have a red parent, or be a red root.
Inserting(c, r, w, u, h, e) ==
  /\ IsTree(c, r, u) /\ w \in [TreeElem -> {"red", "black"}]
  /\ Level(c, w, u[r], h, Null, "left") /\ e \in u[r] /\ IsRed(w, e)
  /\ \A a \in u[r] : \A x \in Sides : IsRed(w, a) /\ IsRed(w, c[a][x]) => c[a][x] = e
  /\ IsRed(w, r) => r = e

\* The parent p of e is red too; g is the grandparent and n the uncle.
InsertAt(c, r, w, u, h, e, p, g, s, n) ==
  /\ Inserting(c, r, w, u, h, e)
  /\ p \in u[r] /\ IsRed(w, p) /\ \E x \in Sides : c[p][x] = e
  /\ g \in u[r] /\ s \in Sides /\ c[g][s] = p /\ n = c[g][Other(s)]

LEMMA InsertPlace ==
  ASSUME ElementsFit, NEW c, NEW r, NEW w, NEW u, NEW h, NEW e, NEW p, NEW g, NEW s, NEW n,
         InsertAt(c, r, w, u, h, e, p, g, s, n)
  PROVE  /\ IsTree(c, r, u) /\ w \in [TreeElem -> {"red", "black"}] /\ u[r] \subseteq TreeElem /\ Null \notin TreeElem
         /\ r \in TreeElem
         /\ e \in u[r] /\ p \in u[r] /\ g \in u[r] /\ e # r /\ p # r
         /\ e \in TreeElem /\ p \in TreeElem /\ g \in TreeElem /\ e # p /\ p # g /\ e # g
         /\ s \in Sides /\ Other(s) \in Sides /\ c[g][s] = p /\ c[g][Other(s)] = n
         /\ n \in Link /\ n # p /\ n # g /\ n # e
         /\ w[g] = "black" /\ w[p] = "red" /\ w[e] = "red" /\ ~IsRed(w, r)
         /\ e \in u[p] /\ p \in u[g] /\ g \notin u[e] /\ u[e] \subseteq u[g] /\ u[g] \subseteq u[r]
  <1>1. /\ IsTree(c, r, u) /\ w \in [TreeElem -> {"red", "black"}] /\ e \in u[r] /\ IsRed(w, e)
        /\ Null \notin TreeElem /\ u[r] \subseteq TreeElem /\ p \in u[r] /\ g \in u[r] /\ s \in Sides /\ c[g][s] = p
        /\ n = c[g][Other(s)] /\ IsRed(w, p) /\ p # Null /\ e # Null
    BY DEF InsertAt, Inserting, IsTree, ElementsFit, IsRed
  <1>2. PICK x \in Sides : c[p][x] = e  BY DEF InsertAt
  <1>3. e # r /\ p # r  BY <1>1, <1>2, OneParent
  <1>4. e \in u[p] /\ e # p /\ p \notin u[e] /\ u[e] \subseteq u[p]
    BY <1>1, <1>2, ChildSmaller
  <1>5. p \in u[g] /\ p # g /\ g \notin u[p] /\ u[p] \subseteq u[g] /\ u[p] \cap u[n] = {}
    <2>1. /\ u[c[g][s]] \subseteq u[g] /\ g \notin u[c[g][s]]
          /\ u[c[g][s]] \cap u[c[g][Other(s)]] = {}
          /\ (c[g][s] # Null => c[g][s] \in u[g] /\ c[g][s] # g)
      BY SMTT(30), <1>1, ChildSmaller
    <2> QED BY <1>1, <2>1
  <1>6. Other(s) \in Sides /\ n \in Link /\ n # g
    <2>1. Other(s) \in Sides  BY <1>1, SidesAre
    <2>2. g # Null  BY <1>1
    <2> QED BY <1>1, <2>1, <2>2, ChildSmaller
  <1>7. u[g] \subseteq u[r] /\ p \in u[p] /\ (n # Null => n \in u[n])
    BY <1>1, <1>6 DEF IsTree
  <1>8. n # p /\ n # e  BY <1>1, <1>4, <1>5, <1>7
  <1>9. ~IsRed(w, g)
    <2>1. IsRed(w, g) /\ IsRed(w, p) => p = e  BY <1>1 DEF InsertAt, Inserting
    <2> QED BY <1>1, <1>4, <2>1
  <1>10. ~IsRed(w, r)  BY <1>3 DEF InsertAt, Inserting
  <1>11. e \in TreeElem /\ p \in TreeElem /\ g \in TreeElem /\ r \in TreeElem
    BY <1>1 DEF IsTree
  <1>12. w[g] = "black" /\ w[p] = "red" /\ w[e] = "red"
    BY <1>1, <1>9, <1>11 DEF IsRed
  <1>13. e # g /\ g \notin u[e] /\ u[e] \subseteq u[g]  BY <1>4, <1>5
  <1> QED BY <1>1, <1>3, <1>4, <1>5, <1>6, <1>7, <1>8, <1>10, <1>11, <1>12, <1>13

\* What the predicate says about heights.
LEMMA InsertLevel ==
  ASSUME ElementsFit, NEW c, NEW r, NEW w, NEW u, NEW h, NEW e, Inserting(c, r, w, u, h, e)
  PROVE  /\ h \in [Link -> Nat] /\ h[Null] = 0
         /\ \A a \in u[r] : \A x \in Sides :
              /\ a \in TreeElem /\ a \in Link /\ c[a][x] \in Link /\ c[a][x] # a /\ h[a] \in Nat /\ h[c[a][x]] \in Nat
              /\ h[a] = h[c[a][x]] + Weight(w, a)
              /\ c[a][x] # Null => c[a][x] \in u[r] /\ c[a][x] \in TreeElem
  <1>1. IsTree(c, r, u) /\ Level(c, w, u[r], h, Null, "left") /\ Null \notin TreeElem
    BY DEF Inserting, ElementsFit
  <1>2. h \in [Link -> Nat] /\ h[Null] = 0
    BY <1>1 DEF Level
  <1> SUFFICES ASSUME NEW a \in u[r], NEW x \in Sides
               PROVE  /\ a \in TreeElem /\ a \in Link /\ c[a][x] \in Link /\ c[a][x] # a /\ h[a] \in Nat
                      /\ h[c[a][x]] \in Nat /\ h[a] = h[c[a][x]] + Weight(w, a)
                      /\ c[a][x] # Null => c[a][x] \in u[r] /\ c[a][x] \in TreeElem
    BY <1>2
  <1>3. /\ a \in TreeElem /\ a \in Link /\ c[a][x] \in Link
        /\ (c[a][x] # Null => c[a][x] \in u[r] /\ c[a][x] # a)
    BY <1>1, ChildSmaller
  <1>4. h[a] = h[c[a][x]] + Weight(w, a) + Lack(a, x, Null, "left")
    BY <1>1 DEF Level
  <1>5. Lack(a, x, Null, "left") = 0 /\ Weight(w, a) \in Nat
    BY <1>1, <1>3 DEF Lack, Weight
  <1>6. h[a] \in Nat /\ h[c[a][x]] \in Nat
    BY <1>2, <1>3
  <1>7. h[a] = h[c[a][x]] + Weight(w, a)
    BY <1>4, <1>5, <1>6
  <1> QED BY <1>1, <1>3, <1>6, <1>7 DEF Link

\* The uncle is red: two levels up, the black element becomes red.
LEMMA InsertUncle ==
  ASSUME ElementsFit, NEW c, NEW r, NEW w, NEW u, NEW h, NEW e, NEW p, NEW g, NEW s, NEW n,
         InsertAt(c, r, w, u, h, e, p, g, s, n), IsRed(w, n),
         NEW z \in [TreeElem -> {"red", "black"}],
         \A a \in TreeElem : z[a] = IF a = g THEN "red" ELSE IF a = p \/ a = n THEN "black" ELSE w[a]
  PROVE  \E k : Inserting(c, r, z, u, k, g)
  <1> DEFINE X == u[r]
             o == Other(s)
             k == [h EXCEPT ![p] = h[p] + 1, ![n] = h[n] + 1]
  <1> HIDE DEF X, o, k
  <1>1. /\ IsTree(c, r, u) /\ w \in [TreeElem -> {"red", "black"}] /\ X \subseteq TreeElem /\ Null \notin TreeElem
        /\ r \in TreeElem /\ e \in X /\ p \in X /\ g \in X /\ e # r /\ p # r
    BY InsertPlace DEF X
  <1>2. /\ e \in TreeElem /\ p \in TreeElem /\ g \in TreeElem /\ e # p /\ p # g /\ e # g
        /\ s \in Sides /\ o \in Sides /\ c[g][s] = p /\ c[g][o] = n
        /\ n \in Link /\ n # p /\ n # g /\ n # e
    BY InsertPlace DEF o
  <1>3. w[g] = "black" /\ w[p] = "red" /\ w[e] = "red" /\ ~IsRed(w, r)
    BY InsertPlace
  <1>4. Inserting(c, r, w, u, h, e)  BY DEF InsertAt
  <1>5. /\ h \in [Link -> Nat] /\ h[Null] = 0
        /\ \A a \in X : \A x \in Sides :
             /\ a \in TreeElem /\ a \in Link /\ c[a][x] \in Link /\ c[a][x] # a /\ h[a] \in Nat /\ h[c[a][x]] \in Nat
             /\ h[a] = h[c[a][x]] + Weight(w, a)
             /\ c[a][x] # Null => c[a][x] \in X /\ c[a][x] \in TreeElem
    BY <1>4, InsertLevel DEF X
  <1>6. n \in TreeElem /\ n # Null /\ w[n] = "red" /\ n \in X
    BY <1>2, <1>1, <1>5 DEF IsRed
  <1>7. k \in [Link -> Nat] /\ k[Null] = 0 /\ \A a \in Link : k[a] = IF a = p \/ a = n THEN h[a] + 1 ELSE h[a]
    BY <1>1, <1>2, <1>5, <1>6 DEF Link, k
  <1>8. ASSUME NEW a \in X, NEW x \in Sides PROVE k[a] = k[c[a][x]] + Weight(z, a) + Lack(a, x, Null, "left")
    <2>1. /\ a \in TreeElem /\ a \in Link /\ c[a][x] \in Link /\ c[a][x] # a /\ h[a] \in Nat /\ h[c[a][x]] \in Nat
          /\ h[a] = h[c[a][x]] + Weight(w, a)
      BY <1>5
    <2>2. Lack(a, x, Null, "left") = 0  BY <1>1, <2>1 DEF Lack
    <2>3. k[a] = k[c[a][x]] + Weight(z, a)
      <3>1. CASE a = g
        <4>1. c[a][x] = p \/ c[a][x] = n  BY <1>2, <3>1, SidesAre DEF o
        <4>2. Weight(z, a) = 0 /\ Weight(w, a) = 1  BY <1>2, <1>3, <3>1 DEF Weight
        <4>3. k[a] = h[a] /\ k[c[a][x]] = h[c[a][x]] + 1  BY <1>2, <1>7, <2>1, <3>1, <4>1
        <4> QED BY <2>1, <4>2, <4>3
      <3>2. CASE a # g
        <4>1. c[a][x] # p /\ c[a][x] # n
          BY <1>1, <1>2, <1>6, <3>2, OneParent DEF X
        <4>2. k[c[a][x]] = h[c[a][x]]  BY <1>7, <2>1, <4>1
        <4>3. CASE a = p \/ a = n
          <5>1. k[a] = h[a] + 1 /\ Weight(z, a) = 1 /\ Weight(w, a) = 0
            BY <1>2, <1>3, <1>6, <1>7, <2>1, <3>2, <4>3 DEF Weight
          <5> QED BY <2>1, <4>2, <5>1
        <4>4. CASE ~(a = p \/ a = n)
          <5>1. k[a] = h[a] /\ Weight(z, a) = Weight(w, a)
            BY <1>7, <2>1, <3>2, <4>4 DEF Weight
          <5> QED BY <2>1, <4>2, <5>1
        <4> QED BY <4>3, <4>4
      <3> QED BY <3>1, <3>2
    <2>4. k[a] \in Nat  BY <1>7, <2>1
    <2>5. k[c[a][x]] \in Nat /\ Weight(z, a) \in Nat  BY <1>7, <2>1 DEF Weight
    <2> QED BY <2>2, <2>3, <2>4, <2>5
  <1>9. ASSUME NEW a \in X, NEW x \in Sides, IsRed(z, a), IsRed(z, c[a][x]) PROVE c[a][x] = g
    <2>1. a \in TreeElem /\ c[a][x] \in TreeElem /\ c[a][x] \in X
      BY <1>5, <1>9 DEF IsRed
    <2>2. CASE a = g
      <3>1. c[a][x] = p \/ c[a][x] = n  BY <1>2, <2>2, SidesAre DEF o
      <3> QED BY <1>2, <1>9, <2>1, <3>1 DEF IsRed
    <2>3. CASE a # g /\ c[a][x] # g
      <3>1. IsRed(w, a) /\ IsRed(w, c[a][x]) /\ a # p
        BY <1>9, <2>1, <2>3 DEF IsRed
      <3>2. c[a][x] = e  BY <1>4, <3>1 DEF Inserting, X
      <3>3. \E y \in Sides : c[p][y] = e  BY DEF InsertAt
      <3>4. a = p  BY <1>1, <1>2, <3>2, <3>3, OneParent DEF X
      <3> QED BY <3>1, <3>4
    <2> QED BY <2>2, <2>3
  <1>10. IsRed(z, r) => r = g
    BY <1>1, <1>3 DEF IsRed
  <1>11. Level(c, z, X, k, Null, "left")
    BY <1>7, <1>8 DEF Level
  <1>12. IsRed(z, g)
    BY <1>1, <1>2 DEF IsRed
  <1>13. Inserting(c, r, z, u, k, g)
    BY <1>1, <1>9, <1>10, <1>11, <1>12 DEF Inserting, X
  <1> QED BY <1>13

\* The uncle is black and e is the inner child: e and its parent change places.
LEMMA InsertInner ==
  ASSUME ElementsFit, NEW c, NEW r, NEW w, NEW u, NEW h, NEW e, NEW p, NEW g, NEW s, NEW n,
         InsertAt(c, r, w, u, h, e, p, g, s, n),
         NEW o, o = Other(s), NEW l, NEW inner, NEW outer, NEW d, NEW q, NEW v,
         Turned(c, r, u, p, s, o, e, l, inner, outer, d, q, v)
  PROVE  /\ InsertAt(d, q, w, v, h, p, e, g, s, n) /\ d[e][s] = p
  <1> DEFINE X == u[r]
  <1> HIDE DEF X
  <1>1. /\ IsTree(c, r, u) /\ w \in [TreeElem -> {"red", "black"}] /\ X \subseteq TreeElem /\ Null \notin TreeElem
        /\ r \in TreeElem /\ e \in X /\ p \in X /\ g \in X /\ e # r /\ p # r
    BY InsertPlace DEF X
  <1>2. /\ e \in TreeElem /\ p \in TreeElem /\ g \in TreeElem /\ e # p /\ p # g /\ e # g
        /\ s \in Sides /\ o \in Sides /\ c[g][s] = p /\ c[g][o] = n
        /\ n \in Link /\ n # p /\ n # g /\ n # e
    BY InsertPlace
  <1>3. w[g] = "black" /\ w[p] = "red" /\ w[e] = "red" /\ ~IsRed(w, r)
    BY InsertPlace
  <1>4. Inserting(c, r, w, u, h, e)  BY DEF InsertAt
  <1>5. /\ h \in [Link -> Nat] /\ h[Null] = 0
        /\ \A a \in X : \A x \in Sides :
             /\ a \in TreeElem /\ a \in Link /\ c[a][x] \in Link /\ c[a][x] # a /\ h[a] \in Nat /\ h[c[a][x]] \in Nat
             /\ h[a] = h[c[a][x]] + Weight(w, a)
             /\ c[a][x] # Null => c[a][x] \in X /\ c[a][x] \in TreeElem
    BY <1>4, InsertLevel DEF X
  <1>6. \A a \in X : \A x \in Sides : IsRed(w, a) /\ IsRed(w, c[a][x]) => c[a][x] = e
    BY <1>4 DEF Inserting, X
  <1>7. /\ Place(c, r, u, p, s, o, e, l, inner, outer) /\ q = r
        /\ \A x \in Sides : d[p][x] = IF x = o THEN inner ELSE l
        /\ \A x \in Sides : d[e][x] = IF x = s THEN p ELSE outer
        /\ \A a \in X : a # p /\ a # e =>
             \A x \in Sides : d[a][x] = IF c[a][x] = p THEN e ELSE c[a][x]
    BY <1>1 DEF Turned, X
  <1>8. IsTree(d, q, v) /\ v[q] = X
    BY Turn DEF X
  <1>9. /\ o # s /\ \A x \in Sides : x = s \/ x = o
        /\ l \in Link /\ inner \in Link /\ outer \in Link
        /\ l # e /\ inner # e /\ outer # e /\ l # p /\ outer # p /\ inner # p
    BY <1>7, TurnParts
  <1>10. c[p][o] = e /\ c[p][s] = l /\ c[e][s] = inner /\ c[e][o] = outer
    BY <1>7 DEF Place
  <1>11. /\ h[e] = h[p] /\ h[p] = h[l] /\ h[e] = h[inner] /\ h[e] = h[outer] /\ h[p] \in Nat
    <2>1. Weight(w, p) = 0 /\ Weight(w, e) = 0  BY <1>3 DEF Weight
    <2>2. h[p] = h[c[p][o]] + 0 /\ h[p] = h[c[p][s]] + 0 /\ h[e] = h[c[e][s]] + 0 /\ h[e] = h[c[e][o]] + 0
      BY <1>1, <1>2, <1>5, <2>1
    <2>3. h[p] \in Nat /\ h[e] \in Nat /\ h[l] \in Nat /\ h[inner] \in Nat /\ h[outer] \in Nat
      BY <1>2, <1>5, <1>9 DEF Link
    <2> QED BY <1>10, <2>2, <2>3
  <1>12. ~IsRed(w, l) /\ ~IsRed(w, inner) /\ ~IsRed(w, outer)
    <2>1. IsRed(w, p) /\ IsRed(w, e)  BY <1>1, <1>2, <1>3 DEF IsRed
    <2> QED BY <1>1, <1>2, <1>6, <1>9, <1>10, <2>1
  <1>13. ASSUME NEW a \in X, NEW x \in Sides
         PROVE  /\ h[a] = h[d[a][x]] + Weight(w, a) + Lack(a, x, Null, "left")
                /\ (IsRed(w, a) /\ IsRed(w, d[a][x]) => d[a][x] = p)
    <2>0. Lack(a, x, Null, "left") = 0 /\ Weight(w, a) \in Nat /\ h[a] \in Nat
      BY <1>1, <1>5 DEF Lack, Weight
    <2>1. CASE a = p
      <3>1. d[a][x] = inner \/ d[a][x] = l  BY <1>7, <2>1
      <3>2. h[a] = h[d[a][x]] /\ ~IsRed(w, d[a][x])  BY <1>11, <1>12, <2>1, <3>1
      <3>3. Weight(w, a) = 0  BY <1>3, <2>1 DEF Weight
      <3> QED BY <2>0, <3>2, <3>3
    <2>2. CASE a = e
      <3>1. d[a][x] = p \/ d[a][x] = outer  BY <1>7, <2>2
      <3>2. h[a] = h[d[a][x]] /\ (IsRed(w, d[a][x]) => d[a][x] = p)
        BY <1>11, <1>12, <2>2, <3>1
      <3>3. Weight(w, a) = 0  BY <1>3, <2>2 DEF Weight
      <3> QED BY <2>0, <3>2, <3>3
    <2>3. CASE a # p /\ a # e
      <3>1. d[a][x] = IF c[a][x] = p THEN e ELSE c[a][x]  BY <1>7, <2>3
      <3>2. h[a] = h[c[a][x]] + Weight(w, a)  BY <1>5
      <3>3. c[a][x] # e  BY <1>1, <1>2, <1>10, <2>3, OneParent DEF X
      <3>4. h[d[a][x]] = h[c[a][x]]  BY <1>11, <3>1
      <3>5. IsRed(w, a) => ~IsRed(w, d[a][x])
        <4>1. CASE c[a][x] = p
          <5>1. a = g  BY <1>1, <1>2, <4>1, OneParent DEF X
          <5> QED BY <1>3, <5>1 DEF IsRed
        <4>2. CASE c[a][x] # p
          BY <1>6, <3>1, <3>3, <4>2
        <4> QED BY <4>1, <4>2
      <3>6. h[a] = h[d[a][x]] + Weight(w, a)  BY <3>2, <3>4
      <3> QED BY <2>0, <3>5, <3>6
    <2> QED BY <2>1, <2>2, <2>3
  <1>14. Level(d, w, v[q], h, Null, "left")
    BY <1>5, <1>8, <1>13 DEF Level
  <1>15. IsRed(w, p) /\ IsRed(w, e)  BY <1>1, <1>2, <1>3 DEF IsRed
  <1>16. Inserting(d, q, w, v, h, p)
    BY <1>1, <1>3, <1>7, <1>8, <1>13, <1>14, <1>15 DEF Inserting
  <1>17. d[e][s] = p /\ d[g][s] = e /\ d[g][o] = n
    BY <1>1, <1>2, <1>7
  <1> QED BY <1>1, <1>2, <1>8, <1>15, <1>16, <1>17 DEF InsertAt

\* The uncle is black and e is the outer child: the parent takes the place of the
\* grandparent, and its colour.
OuterAt(c, r, w, u, h, e, p, g, s, n, z, o, inner, d, q, v) ==
  /\ InsertAt(c, r, w, u, h, e, p, g, s, n) /\ ~IsRed(w, n) /\ c[p][s] = e
  /\ z \in [TreeElem -> {"red", "black"}]
  /\ \A a \in TreeElem : z[a] = IF a = g THEN "red" ELSE IF a = p THEN "black" ELSE w[a]
  /\ o = Other(s) /\ Turned(c, r, u, g, o, s, p, n, inner, e, d, q, v)

LEMMA InsertOuter ==
  ASSUME ElementsFit, NEW c, NEW r, NEW w, NEW u, NEW h, NEW e, NEW p, NEW g, NEW s, NEW n,
         NEW z, NEW o, NEW inner, NEW d, NEW q, NEW v,
         OuterAt(c, r, w, u, h, e, p, g, s, n, z, o, inner, d, q, v)
  PROVE  /\ \E k : Inserting(d, q, z, v, k, e)
         /\ d[p][s] = e /\ p \in v[q] /\ v[q] = u[r] /\ z[p] = "black"
  <1> DEFINE X == u[r]
             k == [h EXCEPT ![p] = h[g], ![g] = h[p]]
  <1> HIDE DEF X, k
  <1>0. /\ InsertAt(c, r, w, u, h, e, p, g, s, n) /\ ~IsRed(w, n) /\ c[p][s] = e
        /\ z \in [TreeElem -> {"red", "black"}]
        /\ \A a \in TreeElem : z[a] = IF a = g THEN "red" ELSE IF a = p THEN "black" ELSE w[a]
        /\ o = Other(s) /\ Turned(c, r, u, g, o, s, p, n, inner, e, d, q, v)
    BY DEF OuterAt
  <1>1. /\ IsTree(c, r, u) /\ w \in [TreeElem -> {"red", "black"}] /\ X \subseteq TreeElem /\ Null \notin TreeElem
        /\ r \in TreeElem /\ e \in X /\ p \in X /\ g \in X /\ e # r /\ p # r
    BY <1>0, InsertPlace DEF X
  <1>2. /\ e \in TreeElem /\ p \in TreeElem /\ g \in TreeElem /\ e # p /\ p # g /\ e # g
        /\ s \in Sides /\ o \in Sides /\ c[g][s] = p /\ c[g][o] = n
        /\ n \in Link /\ n # p /\ n # g /\ n # e
    BY <1>0, InsertPlace
  <1>3. w[g] = "black" /\ w[p] = "red" /\ w[e] = "red" /\ ~IsRed(w, r)
    BY <1>0, InsertPlace
  <1>4. Inserting(c, r, w, u, h, e)  BY <1>0 DEF InsertAt
  <1>5. /\ h \in [Link -> Nat] /\ h[Null] = 0
        /\ \A a \in X : \A x \in Sides :
             /\ a \in TreeElem /\ a \in Link /\ c[a][x] \in Link /\ c[a][x] # a /\ h[a] \in Nat /\ h[c[a][x]] \in Nat
             /\ h[a] = h[c[a][x]] + Weight(w, a)
             /\ c[a][x] # Null => c[a][x] \in X /\ c[a][x] \in TreeElem
    BY <1>0, <1>4, InsertLevel DEF X
  <1>6. \A a \in X : \A x \in Sides : IsRed(w, a) /\ IsRed(w, c[a][x]) => c[a][x] = e
    BY <1>0, <1>4 DEF Inserting, X
  <1>7. /\ Place(c, r, u, g, o, s, p, n, inner, e) /\ q = (IF g = r THEN p ELSE r)
        /\ \A x \in Sides : d[g][x] = IF x = s THEN inner ELSE n
        /\ \A x \in Sides : d[p][x] = IF x = o THEN g ELSE e
        /\ \A a \in X : a # g /\ a # p =>
             \A x \in Sides : d[a][x] = IF c[a][x] = g THEN p ELSE c[a][x]
    BY <1>0 DEF Turned, X
  <1>8. IsTree(d, q, v) /\ v[q] = X
    BY <1>0, Turn DEF X
  <1>9. /\ o # s /\ \A x \in Sides : x = s \/ x = o
        /\ inner \in Link /\ inner # p /\ inner # g /\ (inner # Null => inner # e)
    BY <1>0, <1>7, TurnParts
  <1>10. c[p][o] = inner
    BY <1>0, <1>7 DEF Place
  <1>11. h[g] = h[p] + 1 /\ h[g] = h[n] + 1 /\ h[p] = h[inner] /\ h[p] = h[e] /\ h[p] = h[n]
         /\ h[p] \in Nat /\ h[g] \in Nat
    <2>1. Weight(w, p) = 0 /\ Weight(w, g) = 1  BY <1>0, <1>3 DEF Weight
    <2>2. h[p] = h[c[p][o]] + 0 /\ h[p] = h[c[p][s]] + 0 /\ h[g] = h[c[g][s]] + 1 /\ h[g] = h[c[g][o]] + 1
      BY <1>0, <1>1, <1>2, <1>5, <2>1
    <2>3. h[p] \in Nat /\ h[e] \in Nat /\ h[n] \in Nat /\ h[inner] \in Nat /\ h[g] \in Nat
      BY <1>0, <1>2, <1>5, <1>9 DEF Link
    <2> QED BY <1>0, <1>2, <1>10, <2>2, <2>3
  <1>12. ~IsRed(w, inner)
    <2>1. IsRed(w, p)  BY <1>0, <1>1, <1>2, <1>3 DEF IsRed
    <2>2. IsRed(w, inner) => inner = e  BY <1>0, <1>1, <1>2, <1>6, <1>10, <2>1
    <2> QED BY <1>0, <1>9, <2>2 DEF IsRed
  <1>13. /\ k \in [Link -> Nat] /\ k[Null] = 0 /\ k[p] = h[g] /\ k[g] = h[p]
         /\ \A a \in Link : a # p /\ a # g => k[a] = h[a]
    BY <1>0, <1>1, <1>2, <1>5, <1>11 DEF Link, k
  <1>14. k[inner] = h[inner] /\ k[n] = h[n] /\ k[e] = h[e]
    BY <1>0, <1>2, <1>9, <1>13 DEF Link
  <1>15. ASSUME NEW a \in X, NEW x \in Sides
         PROVE  /\ k[a] = k[d[a][x]] + Weight(z, a) + Lack(a, x, Null, "left")
                /\ ~(IsRed(z, a) /\ IsRed(z, d[a][x]))
    <2>0. Lack(a, x, Null, "left") = 0 /\ Weight(z, a) \in Nat /\ a \in TreeElem /\ k[a] \in Nat
      BY <1>0, <1>1, <1>13 DEF Lack, Weight, Link
    <2>1. CASE a = g
      <3>1. d[a][x] = inner \/ d[a][x] = n  BY <1>0, <1>7, <2>1
      <3>2. k[a] = k[d[a][x]]  BY <1>0, <1>11, <1>13, <1>14, <2>1, <3>1
      <3>3. Weight(z, a) = 0  BY <1>0, <2>0, <2>1 DEF Weight
      <3>4. ~IsRed(z, n) /\ ~IsRed(z, inner)
        BY <1>0, <1>2, <1>9, <1>12 DEF IsRed, Link
      <3> QED BY <1>0, <2>0, <3>1, <3>2, <3>3, <3>4
    <2>2. CASE a = p
      <3>1. d[a][x] = g \/ d[a][x] = e  BY <1>0, <1>7, <2>2
      <3>2. k[a] = k[d[a][x]] + 1  BY <1>0, <1>11, <1>13, <1>14, <2>2, <3>1
      <3>3. z[a] = "black"  BY <1>0, <1>2, <2>0, <2>2
      <3>4. Weight(z, a) = 1  BY <1>0, <3>3 DEF Weight
      <3>5. k[d[a][x]] \in Nat  BY <1>0, <1>2, <1>13, <3>1 DEF Link
      <3> QED BY <1>0, <2>0, <3>2, <3>3, <3>4, <3>5 DEF IsRed
    <2>3. CASE a # p /\ a # g
      <3>1. d[a][x] = IF c[a][x] = g THEN p ELSE c[a][x]  BY <1>0, <1>7, <2>3
      <3>2. h[a] = h[c[a][x]] + Weight(w, a) /\ c[a][x] \in Link /\ a \in Link  BY <1>0, <1>5
      <3>3. c[a][x] # p  BY <1>0, <1>1, <1>2, <2>3, OneParent DEF X
      <3>4. k[d[a][x]] = h[c[a][x]] /\ k[a] = h[a]  BY <1>0, <1>11, <1>13, <2>3, <3>1, <3>2, <3>3
      <3>5. Weight(z, a) = Weight(w, a)  BY <1>0, <2>0, <2>3 DEF Weight
      <3>6. IsRed(z, a) => ~IsRed(z, d[a][x])
        <4>1. CASE c[a][x] = g
          BY <1>0, <1>2, <3>1, <4>1 DEF IsRed
        <4>2. CASE c[a][x] # g
          <5>1. c[a][x] # e  BY <1>0, <1>1, <1>2, <2>3, OneParent DEF X
          <5>2. IsRed(w, a) => ~IsRed(w, c[a][x])  BY <1>0, <1>6, <5>1
          <5> QED BY <1>0, <2>0, <2>3, <3>1, <3>2, <3>3, <4>2, <5>2 DEF IsRed, Link
        <4> QED BY <1>0, <4>1, <4>2
      <3>7. k[a] = k[d[a][x]] + Weight(z, a)  BY <1>0, <3>2, <3>4, <3>5
      <3> QED BY <1>0, <2>0, <3>6, <3>7
    <2> QED BY <1>0, <2>1, <2>2, <2>3
  <1>16. Level(d, z, v[q], k, Null, "left")
    BY <1>0, <1>8, <1>13, <1>15 DEF Level
  <1>17. IsRed(z, e)  BY <1>0, <1>1, <1>2, <1>3 DEF IsRed
  <1>18. ~IsRed(z, q)  BY <1>0, <1>1, <1>2, <1>3, <1>7 DEF IsRed
  <1>19. Inserting(d, q, z, v, k, e)
    BY <1>0, <1>1, <1>8, <1>15, <1>16, <1>17, <1>18 DEF Inserting
  <1>20. d[p][s] = e /\ p \in v[q] /\ v[q] = u[r] /\ z[p] = "black"
    BY <1>0, <1>1, <1>2, <1>7, <1>8, <1>9 DEF X
  <1> QED BY <1>0, <1>19, <1>20

\* r is the tree t after a rotation.
RotatedAt(t, u, e, s, o, up, l, inner, outer, r) ==
  Shape(t, u) /\ Place(t.child, t.root, u, e, s, o, up, l, inner, outer) /\ r = Rotate(t, e, s)

\* A rotation of the record is the one of the families.
LEMMA RotateTurned ==
  ASSUME ElementsFit, NEW t, NEW u, NEW e, NEW s, NEW o, NEW up, NEW l, NEW inner, NEW outer,
         NEW r, RotatedAt(t, u, e, s, o, up, l, inner, outer, r)
  PROVE  \E v : /\ Turned(t.child, t.root, u, e, s, o, up, l, inner, outer, r.child, r.root, v)
                /\ Shape(r, v) /\ v[r.root] = u[t.root] /\ r.color = t.color
                /\ r.parent[up] = t.parent[e] /\ r.parent[e] = up /\ r \in Tree
                /\ v[up] = u[e] /\ v[e] = {e} \cup u[l] \cup u[inner]
                /\ \A a \in Link : a # e /\ a # up => v[a] = u[a]
  <1> DEFINE v == [u EXCEPT ![up] = u[e], ![e] = {e} \cup u[l] \cup u[inner]]
  <1> HIDE DEF v
  <1>1. Rotated(t, u, e, s, o, up, l, inner, outer, r, v)
    BY DEF v, Rotated, RotatedAt
  <1>2. /\ Shape(r, v) /\ v[r.root] = u[t.root] /\ r.color = t.color
        /\ r.root = (IF e = t.root THEN up ELSE t.root)
        /\ v[up] = u[e] /\ v[e] = {e} \cup u[l] \cup u[inner]
    BY <1>1, RotateShape
  <1>3. /\ \A x \in Sides : r.child[e][x] = IF x = o THEN inner ELSE l
        /\ \A x \in Sides : r.child[up][x] = IF x = s THEN e ELSE outer
        /\ \A a \in u[t.root] : a # e /\ a # up =>
             \A x \in Sides : r.child[a][x] = IF t.child[a][x] = e THEN up ELSE t.child[a][x]
    BY <1>1, RotateShape
  <1>4. \A a \in TreeElem : r.parent[a] = IF a = up THEN t.parent[e] ELSE IF a = e THEN up
                                          ELSE IF a = inner THEN e ELSE t.parent[a]
    BY <1>1, RotateShape
  <1>5. \A a \in Link : a # e /\ a # up => v[a] = u[a]
    BY <1>1, RotateShape
  <1>6. Turned(t.child, t.root, u, e, s, o, up, l, inner, outer, r.child, r.root, v)
    BY <1>1, <1>2, <1>3 DEF Turned, Rotated
  <1>7. e \in TreeElem /\ up \in TreeElem /\ e # up  BY TurnParts DEF RotatedAt
  <1>8. r.parent[up] = t.parent[e] /\ r.parent[e] = up
    BY <1>4, <1>7
  <1>9. r \in Tree  BY <1>2 DEF Shape
  <1> QED BY <1>2, <1>5, <1>6, <1>8, <1>9

\* The end of a round.
LEMMA InsertTurn ==
  ASSUME ElementsFit, NEW t, NEW u, Shape(t, u), NEW h, NEW e, NEW p, NEW g, NEW s, NEW n,
         InsertAt(t.child, t.root, t.color, u, h, e, p, g, s, n), ~IsRed(t.color, n), t.child[p][s] = e,
         NEW r, r = Rotate(BlackRed(t, p, g), g, Other(s))
  PROVE  \E v, k : /\ Shape(r, v) /\ Inserting(r.child, r.root, r.color, v, k, e)
                   /\ v[r.root] = u[t.root] /\ r \in Tree /\ ~Red(r, r.parent[e])
  <1> DEFINE c == t.child
             w == t.color
             t1 == BlackRed(t, p, g)
             o == Other(s)
             inner == c[p][o]
  <1> HIDE DEF t1, o, inner
  <1>1. /\ IsTree(c, t.root, u) /\ u[t.root] \subseteq TreeElem /\ Null \notin TreeElem
        /\ g \in u[t.root] /\ p \in TreeElem /\ g \in TreeElem /\ s \in Sides /\ o \in Sides
        /\ c[g][s] = p /\ c[g][o] = n
    BY InsertPlace DEF o
  <1>2. /\ Shape(t1, u) /\ t1 \in Tree /\ t1.root = t.root /\ t1.child = c /\ t1.parent = t.parent
        /\ \A a \in TreeElem : t1.color[a] = IF a = g THEN "red" ELSE IF a = p THEN "black" ELSE w[a]
    BY <1>1, BlackRedIs DEF t1
  <1>3. Other(o) = s  BY <1>1, SidesAre DEF o
  <1>4. Place(t1.child, t1.root, u, g, o, s, p, n, inner, e)
    BY <1>1, <1>2, <1>3 DEF Place, inner
  <1>5. r = Rotate(t1, g, o)  BY DEF t1, o
  <1>6. PICK v : /\ Turned(t1.child, t1.root, u, g, o, s, p, n, inner, e, r.child, r.root, v)
                 /\ Shape(r, v) /\ v[r.root] = u[t1.root] /\ r.color = t1.color /\ r \in Tree
    <2>1. RotatedAt(t1, u, g, o, s, p, n, inner, e, r)  BY <1>2, <1>4, <1>5 DEF RotatedAt
    <2> QED BY <2>1, RotateTurned
  <1>7. t1.color \in [TreeElem -> {"red", "black"}]  BY <1>2 DEF Tree
  <1>8. Turned(c, t.root, u, g, o, s, p, n, inner, e, r.child, r.root, v)
    BY <1>2, <1>6
  <1>9. o = Other(s)  BY DEF o
  <1> HIDE DEF c, w
  <1>10. InsertAt(c, t.root, w, u, h, e, p, g, s, n) /\ ~IsRed(w, n) /\ c[p][s] = e
    BY DEF c, w
  <1>11. /\ \E k : Inserting(r.child, r.root, t1.color, v, k, e)
         /\ r.child[p][s] = e /\ p \in v[r.root] /\ t1.color[p] = "black"
    <2>1. OuterAt(c, t.root, w, u, h, e, p, g, s, n, t1.color, o, inner, r.child, r.root, v)
      BY ONLY <1>2, <1>7, <1>8, <1>9, <1>10 DEF OuterAt
    <2> QED BY <2>1, InsertOuter
  <1>12. r.parent[e] = p
    <2>1. e \in TreeElem  BY <1>10, InsertPlace
    <2> QED BY <1>1, <1>6, <1>11, <2>1 DEF Shape
  <1>13. ~Red(r, r.parent[e])  BY <1>6, <1>11, <1>12 DEF Red
  <1> QED BY <1>2, <1>6, <1>11, <1>13

\* One round of the loop.
LEMMA InsertRoundIs ==
  ASSUME ElementsFit, NEW t, NEW u, Shape(t, u), NEW h, NEW e,
         Inserting(t.child, t.root, t.color, u, h, e), Red(t, t.parent[e]),
         NEW z, z = InsertRound(t, e)
  PROVE  /\ z.t \in Tree /\ z.e \in TreeElem /\ z = [t |-> z.t, e |-> z.e]
         /\ \E v, k : /\ Shape(z.t, v) /\ Inserting(z.t.child, z.t.root, z.t.color, v, k, z.e)
                      /\ v[z.t.root] = u[t.root]
                      /\ ~Red(z.t, z.t.parent[z.e]) \/ (u[e] \subseteq v[z.e] /\ z.e \notin u[e])
  <1> DEFINE c == t.child
             w == t.color
             p == t.parent[e]
             g == t.parent[p]
             s == SideOf(t, p, g)
             o == Other(s)
             n == c[g][o]
             inside == c[p][o] = e
             t1 == IF inside THEN Rotate(t, p, s) ELSE t
             p1 == IF inside THEN e ELSE p
             e1 == IF inside THEN p ELSE e
             a == BlackRed(Paint(t, n, "black"), p, g)
             b == Rotate(BlackRed(t1, p1, g), g, o)
  <1>1. z = IF Red(t, n) THEN [t |-> a, e |-> g] ELSE [t |-> b, e |-> e1]
    BY Zenon DEF InsertRound
  <1>2. InsertAt(c, t.root, w, u, h, e, p, g, s, n)
    <2>1. e \in u[t.root] /\ p # Null /\ IsRed(w, p)  BY DEF Inserting, Red, IsRed
    <2>2. e # t.root /\ p \in u[t.root] /\ p \in TreeElem /\ \E x \in Sides : c[p][x] = e
      BY <2>1, ParentIs
    <2>3. IsRed(w, t.root) => t.root = e  BY DEF Inserting
    <2>4. p # t.root  BY <2>1, <2>2, <2>3
    <2>5. g \in u[t.root] /\ s \in Sides /\ c[g][s] = p
      BY <2>2, <2>4, ParentIs
    <2> HIDE DEF p, g, s
    <2> QED BY <2>1, <2>2, <2>5 DEF InsertAt
  <1> HIDE DEF c, w, p, g, s, o, n, t1, p1, e1, a, b, inside
  <1>3. /\ IsTree(c, t.root, u) /\ u[t.root] \subseteq TreeElem /\ Null \notin TreeElem
        /\ e \in u[t.root] /\ p \in u[t.root] /\ e \in TreeElem /\ p \in TreeElem /\ g \in TreeElem /\ s \in Sides
        /\ o \in Sides /\ n \in Link /\ u[e] \subseteq u[g] /\ g \notin u[e] /\ o = Other(s)
    BY <1>2, InsertPlace DEF o
  <1>4. CASE Red(t, n)
    <2>1. z.t = a /\ z.e = g /\ z = [t |-> a, e |-> g]  BY <1>1, <1>4
    <2> DEFINE t2 == Paint(t, n, "black")
    <2>2. t \in Tree  BY DEF Shape
    <2>3. /\ t2.root = t.root /\ t2.child = c /\ Shape(t2, u)
          /\ \A y \in TreeElem : t2.color[y] = IF y = n THEN "black" ELSE w[y]
      BY <1>3, <2>2, PaintIs, PaintShape DEF c, w
    <2>4. a = BlackRed(t2, p, g)  BY DEF a
    <2> HIDE DEF t2
    <2>5. /\ Shape(a, u) /\ a \in Tree /\ a.root = t2.root /\ a.child = t2.child
          /\ \A y \in TreeElem : a.color[y] = IF y = g THEN "red" ELSE IF y = p THEN "black" ELSE t2.color[y]
      <3> DEFINE y == BlackRed(t2, p, g)
      <3>1. /\ Shape(y, u) /\ y \in Tree /\ y.root = t2.root /\ y.child = t2.child
            /\ \A x \in TreeElem : y.color[x] = IF x = g THEN "red" ELSE IF x = p THEN "black" ELSE t2.color[x]
        <4>1. Null \notin TreeElem /\ Shape(t2, u) /\ p \in TreeElem /\ g \in TreeElem  BY <1>3, <2>3
        <4> QED BY ONLY <4>1, BlackRedIs
      <3> QED BY <2>4, <3>1
    <2>6. /\ a.root = t.root /\ a.child = c /\ a.color \in [TreeElem -> {"red", "black"}]
          /\ \A y \in TreeElem : a.color[y] = IF y = g THEN "red" ELSE IF y = p \/ y = n THEN "black" ELSE w[y]
      BY <2>3, <2>5 DEF Tree
    <2>7. IsRed(w, n)  BY <1>4 DEF Red, IsRed, w
    <2>8. \E k : Inserting(c, t.root, a.color, u, k, g)
      BY <1>2, <2>6, <2>7, InsertUncle
    <2> QED BY <1>3, <2>1, <2>5, <2>6, <2>8
  <1>5. CASE ~Red(t, n)
    <2>1. z.t = b /\ z.e = e1 /\ z = [t |-> b, e |-> e1]  BY <1>1, <1>5
    <2>2. ~IsRed(w, n)  BY <1>5 DEF Red, IsRed, w
    <2>3. \E v : /\ Shape(t1, v) /\ InsertAt(t1.child, t1.root, t1.color, v, h, e1, p1, g, s, n)
                 /\ t1.child[p1][s] = e1 /\ t1.color = w /\ v[t1.root] = u[t.root] /\ e1 \in TreeElem
      <3>1. CASE inside
        <4> DEFINE l == c[p][s]
                   inner == c[e][s]
                   outer == c[e][o]
        <4> HIDE DEF l, inner, outer
        <4>1. Place(c, t.root, u, p, s, o, e, l, inner, outer)
          BY <1>3, <3>1 DEF Place, l, inner, outer, inside
        <4>2. t1 = Rotate(t, p, s) /\ p1 = e /\ e1 = p  BY <3>1 DEF t1, p1, e1
        <4>3. PICK v : /\ Turned(c, t.root, u, p, s, o, e, l, inner, outer, t1.child, t1.root, v)
                       /\ Shape(t1, v) /\ v[t1.root] = u[t.root] /\ t1.color = w
          <5>1. RotatedAt(t, u, p, s, o, e, l, inner, outer, t1)
            BY <4>1, <4>2 DEF RotatedAt, c
          <5> QED BY <5>1, RotateTurned DEF c, w
        <4>4. InsertAt(t1.child, t1.root, w, v, h, p, e, g, s, n) /\ t1.child[e][s] = p
          BY ONLY ElementsFit, <1>2, <1>3, <4>3, InsertInner
        <4> QED BY <1>3, <4>2, <4>3, <4>4
      <3>2. CASE ~inside
        <4>1. t1 = t /\ p1 = p /\ e1 = e  BY <3>2 DEF t1, p1, e1
        <4>2. c[p][s] = e
          <5>1. PICK x \in Sides : c[p][x] = e  BY <1>2 DEF InsertAt
          <5>2. x = s \/ x = o  BY <1>3, SidesAre
          <5> QED BY <3>2, <5>1, <5>2 DEF inside
        <4> QED BY <1>2, <1>3, <4>1, <4>2 DEF c, w
      <3> QED BY <3>1, <3>2
    <2>4. PICK v : /\ Shape(t1, v) /\ InsertAt(t1.child, t1.root, t1.color, v, h, e1, p1, g, s, n)
                   /\ t1.child[p1][s] = e1 /\ t1.color = w /\ v[t1.root] = u[t.root] /\ e1 \in TreeElem
      BY <2>3
    <2>5. b = Rotate(BlackRed(t1, p1, g), g, Other(s))  BY DEF b, o
    <2>6. \E y, k : /\ Shape(b, y) /\ Inserting(b.child, b.root, b.color, y, k, e1)
                    /\ y[b.root] = v[t1.root] /\ b \in Tree /\ ~Red(b, b.parent[e1])
      BY ZenonT(60), <2>2, <2>4, <2>5, InsertTurn
    <2> QED BY <2>1, <2>4, <2>6
  <1> QED BY <1>4, <1>5

\* All is well with the colours.
Even(c, r, w, u, h) ==
  /\ IsTree(c, r, u) /\ w \in [TreeElem -> {"red", "black"}]
  /\ Level(c, w, u[r], h, Null, "left")
  /\ \A a \in u[r] : \A x \in Sides : ~(IsRed(w, a) /\ IsRed(w, c[a][x]))
  /\ ~IsRed(w, r)

\* All is well when the root, at last, has become black.
ButRoot(c, r, w, u, h, z) ==
  /\ IsTree(c, r, u) /\ w \in [TreeElem -> {"red", "black"}] /\ Level(c, w, u[r], h, Null, "left")
  /\ \A a \in u[r] : \A x \in Sides : ~(IsRed(w, a) /\ IsRed(w, c[a][x]))
  /\ z \in [TreeElem -> {"red", "black"}] /\ \A a \in TreeElem : z[a] = IF a = r THEN "black" ELSE w[a]

LEMMA RootBlack ==
  ASSUME ElementsFit, NEW c, NEW r, NEW w, NEW u, NEW h, NEW z, ButRoot(c, r, w, u, h, z)
  PROVE  \E k : Even(c, r, z, u, k)
  <1> DEFINE k == [h EXCEPT ![r] = IF IsRed(w, r) THEN h[r] + 1 ELSE h[r]]
  <1>0. /\ IsTree(c, r, u) /\ w \in [TreeElem -> {"red", "black"}] /\ Level(c, w, u[r], h, Null, "left")
        /\ \A a \in u[r] : \A x \in Sides : ~(IsRed(w, a) /\ IsRed(w, c[a][x]))
        /\ z \in [TreeElem -> {"red", "black"}] /\ \A a \in TreeElem : z[a] = IF a = r THEN "black" ELSE w[a]
    BY DEF ButRoot
  <1>1. /\ Null \notin TreeElem /\ h \in [Link -> Nat] /\ h[Null] = 0 /\ r \in Link /\ u[r] \subseteq TreeElem
        /\ \A a \in u[r] : \A x \in Sides : h[a] = h[c[a][x]] + Weight(w, a) + Lack(a, x, Null, "left")
    BY <1>0 DEF ElementsFit, Level, IsTree
  <1>2. /\ k \in [Link -> Nat] /\ k[Null] = 0 /\ k[r] = (IF IsRed(w, r) THEN h[r] + 1 ELSE h[r])
        /\ \A a \in Link : a # r => k[a] = h[a]
    BY <1>0, <1>1 DEF IsRed
  <1> HIDE DEF k
  <1>3. ASSUME NEW a \in u[r], NEW x \in Sides
        PROVE  k[a] = k[c[a][x]] + Weight(z, a) + Lack(a, x, Null, "left")
    <2>1. c[a][x] \in Link /\ c[a][x] # r /\ a \in TreeElem /\ a \in Link
      <3>1. c[a][x] # Null => c[a][x] # r  BY <1>0, OneParent
      <3>2. r # Null  BY <1>0, <1>1 DEF IsTree
      <3> QED BY <1>0, <3>1, <3>2, ChildSmaller
    <2>2. k[c[a][x]] = h[c[a][x]] /\ h[c[a][x]] \in Nat /\ h[a] \in Nat
      BY <1>0, <1>1, <1>2, <2>1
    <2>3. Lack(a, x, Null, "left") = 0  BY <1>0, <1>1, <2>1 DEF Lack
    <2>4. h[a] = h[c[a][x]] + Weight(w, a) + Lack(a, x, Null, "left")  BY <1>0, <1>1
    <2>5. CASE a = r /\ IsRed(w, r)
      <3>1. Weight(w, a) = 0 /\ Weight(z, a) = 1  BY <1>0, <2>1, <2>5 DEF Weight, IsRed
      <3>2. k[a] = h[a] + 1  BY <1>0, <1>2, <2>5
      <3> QED BY <1>0, <2>2, <2>3, <2>4, <3>1, <3>2
    <2>6. CASE ~(a = r /\ IsRed(w, r))
      <3>1. w[a] = z[a]  BY <1>0, <1>1, <2>1, <2>6 DEF IsRed
      <3>2. k[a] = h[a]  BY <1>0, <1>2, <2>1, <2>6
      <3> QED BY <1>0, <2>2, <2>4, <3>1, <3>2 DEF Weight
    <2> QED BY <1>0, <2>5, <2>6
  <1>4. Level(c, z, u[r], k, Null, "left")  BY <1>0, <1>2, <1>3 DEF Level
  <1>5. \A a \in u[r] : \A x \in Sides : ~(IsRed(z, a) /\ IsRed(z, c[a][x]))
    <2> SUFFICES ASSUME NEW a \in u[r], NEW x \in Sides, IsRed(z, a), IsRed(z, c[a][x]) PROVE FALSE
      OBVIOUS
    <2>1. a \in TreeElem /\ c[a][x] \in TreeElem  BY <1>0, <1>1, ChildSmaller DEF IsRed, Link
    <2> QED BY <1>0, <2>1 DEF IsRed
  <1>6. ~IsRed(z, r)  BY <1>0, <1>1 DEF IsRed, Link
  <1> QED BY <1>0, <1>4, <1>5, <1>6 DEF Even

\* RB_INSERT_COLOR restores the colours.
LEMMA InsertColorIs ==
  ASSUME ElementsFit, NEW t, NEW u, Shape(t, u), NEW h, NEW e,
         Inserting(t.child, t.root, t.color, u, h, e),
         NEW r, r = InsertColor(t, e)
  PROVE  \E v, k : Shape(r, v) /\ Even(r.child, r.root, r.color, v, k) /\ v[r.root] = u[t.root]
  <1> DEFINE X == u[t.root]
             S0 == [t : Tree, e : TreeElem]
             step == [z \in S0 |-> IF Red(z.t, z.t.parent[z.e]) THEN InsertRound(z.t, z.e) ELSE z]
             Fits(z, v, k) == /\ Shape(z.t, v) /\ Inserting(z.t.child, z.t.root, z.t.color, v, k, z.e)
                              /\ v[z.t.root] = X
             Inv  == {z \in S0 : \E v, k : Fits(z, v, k)}
             size == [z \in S0 |-> IF Red(z.t, z.t.parent[z.e])
                                     THEN 1 + Cardinality(X \ Below(z.t, z.e)) ELSE 0]
             x0   == [t |-> t, e |-> e]
             end  == Repeat(step, x0)
  <1>1. /\ t \in Tree /\ e \in TreeElem /\ X \subseteq TreeElem /\ IsFiniteSet(TreeElem) /\ Null \notin TreeElem
    BY DEF Shape, Inserting, IsTree, ElementsFit
  <1>2. \A z \in S0 : step[z] = IF Red(z.t, z.t.parent[z.e]) THEN InsertRound(z.t, z.e) ELSE z
    OBVIOUS
  <1>3. \A z \in S0 : size[z] = IF Red(z.t, z.t.parent[z.e])
                                  THEN 1 + Cardinality(X \ Below(z.t, z.e)) ELSE 0
    OBVIOUS
  <1>4. r = Paint(end.t, end.t.root, "black")
    BY DEF InsertColor
  <1>5. x0 \in S0 /\ x0.t = t /\ x0.e = e  BY <1>1
  <1> HIDE DEF step, size, x0, end
  <1>6. ASSUME NEW z \in S0, NEW v, NEW k, Fits(z, v, k)
        PROVE  /\ Below(z.t, z.e) = v[z.e] /\ v[z.e] \subseteq X /\ z.e \in v[z.e]
               /\ IsFiniteSet(X \ v[z.e]) /\ Cardinality(X \ v[z.e]) \in Nat
    <2>1. IsTree(z.t.child, z.t.root, v) /\ z.e \in v[z.t.root]
      BY <1>6 DEF Shape, Inserting
    <2>2. Below(z.t, z.e) = v[z.e]
      <3>1. Shape(z.t, v)  BY <1>6
      <3> QED BY ONLY ElementsFit, <2>1, <3>1, BelowShape
    <2>3. v[z.e] \subseteq X /\ z.e \in v[z.e]  BY <1>6, <2>1 DEF IsTree
    <2>4. IsFiniteSet(X \ v[z.e])  BY <1>1, FS_Subset
    <2> QED BY <2>2, <2>3, <2>4, FS_CardinalityType
  <1>7. ASSUME NEW z \in Inv
        PROVE  /\ step[z] \in Inv /\ size[z] \in Nat /\ (step[z] = z \/ size[step[z]] < size[z])
               /\ (Red(z.t, z.t.parent[z.e]) => size[step[z]] < size[z])
    <2>1. PICK v, k : Fits(z, v, k)  OBVIOUS
    <2>2. size[z] \in Nat /\ (Red(z.t, z.t.parent[z.e]) => size[z] = 1 + Cardinality(X \ v[z.e]))
      <3>1. Below(z.t, z.e) = v[z.e] /\ Cardinality(X \ v[z.e]) \in Nat  BY <1>6, <2>1
      <3>2. z \in S0  OBVIOUS
      <3> HIDE DEF Fits, Inv, X, S0
      <3> QED BY ONLY <1>3, <3>1, <3>2
    <2>3. CASE ~Red(z.t, z.t.parent[z.e])
      BY <1>2, <2>2, <2>3
    <2>4. CASE Red(z.t, z.t.parent[z.e])
      <3> DEFINE y == InsertRound(z.t, z.e)
      <3>1. step[z] = y  BY <1>2, <2>4
      <3> HIDE DEF y
      <3>2. PICK v1, k1 : /\ y \in S0 /\ Fits(y, v1, k1)
                          /\ ~Red(y.t, y.t.parent[y.e]) \/ (v[z.e] \subseteq v1[y.e] /\ y.e \notin v[z.e])
        <4>1. /\ y.t \in Tree /\ y.e \in TreeElem /\ y = [t |-> y.t, e |-> y.e]
              /\ \E v1, k1 : /\ Shape(y.t, v1) /\ Inserting(y.t.child, y.t.root, y.t.color, v1, k1, y.e)
                             /\ v1[y.t.root] = v[z.t.root]
                             /\ ~Red(y.t, y.t.parent[y.e]) \/ (v[z.e] \subseteq v1[y.e] /\ y.e \notin v[z.e])
          BY <2>1, <2>4, InsertRoundIs DEF y
        <4>2. v[z.t.root] = X  BY <2>1
        <4> QED BY <4>1, <4>2
      <3>3. y \in Inv  BY <3>2
      <3>4. size[y] < size[z]
        <4>1. CASE ~Red(y.t, y.t.parent[y.e])
          <5>1. size[y] = 0  BY <1>3, <3>2, <4>1
          <5>2. Cardinality(X \ v[z.e]) \in Nat  BY <1>6, <2>1
          <5> QED BY <2>2, <2>4, <5>1, <5>2
        <4>2. CASE Red(y.t, y.t.parent[y.e])
          <5>1. size[y] = 1 + Cardinality(X \ v1[y.e]) /\ y.e \in v1[y.e] /\ v1[y.e] \subseteq X
                /\ Cardinality(X \ v1[y.e]) \in Nat
            BY <1>3, <1>6, <3>2, <4>2
          <5>2. IsFiniteSet(X \ v[z.e]) /\ Cardinality(X \ v[z.e]) \in Nat  BY <1>6, <2>1
          <5>3. (X \ v1[y.e]) \subseteq (X \ v[z.e]) /\ (X \ v1[y.e]) # (X \ v[z.e])
            BY <3>2, <4>2, <5>1
          <5>4. /\ Cardinality(X \ v1[y.e]) <= Cardinality(X \ v[z.e])
                /\ Cardinality(X \ v1[y.e]) # Cardinality(X \ v[z.e])
            BY <5>2, <5>3, FS_Subset
          <5> QED BY <2>2, <2>4, <5>1, <5>2, <5>4
        <4> QED BY <4>1, <4>2
      <3> QED BY <2>2, <3>1, <3>3, <3>4
    <2> QED BY <2>3, <2>4
  <1>8. x0 \in Inv /\ size[x0] <= Cardinality(TreeElem)
    <2>1. Fits(x0, u, h)  BY <1>5
    <2>2. Below(t, e) = u[e] /\ e \in u[e] /\ Cardinality(X \ u[e]) \in Nat  BY <1>5, <1>6, <2>1
    <2>3. (X \ u[e]) \subseteq TreeElem /\ (X \ u[e]) # TreeElem  BY <1>1, <2>2
    <2>4. Cardinality(X \ u[e]) < Cardinality(TreeElem) /\ Cardinality(TreeElem) \in Nat
      <3>1. Cardinality(X \ u[e]) <= Cardinality(TreeElem) /\ Cardinality(X \ u[e]) # Cardinality(TreeElem)
        BY <1>1, <2>3, FS_Subset
      <3> QED BY <1>1, <2>2, <3>1, FS_CardinalityType
    <2>5. size[x0] = 1 + Cardinality(X \ u[e]) \/ size[x0] = 0
      BY <1>3, <1>5, <2>2
    <2> QED BY <1>5, <2>1, <2>2, <2>4, <2>5
  <1>9. end \in Inv /\ step[end] = end
    <2> HIDE DEF Inv
    <2> QED BY <1>1, <1>7, <1>8, RepeatEnds DEF end
  <1>10. ~Red(end.t, end.t.parent[end.e])
    <2>1. size[end] \in Nat  BY <1>7, <1>9
    <2> QED BY <1>7, <1>9, <2>1
  <1>11. PICK v, k : Fits(end, v, k)
    BY <1>9
  <1> DEFINE c == end.t.child
             w == end.t.color
             q == end.t.root
  <1>12. /\ Shape(end.t, v) /\ IsTree(c, q, v) /\ w \in [TreeElem -> {"red", "black"}] /\ v[q] = X
         /\ Level(c, w, v[q], k, Null, "left")
         /\ \A a \in v[q] : \A x \in Sides : IsRed(w, a) /\ IsRed(w, c[a][x]) => c[a][x] = end.e
    BY <1>11 DEF Inserting
  <1>13. \A a \in v[q] : \A x \in Sides : ~(IsRed(w, a) /\ IsRed(w, c[a][x]))
    <2> SUFFICES ASSUME NEW a \in v[q], NEW x \in Sides, IsRed(w, a), IsRed(w, c[a][x]) PROVE FALSE
      OBVIOUS
    <2>1. end.e = c[a][x] /\ c[a][x] # Null  BY <1>12 DEF IsRed
    <2>2. end.t.parent[end.e] = a  BY <1>12, <2>1 DEF Shape
    <2> QED BY <1>10, <2>2 DEF IsRed, Red
  <1>14. end.t \in Tree /\ q \in Link
    BY <1>12, TreeFields DEF Shape
  <1>15. /\ Shape(r, v) /\ r \in Tree /\ r.root = q /\ r.child = c
         /\ \A a \in TreeElem : r.color[a] = IF a = q THEN "black" ELSE w[a]
    BY <1>1, <1>4, <1>12, <1>14, PaintIs, PaintShape
  <1>16. r.color \in [TreeElem -> {"red", "black"}]  BY <1>15 DEF Tree
  <1> HIDE DEF c, w, q
  <1>17. \E j : Even(c, q, r.color, v, j)
    <2>1. ButRoot(c, q, w, v, k, r.color)
      BY <1>12, <1>13, <1>15, <1>16 DEF ButRoot
    <2> QED BY ONLY ElementsFit, <2>1, RootBlack
  <1> QED BY <1>12, <1>15, <1>17

-----------------------------------------------------------------------------
(***************************************************************************)
(* The search for a key, and the new leaf.                                 *)
(***************************************************************************)
\* The key k belongs on side s of y.
KeyOn(s, k, y) == IF s = "left" THEN k < Key[y] ELSE Key[y] < k

\* Whoever is not below y has k on the same side as all that is.
Path(u, r, k, y) ==
  \A z \in u[r] : z \notin u[y] =>
    \E s \in Sides : KeyOn(s, k, z) /\ \A a \in u[y] : On(s, a, z)

LEMMA KeyOnIs ==
  ASSUME ElementsFit, NEW k \in Int
  PROVE  /\ \A y \in TreeElem : k # Key[y] => Toward(k, y) \in Sides /\ KeyOn(Toward(k, y), k, y)
         /\ \A s \in Sides : \A y \in TreeElem : \A z \in TreeElem :
              KeyOn(s, k, y) /\ On(Other(s), z, y) => KeyOn(s, k, z) /\ On(s, y, z)
         /\ \A s \in Sides : \A y \in TreeElem : KeyOn(s, k, y) => Key[y] # k /\ ~KeyOn(Other(s), k, y)
         /\ \A s \in Sides : \A y \in TreeElem : \A e \in TreeElem : Key[e] = k => (KeyOn(s, k, y) <=> On(s, e, y))
         /\ \A y \in TreeElem : Toward(k, y) \in Sides
  BY DEF ElementsFit, KeyOn, On, Toward, Sides, Other

\* The search goes to the element with the key, or to the last one before it would be there.
LEMMA SearchIs ==
  ASSUME ElementsFit, NEW t, NEW r, NEW u, IsTree(t.child, r, u), r # Null, NEW k \in Int,
         NEW y, y = Search(t, r, k)
  PROVE  /\ y \in u[r] /\ y \in TreeElem /\ Path(u, r, k, y)
         /\ Key[y] = k \/ t.child[y][Toward(k, y)] = Null
  <1> DEFINE c == t.child
             step == [x \in TreeElem |-> IF k = Key[x] \/ c[x][Toward(k, x)] = Null THEN x
                                                                                  ELSE c[x][Toward(k, x)]]
             Inv  == {x \in u[r] : Path(u, r, k, x)}
             size == [x \in TreeElem |-> Cardinality(u[x])]
  <1>1. IsTree(c, r, u) /\ r \in u[r] /\ u[r] \subseteq TreeElem /\ Null \notin TreeElem /\ IsFiniteSet(TreeElem)
    BY DEF IsTree, ElementsFit
  <1>2. y = Repeat(step, r)  BY DEF Search
  <1>3. \A x \in TreeElem : step[x] = IF k = Key[x] \/ c[x][Toward(k, x)] = Null THEN x
                                                                               ELSE c[x][Toward(k, x)]
    OBVIOUS
  <1>4. \A x \in TreeElem : size[x] = Cardinality(u[x])  OBVIOUS
  <1> HIDE DEF c, step, size
  <1>5. ASSUME NEW x \in Inv
        PROVE  step[x] \in Inv /\ size[x] \in Nat /\ (step[x] = x \/ size[step[x]] < size[x])
    <2> DEFINE s == Toward(k, x)
    <2>1. x \in u[r] /\ x \in TreeElem /\ Path(u, r, k, x) /\ s \in Sides  BY <1>1, KeyOnIs
    <2>2. /\ Cardinality(u[x]) \in Nat /\ Cardinality(u[c[x][s]]) < Cardinality(u[x])
          /\ u[x] = {x} \cup u[c[x][s]] \cup u[c[x][Other(s)]]
          /\ (c[x][s] # Null => c[x][s] \in u[r] /\ c[x][s] \in u[x])
      BY <1>1, <2>1, ChildSmaller
    <2> HIDE DEF s
    <2>3. CASE k = Key[x] \/ c[x][s] = Null
      BY <1>3, <1>4, <2>1, <2>2, <2>3 DEF s
    <2>4. CASE ~(k = Key[x] \/ c[x][s] = Null)
      <3>1. step[x] = c[x][s] /\ c[x][s] \in TreeElem  BY <1>1, <1>3, <2>1, <2>2, <2>4 DEF s
      <3>2. Path(u, r, k, c[x][s])
        <4> SUFFICES ASSUME NEW z \in u[r], z \notin u[c[x][s]]
                     PROVE  \E q \in Sides : KeyOn(q, k, z) /\ \A a \in u[c[x][s]] : On(q, a, z)
          BY DEF Path
        <4>1. \A a \in u[c[x][s]] : On(s, a, x) /\ a \in TreeElem
          <5>1. u[c[x][s]] \subseteq TreeElem  BY <1>1, <2>2, <2>4 DEF IsTree
          <5> QED BY <1>1, <2>1, <5>1 DEF IsTree
        <4>2. KeyOn(s, k, x)  BY <2>1, <2>4, KeyOnIs DEF s
        <4>3. CASE z \notin u[x]
          <5>1. PICK q \in Sides : KeyOn(q, k, z) /\ \A a \in u[x] : On(q, a, z)
            BY <2>1, <4>3 DEF Path
          <5> QED BY <2>2, <5>1
        <4>4. CASE z = x
          BY <2>1, <4>1, <4>2, <4>4
        <4>5. CASE z \in u[c[x][Other(s)]]
          <5>1. On(Other(s), z, x)  BY <1>1, <2>1, <4>5, SidesAre DEF IsTree
          <5>2. z \in TreeElem  BY <1>1
          <5>3. KeyOn(s, k, z) /\ On(s, x, z)  BY <2>1, <4>2, <5>1, <5>2, KeyOnIs
          <5>4. \A a \in u[c[x][s]] : On(s, a, z)  BY <2>1, <4>1, <5>2, <5>3, OnIsOrder
          <5> QED BY <2>1, <5>3, <5>4
        <4> QED BY <2>2, <4>3, <4>4, <4>5
      <3>3. size[step[x]] < size[x] /\ size[x] \in Nat
        BY <1>4, <2>1, <2>2, <3>1
      <3> QED BY <2>2, <2>4, <3>1, <3>2, <3>3
    <2> QED BY <2>3, <2>4
  <1>6. r \in Inv /\ size[r] <= Cardinality(TreeElem)
    <2>1. r \in Inv  BY <1>1 DEF Path
    <2>2. u[r] \in SUBSET TreeElem  BY <1>1
    <2> QED BY <1>1, <1>4, <2>1, <2>2, FS_Subset
  <1>7. y \in Inv /\ step[y] = y
    <2> HIDE DEF Inv
    <2> QED BY <1>1, <1>2, <1>5, <1>6, RepeatEnds
  <1>8. Key[y] = k \/ c[y][Toward(k, y)] = Null
    <2>1. c[y][Toward(k, y)] # Null => c[y][Toward(k, y)] # y
      <3>1. y \in u[r] /\ Toward(k, y) \in Sides  BY <1>1, <1>7, KeyOnIs
      <3> QED BY <1>1, <3>1, ChildSmaller
    <2> QED BY <1>1, <1>3, <1>7, <2>1
  <1> QED BY <1>1, <1>7, <1>8 DEF c

\* Without the key at the end of the search, no element has it.
LEMMA SearchFails ==
  ASSUME ElementsFit, NEW c, NEW r, NEW u, IsTree(c, r, u), NEW k \in Int,
         NEW y \in u[r], Path(u, r, k, y), Key[y] # k, c[y][Toward(k, y)] = Null
  PROVE  \A z \in u[r] : Key[z] # k
  <1> SUFFICES ASSUME NEW z \in u[r] PROVE Key[z] # k
    OBVIOUS
  <1>1. y \in TreeElem /\ z \in TreeElem  BY DEF IsTree
  <1>2. CASE z \notin u[y]  BY <1>1, <1>2, KeyOnIs DEF Path
  <1>3. CASE z \in u[y]
    <2> DEFINE s == Toward(k, y)
    <2>1. s \in Sides /\ KeyOn(s, k, y)  BY <1>1, KeyOnIs
    <2>2. u[y] = {y} \cup u[c[y][s]] \cup u[c[y][Other(s)]]  BY <2>1, ChildSmaller
    <2>3. u[c[y][s]] = {}  BY DEF IsTree
    <2>4. z # y => On(Other(s), z, y)
      BY <1>3, <2>1, <2>2, <2>3, SidesAre DEF IsTree
    <2> HIDE DEF s
    <2> QED BY <1>1, <2>1, <2>4, KeyOnIs
  <1> QED BY <1>2, <1>3

\* e is a new leaf on side s of y: d are the children then, and v the families.
Attached(c, r, u, y, s, e, d, v) ==
  /\ IsTree(c, r, u) /\ y \in u[r] /\ s \in Sides /\ c[y][s] = Null
  /\ e \in TreeElem /\ e \notin u[r]
  /\ \A x \in Sides : d[e][x] = Null
  /\ \A a \in u[r] : \A x \in Sides : d[a][x] = IF a = y /\ x = s THEN e ELSE c[a][x]
  /\ On(s, e, y) /\ \A a \in u[r] : \A x \in Sides : y \in u[c[a][x]] => On(x, e, a)
  /\ v = [a \in Link |-> IF a = e THEN {e} ELSE IF y \in u[a] THEN u[a] \cup {e} ELSE u[a]]

LEMMA Attach ==
  ASSUME ElementsFit, NEW c, NEW r, NEW u, NEW y, NEW s, NEW e, NEW d, NEW v,
         Attached(c, r, u, y, s, e, d, v)
  PROVE  IsTree(d, r, v) /\ v[r] = u[r] \cup {e}
  <1> DEFINE X == u[r]
             Y == X \cup {e}
  <1>1. /\ IsTree(c, r, u) /\ y \in X /\ s \in Sides /\ c[y][s] = Null /\ e \in TreeElem /\ e \notin X
        /\ Null \notin TreeElem /\ X \subseteq TreeElem
    BY DEF Attached, IsTree, ElementsFit
  <1>2. /\ \A x \in Sides : d[e][x] = Null
        /\ \A a \in X : \A x \in Sides : d[a][x] = IF a = y /\ x = s THEN e ELSE c[a][x]
    BY DEF Attached
  <1>3. On(s, e, y) /\ \A a \in X : \A x \in Sides : y \in u[c[a][x]] => On(x, e, a)
    BY DEF Attached
  <1>4. /\ u \in [Link -> SUBSET TreeElem] /\ u[Null] = {} /\ r \in Link /\ r # Null /\ r \in X
        /\ \A a \in X : a \in u[a] /\ u[a] \subseteq X
        /\ \A a \in X : \A x \in u[a] : u[x] \subseteq u[a]
    BY <1>1 DEF IsTree
  <1>5. \A a \in X : \A x \in Sides : \A z \in u[c[a][x]] : On(x, z, a)
    BY <1>1 DEF IsTree
  <1>6. \A a \in X : \A x \in Sides : c[a][x] \in Link /\ (c[a][x] # Null => c[a][x] \in u[c[a][x]] /\ c[a][x] \in X)
    BY <1>1, ChildSmaller DEF IsTree
  <1>7. /\ v \in [Link -> SUBSET TreeElem] /\ v[e] = {e}
        /\ \A a \in Link : a # e => v[a] = IF y \in u[a] THEN u[a] \cup {e} ELSE u[a]
    <2>1. v = [a \in Link |-> IF a = e THEN {e} ELSE IF y \in u[a] THEN u[a] \cup {e} ELSE u[a]]
      BY DEF Attached
    <2> QED BY <1>1, <1>4, <2>1 DEF Link
  <1>8. \A a \in X : a # e /\ a \in Link
    BY <1>1 DEF Link
  <1>9. v[Null] = {} /\ v[r] = Y /\ v[y] = u[y] \cup {e}
    BY <1>1, <1>4, <1>7, <1>8 DEF Link
  <1>10. \A a \in Y : a \in v[a] /\ v[a] \subseteq Y
    BY <1>4, <1>7, <1>8
  <1>11. \A a \in Y : \A x \in v[a] : v[x] \subseteq v[a]
    <2> SUFFICES ASSUME NEW a \in Y, NEW x \in v[a] PROVE v[x] \subseteq v[a]
      OBVIOUS
    <2>1. CASE x = e  BY <1>7, <2>1
    <2>2. CASE x # e
      <3>1. a \in X /\ x \in u[a] /\ x \in X  BY <1>4, <1>7, <1>8, <2>2
      <3>2. u[x] \subseteq u[a]  BY <1>4, <3>1
      <3> QED BY <1>7, <1>8, <3>1, <3>2
    <2> QED BY <2>1, <2>2
  <1>12. ASSUME NEW a \in X, NEW x \in Sides, ~(a = y /\ x = s)
         PROVE  /\ d[a][x] = c[a][x] /\ c[a][x] # e /\ c[a][x] \in Link
                /\ v[c[a][x]] = IF y \in u[c[a][x]] THEN u[c[a][x]] \cup {e} ELSE u[c[a][x]]
    <2>1. d[a][x] = c[a][x] /\ c[a][x] \in Link  BY <1>2, <1>6, <1>12
    <2>2. c[a][x] # e  BY <1>1, <1>6
    <2> QED BY <1>7, <2>1, <2>2
  <1>13. \A a \in Y : \A x \in Sides : d[a][x] \in Link /\ (d[a][x] # Null => d[a][x] \in v[d[a][x]])
    <2> SUFFICES ASSUME NEW a \in Y, NEW x \in Sides
                 PROVE  d[a][x] \in Link /\ (d[a][x] # Null => d[a][x] \in v[d[a][x]])
      OBVIOUS
    <2>1. CASE a = e  BY <1>2, <2>1 DEF Link
    <2>2. CASE a = y /\ x = s  BY <1>1, <1>2, <1>7, <2>2 DEF Link
    <2>3. CASE a # e /\ ~(a = y /\ x = s)
      <3>1. /\ a \in X /\ d[a][x] = c[a][x] /\ c[a][x] \in Link
            /\ v[c[a][x]] = u[c[a][x]] \/ v[c[a][x]] = u[c[a][x]] \cup {e}
        BY <1>12, <2>3
      <3> QED BY <1>6, <3>1
    <2> QED BY <2>1, <2>2, <2>3
  <1>14. \A a \in Y : v[a] = {a} \cup v[d[a]["left"]] \cup v[d[a]["right"]]
    <2> SUFFICES ASSUME NEW a \in Y PROVE v[a] = {a} \cup v[d[a][s]] \cup v[d[a][Other(s)]]
      BY <1>1, SidesAre
    <2>0. Other(s) \in Sides /\ Other(s) # s  BY <1>1, SidesAre
    <2>1. CASE a = e  BY <1>1, <1>2, <1>7, <1>9, <2>0, <2>1
    <2>2. CASE a # e
      <3>1. a \in X /\ u[a] = {a} \cup u[c[a][s]] \cup u[c[a][Other(s)]]
        BY <1>1, <2>2, ChildSmaller
      <3>2. v[d[a][Other(s)]] = IF y \in u[c[a][Other(s)]] THEN u[c[a][Other(s)]] \cup {e} ELSE u[c[a][Other(s)]]
        BY <1>12, <2>0, <3>1
      <3>3. v[a] = IF y \in u[a] THEN u[a] \cup {e} ELSE u[a]  BY <1>7, <1>8, <3>1
      <3>4. CASE a = y
        <4>1. v[d[a][s]] = {e} /\ u[c[a][s]] = {} /\ y \in u[a]
          BY <1>1, <1>2, <1>4, <1>7, <3>4
        <4>2. v[a] = u[a] \cup {e} /\ u[a] = {a} \cup u[c[a][Other(s)]]  BY <3>1, <3>3, <4>1
        <4>3. v[d[a][Other(s)]] = u[c[a][Other(s)]] \/ v[d[a][Other(s)]] = u[c[a][Other(s)]] \cup {e}
          BY <3>2
        <4> QED BY <4>1, <4>2, <4>3
      <3>5. CASE a # y
        <4>1. v[d[a][s]] = IF y \in u[c[a][s]] THEN u[c[a][s]] \cup {e} ELSE u[c[a][s]]
          BY <1>1, <1>12, <3>1, <3>5
        <4>2. y \in u[a] <=> y \in u[c[a][s]] \/ y \in u[c[a][Other(s)]]
          BY <3>1, <3>5
        <4> QED BY <3>1, <3>2, <3>3, <4>1, <4>2
      <3> QED BY <3>4, <3>5
    <2> QED BY <2>1, <2>2
  <1>15. \A a \in Y : \A x \in Sides : \A z \in v[d[a][x]] : On(x, z, a)
    <2> SUFFICES ASSUME NEW a \in Y, NEW x \in Sides, NEW z \in v[d[a][x]] PROVE On(x, z, a)
      OBVIOUS
    <2>1. a # e  BY <1>2, <1>9
    <2>2. CASE a = y /\ x = s
      <3>1. z = e  BY <1>1, <1>2, <1>7, <2>2
      <3> QED BY <1>3, <2>2, <3>1
    <2>3. CASE ~(a = y /\ x = s)
      <3>0. /\ a \in X /\ d[a][x] = c[a][x]
            /\ v[c[a][x]] = IF y \in u[c[a][x]] THEN u[c[a][x]] \cup {e} ELSE u[c[a][x]]
        BY <1>12, <2>1, <2>3
      <3>1. z \in u[c[a][x]] \/ (z = e /\ y \in u[c[a][x]])
        BY <3>0
      <3> QED BY <1>3, <1>5, <2>1, <3>1
    <2> QED BY <2>2, <2>3
  <1>16. IsTree(d, r, v)
    BY <1>4, <1>7, <1>9, <1>10, <1>11, <1>13, <1>14, <1>15 DEF IsTree
  <1> QED BY <1>9, <1>16

\* The new element in its place, before the colours are restored.
NewLeaf(t, e) ==
  LET x  == IF t.root = Null THEN Null ELSE Search(t, t.root, Key[e])
      t1 == SetParent(Paint([t EXCEPT !.child[e] = NoChild], e, "red"), e, x)
  IN  IF x = Null THEN [t1 EXCEPT !.root = e] ELSE SetChild(t1, x, Toward(Key[e], x), e)

LEMMA NewLeafIs ==
  ASSUME ElementsFit, NEW t, NEW u, Shape(t, u), NEW h, Even(t.child, t.root, t.color, u, h),
         NEW e \in TreeElem, e \notin u[t.root], \A a \in u[t.root] : Key[a] # Key[e],
         NEW r, r = NewLeaf(t, e)
  PROVE  \E v, k : /\ Shape(r, v) /\ Inserting(r.child, r.root, r.color, v, k, e)
                   /\ v[r.root] = u[t.root] \cup {e}
  <1> DEFINE c == t.child
             w == t.color
             X == u[t.root]
             x == IF t.root = Null THEN Null ELSE Search(t, t.root, Key[e])
             s == Toward(Key[e], x)
             ta == [t EXCEPT !.child[e] = NoChild]
             tb == Paint(ta, e, "red")
             tc == SetParent(tb, e, x)
             k == [h EXCEPT ![e] = 0]
             v == [a \in Link |-> IF a = e THEN {e} ELSE IF x # Null /\ x \in u[a] THEN u[a] \cup {e} ELSE u[a]]
             d == r.child
             z == r.color
  <1>1. /\ IsTree(c, t.root, u) /\ t \in Tree /\ t.root \in Link /\ X \subseteq TreeElem /\ Null \notin TreeElem
        /\ Key[e] \in Int /\ e \in Link /\ w \in [TreeElem -> {"red", "black"}]
    BY DEF Shape, IsTree, ElementsFit, Link, Tree
  <1>2. r = IF x = Null THEN [tc EXCEPT !.root = e] ELSE SetChild(tc, x, s, e)
    BY Zenon DEF NewLeaf
  <1>3. t.root # Null => x \in X /\ x \in TreeElem /\ Path(u, t.root, Key[e], x)
                         /\ (Key[x] = Key[e] \/ c[x][s] = Null) /\ x # Null
    <2> SUFFICES ASSUME t.root # Null PROVE x \in X /\ x \in TreeElem /\ Path(u, t.root, Key[e], x)
                         /\ (Key[x] = Key[e] \/ c[x][s] = Null) /\ x # Null
      OBVIOUS
    <2>1. ElementsFit /\ IsTree(t.child, t.root, u) /\ Key[e] \in Int /\ t.root # Null  BY <1>1
    <2>2. x = Search(t, t.root, Key[e])  OBVIOUS
    <2> HIDE DEF x, c, s, X
    <2>3. /\ x \in u[t.root] /\ x \in TreeElem /\ Path(u, t.root, Key[e], x)
          /\ Key[x] = Key[e] \/ t.child[x][Toward(Key[e], x)] = Null
      <3>1. \A y : y = Search(t, t.root, Key[e]) =>
              /\ y \in u[t.root] /\ y \in TreeElem /\ Path(u, t.root, Key[e], y)
              /\ Key[y] = Key[e] \/ t.child[y][Toward(Key[e], y)] = Null
        BY ONLY <2>1, SearchIs
      <3> QED BY <2>2, <3>1
    <2> QED BY <1>1, <2>3 DEF c, s, X
  <1>4. t.root = Null => x = Null  OBVIOUS
  <1> HIDE DEF x
  <1>5. /\ ta \in Tree /\ ta.root = t.root /\ ta.parent = t.parent /\ ta.color = w
        /\ \A y \in Sides : ta.child[e][y] = Null
        /\ \A a \in TreeElem : a # e => ta.child[a] = c[a]
    BY <1>1 DEF Tree, NoChild, Sides, Link
  <1> HIDE DEF ta
  <1>6. /\ tb \in Tree /\ tb.root = t.root /\ tb.parent = t.parent /\ tb.child = ta.child
        /\ \A a \in TreeElem : tb.color[a] = IF a = e THEN "red" ELSE w[a]
    <2>1. tb = Paint(ta, e, "red") /\ ta \in Tree /\ e \in Link /\ "red" \in {"red", "black"} /\ Null \notin TreeElem
      BY <1>1, <1>5
    <2> HIDE DEF tb, c, w
    <2>2. /\ tb \in Tree /\ tb.root = ta.root /\ tb.child = ta.child /\ tb.parent = ta.parent
          /\ \A a \in TreeElem : tb.color[a] = IF a = e THEN "red" ELSE ta.color[a]
      BY ONLY <2>1, PaintIs
    <2> QED BY <1>5, <2>2
  <1> HIDE DEF tb
  <1>7. x \in Link  BY <1>1, <1>3, <1>4 DEF Link
  <1>8. /\ tc \in Tree /\ tc.root = t.root /\ tc.child = ta.child /\ tc.color = tb.color
        /\ \A a \in TreeElem : tc.parent[a] = IF a = e THEN x ELSE t.parent[a]
    <2>1. tc = SetParent(tb, e, x) /\ tb \in Tree /\ e \in Link /\ x \in Link /\ Null \notin TreeElem
      BY <1>1, <1>6, <1>7
    <2> HIDE DEF tc, c, w
    <2>2. /\ tc \in Tree /\ tc.root = tb.root /\ tc.child = tb.child /\ tc.color = tb.color
          /\ \A a \in TreeElem : tc.parent[a] = IF a = e THEN x ELSE tb.parent[a]
      BY ONLY <2>1, SetParentIs
    <2> QED BY <1>6, <2>2
  <1> HIDE DEF tc
  <1>9. CASE t.root = Null
    <2> HIDE DEF c, w
    <2>1. r = [tc EXCEPT !.root = e]  BY <1>2, <1>4, <1>9
    <2>2. /\ r \in Tree /\ r.root = e /\ d = ta.child /\ z = tb.color /\ r.parent[e] = Null
      BY <1>1, <1>4, <1>8, <1>9, <2>1 DEF Tree
    <2>3. u[Null] = {} /\ X = {}  BY <1>1, <1>9 DEF IsTree
    <2>4. v \in [Link -> SUBSET TreeElem] /\ v[e] = {e} /\ v[Null] = {}
      BY <1>1, <1>4, <1>9, <2>3 DEF IsTree
    <2> HIDE DEF v, d, z
    <2>5. \A y \in Sides : d[e][y] = Null  BY <1>5, <2>2
    <2>6. IsTree(d, e, v)
      BY <1>1, <2>4, <2>5 DEF IsTree, Sides, Link
    <2>7. Shape(r, v)
      BY <1>1, <2>2, <2>4, <2>5, <2>6 DEF Shape, d
    <2>8. z \in [TreeElem -> {"red", "black"}] /\ z[e] = "red"
      BY <1>6, <2>2 DEF Tree
    <2>9. k \in [Link -> Nat] /\ k[Null] = 0 /\ k[e] = 0
      BY <1>1 DEF Even, Level
    <2> HIDE DEF k
    <2>10. Level(d, z, v[e], k, Null, "left")
      <3>1. Weight(z, e) = 0  BY <2>8 DEF Weight
      <3>2. \A y \in Sides : Lack(e, y, Null, "left") = 0  BY <1>1 DEF Lack
      <3> QED BY <2>4, <2>5, <2>9, <3>1, <3>2 DEF Level
    <2>11. Inserting(d, e, z, v, k, e)
      BY <1>1, <2>4, <2>5, <2>6, <2>8, <2>10 DEF Inserting, IsRed
    <2> QED BY <2>2, <2>3, <2>4, <2>7, <2>11 DEF d, z
  <1>10. CASE t.root # Null
    <2>1. x \in X /\ x \in TreeElem /\ x # Null /\ Path(u, t.root, Key[e], x) /\ c[x][s] = Null /\ x # e
      BY <1>3, <1>10
    <2>2. r = SetChild(tc, x, s, e)  BY <1>2, <2>1
    <2>3. s \in Sides /\ KeyOn(s, Key[e], x) /\ On(s, e, x)
      BY <1>1, <2>1, KeyOnIs
    <2> HIDE DEF s
    <2>4. /\ r \in Tree /\ r.root = t.root /\ r.parent = tc.parent /\ z = tb.color
          /\ \A a \in TreeElem : \A y \in Sides : d[a][y] = IF a = x /\ y = s THEN e ELSE ta.child[a][y]
      <3>1. r = SetChild(tc, x, s, e) /\ tc \in Tree /\ x \in TreeElem /\ s \in Sides /\ e \in Link
        BY <1>1, <1>8, <2>1, <2>2, <2>3
      <3> HIDE DEF c, w
      <3>2. /\ r \in Tree /\ r.root = tc.root /\ r.parent = tc.parent /\ r.color = tc.color
            /\ \A a \in TreeElem : \A y \in Sides : r.child[a][y] = IF a = x /\ y = s THEN e ELSE tc.child[a][y]
        BY ONLY <3>1, SetChildIs
      <3> QED BY <1>8, <3>2 DEF d, z
    <2> HIDE DEF d, z
    <2>5. /\ \A y \in Sides : d[e][y] = Null
          /\ \A a \in X : \A y \in Sides : d[a][y] = IF a = x /\ y = s THEN e ELSE c[a][y]
      BY <1>1, <1>5, <2>1, <2>4
    <2>6. \A a \in X : \A y \in Sides : x \in u[c[a][y]] => On(y, e, a)
      <3> SUFFICES ASSUME NEW a \in X, NEW y \in Sides, x \in u[c[a][y]] PROVE On(y, e, a)
        OBVIOUS
      <3>1. c[a][y] # Null  BY <1>1 DEF IsTree
      <3>2. a \notin u[x]
        <4>1. a \notin u[c[a][y]] /\ c[a][y] \in X  BY <1>1, <3>1, ChildSmaller
        <4>2. u[x] \subseteq u[c[a][y]]  BY <1>1, <4>1 DEF IsTree
        <4> QED BY <4>1, <4>2
      <3>3. PICK q \in Sides : KeyOn(q, Key[e], a) /\ \A b \in u[x] : On(q, b, a)
        BY <2>1, <3>2 DEF Path
      <3>4. x \in u[x] /\ a \in TreeElem /\ x \in TreeElem  BY <1>1, <2>1 DEF IsTree
      <3>5. On(y, x, a)  BY <1>1 DEF IsTree
      <3>6. q = y
        <4>1. q = y \/ q = Other(y)  BY SidesAre
        <4> QED BY <3>3, <3>4, <3>5, <4>1, OnIsOrder
      <3> QED BY <1>1, <3>3, <3>4, <3>6, KeyOnIs
    <2>7. v = [a \in Link |-> IF a = e THEN {e} ELSE IF x \in u[a] THEN u[a] \cup {e} ELSE u[a]]
      BY <2>1
    <2> HIDE DEF v
    <2>8. Attached(c, t.root, u, x, s, e, d, v)
      BY <1>1, <2>1, <2>3, <2>5, <2>6, <2>7 DEF Attached
    <2>9. IsTree(d, r.root, v) /\ v[r.root] = X \cup {e}
      BY <2>4, <2>8, Attach
    <2>10. Shape(r, v)
      <3>1. r.parent[r.root] = Null
        <4>1. t.root \in TreeElem /\ t.root # e  BY <1>1, <1>10 DEF IsTree, Link
        <4> QED BY <1>8, <1>10, <2>4, <4>1 DEF Shape
      <3>2. ASSUME NEW a \in X \cup {e}, NEW y \in Sides, d[a][y] # Null PROVE r.parent[d[a][y]] = a
        <4>1. a \in X  BY <2>5, <3>2
        <4>2. CASE a = x /\ y = s
          BY <1>8, <2>4, <2>5, <4>2
        <4>3. CASE ~(a = x /\ y = s)
          <5>1. d[a][y] = c[a][y]  BY <2>5, <4>1, <4>3
          <5>2. c[a][y] \in X  BY <1>1, <3>2, <4>1, <5>1, ChildSmaller
          <5>3. t.parent[c[a][y]] = a  BY <3>2, <4>1, <5>1 DEF Shape
          <5>4. c[a][y] # e /\ c[a][y] \in TreeElem  BY <1>1, <5>2
          <5> QED BY <1>8, <2>4, <5>1, <5>3, <5>4
        <4> QED BY <4>2, <4>3
      <3> QED BY <2>4, <2>9, <3>1, <3>2 DEF Shape, d
    <2>11. /\ z \in [TreeElem -> {"red", "black"}] /\ \A a \in TreeElem : z[a] = IF a = e THEN "red" ELSE w[a]
      BY <1>6, <2>4 DEF Tree
    <2>12. /\ h \in [Link -> Nat] /\ h[Null] = 0
           /\ \A a \in X : \A y \in Sides : h[a] = h[c[a][y]] + Weight(w, a) + Lack(a, y, Null, "left")
           /\ \A a \in X : \A y \in Sides : ~(IsRed(w, a) /\ IsRed(w, c[a][y]))
           /\ ~IsRed(w, t.root)
      BY DEF Even, Level
    <2>13. k \in [Link -> Nat] /\ k[Null] = 0 /\ k[e] = 0 /\ \A a \in Link : a # e => k[a] = h[a]
      BY <1>1, <2>12
    <2> HIDE DEF k, c, w
    <2>14. ASSUME NEW a \in X \cup {e}, NEW y \in Sides
           PROVE  /\ k[a] = k[d[a][y]] + Weight(z, a) + Lack(a, y, Null, "left")
                  /\ (IsRed(z, a) /\ IsRed(z, d[a][y]) => d[a][y] = e)
      <3>0. Lack(a, y, Null, "left") = 0 /\ a \in TreeElem /\ a \in Link /\ Weight(z, a) \in Nat
        BY <1>1 DEF Lack, Link, Weight
      <3>1. CASE a = e
        <4>1. Weight(z, a) = 0  BY <2>11, <3>1 DEF Weight
        <4> QED BY <2>5, <2>13, <3>0, <3>1, <4>1 DEF IsRed
      <3>2. CASE a # e
        <4>1. a \in X /\ z[a] = w[a] /\ k[a] = h[a] /\ h[a] \in Nat  BY <2>11, <2>12, <2>13, <3>0, <3>2
        <4>2. c[a][y] \in Link /\ c[a][y] # e  BY <1>1, <4>1, ChildSmaller
        <4>3. k[d[a][y]] = h[c[a][y]]
          <5>1. CASE a = x /\ y = s  BY <2>1, <2>5, <2>12, <2>13, <5>1
          <5>2. CASE ~(a = x /\ y = s)  BY <2>5, <2>13, <4>1, <4>2, <5>2
          <5> QED BY <5>1, <5>2
        <4>4. Weight(z, a) = Weight(w, a)  BY <4>1 DEF Weight
        <4>5. k[a] = k[d[a][y]] + Weight(z, a) + Lack(a, y, Null, "left")
          BY <2>12, <4>1, <4>3, <4>4
        <4>6. d[a][y] # e => d[a][y] = c[a][y]  BY <2>5, <4>1
        <4>7. d[a][y] # e => (IsRed(z, d[a][y]) => IsRed(w, c[a][y]))
          BY <2>11, <4>2, <4>6 DEF IsRed, Link
        <4> QED BY <2>12, <4>1, <4>5, <4>7 DEF IsRed
      <3> QED BY <3>1, <3>2
    <2>15. Level(d, z, v[r.root], k, Null, "left")
      BY <2>9, <2>13, <2>14 DEF Level
    <2>16. IsRed(z, e) /\ (IsRed(z, r.root) => r.root = e)
      <3>1. IsRed(z, e)  BY <1>1, <2>11 DEF IsRed
      <3>2. t.root \in TreeElem  BY <1>1, <1>10 DEF Link
      <3> QED BY <2>4, <2>11, <2>12, <3>1, <3>2 DEF IsRed
    <2>17. Inserting(d, r.root, z, v, k, e)
      BY <2>9, <2>11, <2>14, <2>15, <2>16 DEF Inserting
    <2> QED BY <2>9, <2>10, <2>17 DEF d, z
  <1> QED BY <1>9, <1>10

\* A tree that keeps the rules.
Sound(t) == \E u, h : Shape(t, u) /\ Even(t.child, t.root, t.color, u, h)

\* The new leaf, and the colours restored.
LEMMA Added ==
  ASSUME ElementsFit, NEW t, NEW u, Shape(t, u), NEW h, Even(t.child, t.root, t.color, u, h),
         NEW e \in TreeElem, e \notin u[t.root], \A a \in u[t.root] : Key[a] # Key[e],
         NEW r, r = InsertColor(NewLeaf(t, e), e)
  PROVE  \E v : Shape(r, v) /\ v[r.root] = u[t.root] \cup {e} /\ Sound(r)
  <1> DEFINE n == NewLeaf(t, e)
  <1>1. PICK v, k : /\ Shape(n, v) /\ Inserting(n.child, n.root, n.color, v, k, e)
                    /\ v[n.root] = u[t.root] \cup {e}
    BY NewLeafIs
  <1>2. r = InsertColor(n, e)  OBVIOUS
  <1> HIDE DEF n
  <1>3. PICK d, q : Shape(r, d) /\ Even(r.child, r.root, r.color, d, q) /\ d[r.root] = v[n.root]
    BY ONLY ElementsFit, <1>1, <1>2, InsertColorIs
  <1> QED BY <1>1, <1>3 DEF Sound

\* The set of the model is the family of the root.
LEMMA SetIs ==
  ASSUME ElementsFit, NEW t, NEW u, Shape(t, u)
  PROVE  Below(t, t.root) = u[t.root] /\ u[t.root] \subseteq TreeElem
  <1>1. IsTree(t.child, t.root, u) /\ IsFiniteSet(TreeElem)  BY DEF Shape, ElementsFit
  <1>2. u[t.root] \subseteq TreeElem  BY <1>1 DEF IsTree
  <1>3. CASE t.root = Null
    <2>1. Below(t, Null) = {}  BY <1>1, BelowNull
    <2> QED BY <1>1, <1>2, <1>3, <2>1 DEF IsTree
  <1>4. CASE t.root # Null
    <2>1. t.root \in u[t.root]  BY <1>1, <1>4 DEF IsTree
    <2> QED BY <1>2, <2>1, BelowShape
  <1> QED BY <1>3, <1>4

\* The element of a set with one element is its smallest one.
LEMMA OneSmallest ==
  ASSUME ElementsFit, NEW x \in TreeElem
  PROVE  RbOrder!Smallest({x}) = x /\ RbOrder!Greatest({x}) = x
  <1>1. Key[x] <= Key[x] /\ Key[x] >= Key[x]  BY DEF ElementsFit
  <1>2. {x} # {}  OBVIOUS
  <1>3. (CHOOSE y \in {x} : \A z \in {x} : Key[y] <= Key[z]) = x  BY <1>1
  <1>4. (CHOOSE y \in {x} : \A z \in {x} : Key[y] >= Key[z]) = x  BY <1>1
  <1> QED BY <1>2, <1>3, <1>4 DEF RbOrder!Smallest, RbOrder!Greatest

\* RB_INSERT keeps the rules, and does what it does to a set.
LEMMA InsertActs ==
  ASSUME ElementsFit, Sound(tree), NEW e \in TreeElem, RbInsert(e)
  PROVE  Sound(tree') /\ RbOrder!Insert(e)
  <1>1. PICK u, h : Shape(tree, u) /\ Even(tree.child, tree.root, tree.color, u, h)
    BY DEF Sound
  <1>2. Set = u[tree.root] /\ u[tree.root] \subseteq TreeElem  BY <1>1, SetIs DEF Set
  <1> DEFINE x == IF tree.root = Null THEN Null ELSE Search(tree, tree.root, Key[e])
             found == x # Null /\ Key[x] = Key[e]
  <1>3. /\ e \notin Set
        /\ IF found THEN answer' = x /\ UNCHANGED tree
                    ELSE answer' = Null /\ tree' = InsertColor(NewLeaf(tree, e), e)
    BY Zenon DEF RbInsert, NewLeaf
  <1>4. Key[e] \in Int /\ IsTree(tree.child, tree.root, u) /\ Null \notin TreeElem
    BY <1>1 DEF ElementsFit, Shape
  <1>5. tree.root # Null => /\ x \in u[tree.root] /\ x \in TreeElem /\ Path(u, tree.root, Key[e], x)
                            /\ Key[x] = Key[e] \/ tree.child[x][Toward(Key[e], x)] = Null
    <2> SUFFICES ASSUME tree.root # Null
                 PROVE  /\ x \in u[tree.root] /\ x \in TreeElem /\ Path(u, tree.root, Key[e], x)
                        /\ Key[x] = Key[e] \/ tree.child[x][Toward(Key[e], x)] = Null
      OBVIOUS
    <2>1. ElementsFit /\ IsTree(tree.child, tree.root, u) /\ Key[e] \in Int /\ tree.root # Null  BY <1>4
    <2>2. x = Search(tree, tree.root, Key[e])  OBVIOUS
    <2> HIDE DEF x, found
    <2>3. \A y : y = Search(tree, tree.root, Key[e]) =>
              /\ y \in u[tree.root] /\ y \in TreeElem /\ Path(u, tree.root, Key[e], y)
              /\ Key[y] = Key[e] \/ tree.child[y][Toward(Key[e], y)] = Null
      BY ONLY <2>1, SearchIs
    <2> QED BY <2>2, <2>3
  <1>6. CASE found
    <2> HIDE DEF x
    <2>1. tree.root # Null  BY <1>6 DEF x
    <2>2. x \in Set /\ x \in TreeElem /\ Key[x] = Key[e] /\ answer' = x /\ tree' = tree
      BY <1>2, <1>3, <1>5, <1>6, <2>1
    <2>3. \A y \in Set : Key[y] = Key[e] => y = x
      BY <1>2, <1>4, <2>2, KeysDiffer
    <2>4. RbOrder!Equal(Key[e]) = {x}  BY <2>2, <2>3 DEF RbOrder!Equal
    <2>5. RbOrder!Smallest(RbOrder!Equal(Key[e])) = x  BY <2>2, <2>4, OneSmallest
    <2>6. Set' = Set  BY <2>2 DEF Set
    <2>7. Sound(tree')  BY <2>2
    <2>8. RbOrder!Equal(Key[e]) # {}  BY <2>4
    <2> HIDE DEF found
    <2> QED BY <1>3, <2>2, <2>5, <2>6, <2>7, <2>8 DEF RbOrder!Insert
  <1>7. CASE ~found
    <2>1. \A z \in u[tree.root] : Key[z] # Key[e]
      <3>1. CASE tree.root = Null  BY <1>4, <3>1 DEF IsTree
      <3>2. CASE tree.root # Null
        <4> HIDE DEF x
        <4>1. /\ x \in u[tree.root] /\ Path(u, tree.root, Key[e], x)
              /\ Key[x] # Key[e] /\ tree.child[x][Toward(Key[e], x)] = Null
          BY <1>4, <1>5, <1>7, <3>2
        <4> QED BY <1>4, <4>1, SearchFails
      <3> QED BY <3>1, <3>2
    <2> HIDE DEF x, found
    <2>2. answer' = Null /\ tree' = InsertColor(NewLeaf(tree, e), e) /\ e \notin u[tree.root]
      BY <1>2, <1>3, <1>7
    <2>3. \A r : r = InsertColor(NewLeaf(tree, e), e) =>
            \E v : Shape(r, v) /\ v[r.root] = u[tree.root] \cup {e} /\ Sound(r)
      BY <1>1, <2>1, <2>2, Added
    <2>4. PICK v : Shape(tree', v) /\ v[(tree').root] = u[tree.root] \cup {e} /\ Sound(tree')
      BY <2>2, <2>3
    <2>5. Set' = Set \cup {e}
      <3>1. \A r : Shape(r, v) => Below(r, r.root) = v[r.root]  BY SetIs
      <3> QED BY <1>2, <2>4, <3>1 DEF Set
    <2>6. RbOrder!Equal(Key[e]) = {}  BY <1>2, <2>1 DEF RbOrder!Equal
    <2>7. RbOrder!Smallest(RbOrder!Equal(Key[e])) = Null  BY <2>6 DEF RbOrder!Smallest
    <2> QED BY <1>3, <2>2, <2>4, <2>5, <2>6, <2>7 DEF RbOrder!Insert
  <1> QED BY <1>6, <1>7

-----------------------------------------------------------------------------
(***************************************************************************)
(* Removal: the colours.                                                   *)
(***************************************************************************)
\* Below p on side s, where the child e is, a black element is missing; b is the other child.
RemoveAt(c, r, w, u, h, p, s, o, e, b) ==
  /\ IsTree(c, r, u) /\ w \in [TreeElem -> {"red", "black"}] /\ Level(c, w, u[r], h, p, s)
  /\ p \in u[r] /\ s \in Sides /\ o = Other(s) /\ c[p][s] = e /\ c[p][o] = b
  /\ ~IsRed(w, e) /\ ~IsRed(w, r)
  /\ \A a \in u[r] : \A x \in Sides : ~(IsRed(w, a) /\ IsRed(w, c[a][x]))

LEMMA RemovePlace ==
  ASSUME ElementsFit, NEW c, NEW r, NEW w, NEW u, NEW h, NEW p, NEW s, NEW o, NEW e, NEW b,
         RemoveAt(c, r, w, u, h, p, s, o, e, b)
  PROVE  /\ u[r] \subseteq TreeElem /\ Null \notin TreeElem /\ r \in TreeElem /\ p \in TreeElem /\ p \in u[r]
         /\ b \in TreeElem /\ b \in u[r] /\ b # p /\ b # r /\ b # e /\ e \in Link /\ e # p
         /\ (e # Null => e # r)
         /\ s \in Sides /\ o \in Sides /\ o # s /\ Other(o) = s /\ \A x \in Sides : x = s \/ x = o
         /\ h \in [Link -> Nat] /\ h[Null] = 0 /\ h[p] \in Nat /\ h[e] \in Nat /\ h[b] \in Nat
         /\ Weight(w, p) \in Nat
         /\ h[p] = h[e] + Weight(w, p) + 1 /\ h[p] = h[b] + Weight(w, p) /\ h[b] = h[e] + 1
         /\ \A a \in u[r] : \A x \in Sides :
              /\ a \in TreeElem /\ a \in Link /\ c[a][x] \in Link /\ c[a][x] # a /\ h[a] \in Nat /\ h[c[a][x]] \in Nat
              /\ a # p \/ x # s => h[a] = h[c[a][x]] + Weight(w, a)
              /\ c[a][x] # Null => c[a][x] \in u[r] /\ c[a][x] \in TreeElem
  <1> DEFINE X == u[r]
  <1>1. /\ IsTree(c, r, u) /\ w \in [TreeElem -> {"red", "black"}] /\ Level(c, w, X, h, p, s)
        /\ p \in X /\ s \in Sides /\ o = Other(s) /\ c[p][s] = e /\ c[p][o] = b
    BY DEF RemoveAt
  <1>2. X \subseteq TreeElem /\ Null \notin TreeElem /\ r \in Link  BY <1>1 DEF IsTree, ElementsFit
  <1>3. r \in TreeElem /\ p \in TreeElem
    <2>1. r # Null  BY <1>1 DEF IsTree
    <2> QED BY <1>1, <1>2, <2>1 DEF Link
  <1>4. o \in Sides /\ o # s /\ Other(o) = s /\ \A x \in Sides : x = s \/ x = o
    BY <1>1, SidesAre
  <1>5. h \in [Link -> Nat] /\ h[Null] = 0
    BY <1>1 DEF Level
  <1>6. ASSUME NEW a \in X, NEW x \in Sides
        PROVE  /\ a \in TreeElem /\ a \in Link /\ c[a][x] \in Link /\ c[a][x] # a /\ h[a] \in Nat
               /\ h[c[a][x]] \in Nat /\ Weight(w, a) \in Nat
               /\ h[a] = h[c[a][x]] + Weight(w, a) + Lack(a, x, p, s)
               /\ c[a][x] # Null => c[a][x] \in X /\ c[a][x] \in TreeElem
    <2>1. /\ a \in TreeElem /\ a \in Link /\ c[a][x] \in Link
          /\ (c[a][x] # Null => c[a][x] \in X /\ c[a][x] # a)
      BY <1>1, ChildSmaller
    <2>2. h[a] = h[c[a][x]] + Weight(w, a) + Lack(a, x, p, s)  BY <1>1 DEF Level
    <2>3. h[a] \in Nat /\ h[c[a][x]] \in Nat  BY <1>5, <2>1
    <2>4. Weight(w, a) \in Nat  BY DEF Weight
    <2> QED BY <1>2, <2>1, <2>2, <2>3, <2>4
  <1>7. ASSUME NEW a \in X, NEW x \in Sides, a # p \/ x # s
        PROVE  h[a] = h[c[a][x]] + Weight(w, a)
    <2>1. Lack(a, x, p, s) = 0  BY <1>7 DEF Lack
    <2>2. /\ h[c[a][x]] \in Nat /\ Weight(w, a) \in Nat
          /\ h[a] = h[c[a][x]] + Weight(w, a) + Lack(a, x, p, s)
      BY <1>6
    <2> QED BY <2>1, <2>2
  <1>8. /\ h[p] \in Nat /\ h[e] \in Nat /\ h[b] \in Nat /\ Weight(w, p) \in Nat
        /\ h[p] = h[e] + Weight(w, p) + 1 /\ h[p] = h[b] + Weight(w, p)
    <2>1. Lack(p, s, p, s) = 1  BY DEF Lack
    <2>2. /\ h[p] \in Nat /\ h[c[p][s]] \in Nat /\ h[c[p][o]] \in Nat /\ Weight(w, p) \in Nat
          /\ h[p] = h[c[p][s]] + Weight(w, p) + Lack(p, s, p, s)
      BY <1>1, <1>4, <1>6
    <2>3. h[p] = h[c[p][o]] + Weight(w, p)  BY <1>1, <1>4, <1>7
    <2> QED BY <1>1, <2>1, <2>2, <2>3
  <1>9. h[b] = h[e] + 1  BY <1>8
  <1>10. b # Null /\ b # e
    <2>1. h[b] # 0 /\ h[b] # h[e]  BY <1>8, <1>9
    <2> QED BY <1>5, <2>1
  <1>11. /\ b \in X /\ b \in TreeElem /\ b # p /\ e \in Link /\ e # p
    BY <1>1, <1>4, <1>6, <1>10
  <1>12. b # r /\ (e # Null => e # r)
    BY <1>1, <1>4, <1>10, OneParent
  <1> QED BY <1>1, <1>2, <1>3, <1>4, <1>5, <1>6, <1>7, <1>8, <1>9, <1>10, <1>11, <1>12

\* The other child is red: it moves up, and one of its children, which are black, is now
\* the other child of p.
RedSibling(c, r, w, u, h, p, s, o, e, b, inner, outer, z, d, q, v) ==
  /\ RemoveAt(c, r, w, u, h, p, s, o, e, b) /\ IsRed(w, b)
  /\ z \in [TreeElem -> {"red", "black"}]
  /\ \A a \in TreeElem : z[a] = IF a = p THEN "red" ELSE IF a = b THEN "black" ELSE w[a]
  /\ Turned(c, r, u, p, s, o, b, e, inner, outer, d, q, v)

LEMMA RemoveRedSibling ==
  ASSUME ElementsFit, NEW c, NEW r, NEW w, NEW u, NEW h, NEW p, NEW s, NEW o, NEW e, NEW b,
         NEW inner, NEW outer, NEW z, NEW d, NEW q, NEW v,
         RedSibling(c, r, w, u, h, p, s, o, e, b, inner, outer, z, d, q, v)
  PROVE  /\ \E k : RemoveAt(d, q, z, v, k, p, s, o, e, inner)
         /\ ~IsRed(z, inner) /\ v[q] = u[r]
         /\ u[e] \subseteq v[p] /\ p \notin u[e] /\ z[p] = "red"
  <1> DEFINE X == u[r]
             k == [h EXCEPT ![b] = h[p], ![p] = h[b]]
  <1> HIDE DEF X, k
  <1>0. /\ RemoveAt(c, r, w, u, h, p, s, o, e, b) /\ IsRed(w, b)
        /\ z \in [TreeElem -> {"red", "black"}]
        /\ \A a \in TreeElem : z[a] = IF a = p THEN "red" ELSE IF a = b THEN "black" ELSE w[a]
        /\ Turned(c, r, u, p, s, o, b, e, inner, outer, d, q, v)
    BY DEF RedSibling
  <1>1. /\ IsTree(c, r, u) /\ w \in [TreeElem -> {"red", "black"}]
        /\ o = Other(s) /\ c[p][s] = e /\ c[p][o] = b
        /\ ~IsRed(w, e) /\ ~IsRed(w, r)
        /\ \A a \in X : \A x \in Sides : ~(IsRed(w, a) /\ IsRed(w, c[a][x]))
    BY <1>0 DEF RemoveAt, X
  <1>2. /\ X \subseteq TreeElem /\ Null \notin TreeElem /\ r \in TreeElem /\ p \in TreeElem /\ p \in X
        /\ b \in TreeElem /\ b \in X /\ b # p /\ b # r /\ b # e /\ e \in Link /\ e # p
        /\ s \in Sides /\ o \in Sides /\ o # s /\ \A x \in Sides : x = s \/ x = o
    BY <1>0, RemovePlace DEF X
  <1>3. /\ h \in [Link -> Nat] /\ h[Null] = 0 /\ h[p] \in Nat /\ h[e] \in Nat /\ h[b] \in Nat
        /\ h[p] = h[b] + Weight(w, p) /\ h[b] = h[e] + 1
    BY <1>0, RemovePlace
  <1>4. \A a \in X : \A x \in Sides :
           /\ a \in TreeElem /\ a \in Link /\ c[a][x] \in Link /\ c[a][x] # a /\ h[a] \in Nat /\ h[c[a][x]] \in Nat
           /\ a # p \/ x # s => h[a] = h[c[a][x]] + Weight(w, a)
           /\ c[a][x] # Null => c[a][x] \in X /\ c[a][x] \in TreeElem
    BY <1>0, RemovePlace DEF X
  <1>5. /\ Place(c, r, u, p, s, o, b, e, inner, outer) /\ q = (IF p = r THEN b ELSE r)
        /\ \A x \in Sides : d[p][x] = IF x = o THEN inner ELSE e
        /\ \A x \in Sides : d[b][x] = IF x = s THEN p ELSE outer
        /\ \A a \in X : a # p /\ a # b =>
             \A x \in Sides : d[a][x] = IF c[a][x] = p THEN b ELSE c[a][x]
    BY <1>0 DEF Turned, X
  <1>6. /\ IsTree(d, q, v) /\ v[q] = X /\ v[p] = {p} \cup u[e] \cup u[inner]
    BY <1>0, Turn DEF X
  <1>7. /\ inner \in Link /\ outer \in Link /\ inner # p /\ inner # b /\ outer # p /\ outer # b
        /\ p \notin u[e]
    BY <1>5, TurnParts
  <1>8. c[b][s] = inner /\ c[b][o] = outer
    BY <1>5 DEF Place
  <1>9. Weight(w, p) = 1 /\ Weight(w, b) = 0
    <2>1. ~IsRed(w, p)  BY <1>0, <1>1, <1>2
    <2> QED BY <1>0, <1>1, <1>2, <2>1 DEF IsRed, Weight
  <1>10. ~IsRed(w, inner) /\ ~IsRed(w, outer)
    BY <1>0, <1>1, <1>2, <1>8
  <1>11. h[b] = h[inner] /\ h[b] = h[outer] /\ h[p] = h[b] + 1
    <2>1. h[b] = h[inner] + 0 /\ h[b] = h[outer] + 0
      BY <1>2, <1>4, <1>8, <1>9
    <2>2. h[inner] \in Nat /\ h[outer] \in Nat  BY <1>3, <1>7
    <2> QED BY <1>3, <1>9, <2>1, <2>2
  <1>12. /\ k \in [Link -> Nat] /\ k[Null] = 0 /\ k[b] = h[p] /\ k[p] = h[b]
         /\ \A a \in Link : a # p /\ a # b => k[a] = h[a]
    BY <1>2, <1>3 DEF Link, k
  <1>13. k[inner] = h[inner] /\ k[outer] = h[outer] /\ k[e] = h[e]
    BY <1>2, <1>7, <1>12
  <1>14. ~IsRed(z, inner) /\ ~IsRed(z, outer) /\ ~IsRed(z, e)
    BY <1>0, <1>1, <1>2, <1>7, <1>10 DEF IsRed, Link
  <1>15. ASSUME NEW a \in X, NEW x \in Sides
         PROVE  /\ k[a] = k[d[a][x]] + Weight(z, a) + Lack(a, x, p, s)
                /\ ~(IsRed(z, a) /\ IsRed(z, d[a][x]))
    <2>0. Weight(z, a) \in Nat /\ a \in TreeElem /\ k[a] \in Nat
      BY <1>2, <1>12 DEF Weight, Link
    <2>1. CASE a = p
      <3>1. Weight(z, a) = 0  BY <1>0, <2>0, <2>1 DEF Weight
      <3>2. CASE x = s
        <4>1. d[a][x] = e /\ Lack(a, x, p, s) = 1  BY <1>2, <1>5, <2>1, <3>2 DEF Lack
        <4> QED BY <1>3, <1>12, <1>13, <1>14, <2>1, <3>1, <4>1
      <3>3. CASE x = o
        <4>1. d[a][x] = inner /\ Lack(a, x, p, s) = 0  BY <1>2, <1>5, <2>1, <3>3 DEF Lack
        <4> QED BY <1>3, <1>11, <1>12, <1>13, <1>14, <2>1, <3>1, <4>1
      <3> QED BY <1>2, <3>2, <3>3
    <2>2. CASE a = b
      <3>1. d[a][x] = p \/ d[a][x] = outer  BY <1>5, <2>2
      <3>2. k[a] = k[d[a][x]] + 1  BY <1>11, <1>12, <1>13, <2>2, <3>1
      <3>3. z[a] = "black"  BY <1>0, <1>2, <2>0, <2>2
      <3>4. Weight(z, a) = 1  BY <3>3 DEF Weight
      <3>5. k[d[a][x]] \in Nat /\ Lack(a, x, p, s) = 0
        BY <1>2, <1>7, <1>12, <2>2, <3>1 DEF Link, Lack
      <3> QED BY <3>2, <3>3, <3>4, <3>5 DEF IsRed
    <2>3. CASE a # p /\ a # b
      <3>1. d[a][x] = IF c[a][x] = p THEN b ELSE c[a][x]  BY <1>5, <2>3
      <3>2. h[a] = h[c[a][x]] + Weight(w, a) /\ c[a][x] \in Link /\ a \in Link /\ h[c[a][x]] \in Nat
        BY <1>4, <2>3
      <3>3. c[a][x] # b  BY <1>1, <1>2, <2>3, OneParent DEF X
      <3>4. k[d[a][x]] = h[c[a][x]] /\ k[a] = h[a]  BY <1>12, <2>3, <3>1, <3>2, <3>3
      <3>5. Weight(z, a) = Weight(w, a) /\ z[a] = w[a]  BY <1>0, <2>0, <2>3 DEF Weight
      <3>6. IsRed(z, a) => ~IsRed(z, d[a][x])
        <4>1. CASE c[a][x] = p
          BY <1>0, <1>2, <3>1, <4>1 DEF IsRed
        <4>2. CASE c[a][x] # p
          <5>1. IsRed(w, a) => ~IsRed(w, c[a][x])  BY <1>1
          <5> QED BY <1>0, <3>1, <3>2, <3>3, <3>5, <4>2, <5>1 DEF IsRed, Link
        <4> QED BY <4>1, <4>2
      <3>7. Lack(a, x, p, s) = 0  BY <2>3 DEF Lack
      <3>8. k[a] = k[d[a][x]] + Weight(z, a)  BY <3>2, <3>4, <3>5
      <3>9. k[d[a][x]] \in Nat  BY <3>2, <3>4
      <3> QED BY <2>0, <3>6, <3>7, <3>8, <3>9
    <2> QED BY <2>1, <2>2, <2>3
  <1>16. Level(d, z, v[q], k, p, s)
    BY <1>6, <1>12, <1>15 DEF Level
  <1>17. ~IsRed(z, q)  BY <1>0, <1>1, <1>2, <1>5 DEF IsRed
  <1>18. d[p][s] = e /\ d[p][o] = inner  BY <1>2, <1>5
  <1>19. RemoveAt(d, q, z, v, k, p, s, o, e, inner)
    BY <1>0, <1>1, <1>2, <1>6, <1>14, <1>15, <1>16, <1>17, <1>18 DEF RemoveAt
  <1> QED BY <1>0, <1>2, <1>6, <1>7, <1>14, <1>19 DEF X

\* The state of the loop: above e, if it is not the root, a black element is missing, and
\* only e may be red where no element should be.
Removing(c, r, w, u, h, p, s, e) ==
  /\ IsTree(c, r, u) /\ w \in [TreeElem -> {"red", "black"}] /\ e \in Link
  /\ e # r => p \in u[r] /\ s \in Sides /\ c[p][s] = e /\ Level(c, w, u[r], h, p, s)
  /\ e = r => Level(c, w, u[r], h, Null, "left")
  /\ \A a \in u[r] : \A x \in Sides : IsRed(w, a) /\ IsRed(w, c[a][x]) => a = e \/ c[a][x] = e
  /\ IsRed(w, r) => r = e

\* The other child and its children are black: it becomes red, and the element is missing
\* above p.
BlackSibling(c, r, w, u, h, p, s, o, e, b, z) ==
  /\ RemoveAt(c, r, w, u, h, p, s, o, e, b) /\ ~IsRed(w, b)
  /\ \A x \in Sides : ~IsRed(w, c[b][x])
  /\ z \in [TreeElem -> {"red", "black"}] /\ \A a \in TreeElem : z[a] = IF a = b THEN "red" ELSE w[a]

LEMMA RemoveBlackSibling ==
  ASSUME ElementsFit, NEW c, NEW r, NEW w, NEW u, NEW h, NEW p, NEW s, NEW o, NEW e, NEW b, NEW z,
         BlackSibling(c, r, w, u, h, p, s, o, e, b, z)
  PROVE  /\ p = r => \E k : Removing(c, r, z, u, k, Null, "left", p)
         /\ \A g \in u[r] : \A y \in Sides : c[g][y] = p => \E k : Removing(c, r, z, u, k, g, y, p)
  <1> DEFINE X == u[r]
             k == [h EXCEPT ![b] = h[e], ![p] = h[e] + Weight(w, p)]
  <1> HIDE DEF X, k
  <1>0. /\ RemoveAt(c, r, w, u, h, p, s, o, e, b) /\ ~IsRed(w, b)
        /\ \A x \in Sides : ~IsRed(w, c[b][x])
        /\ z \in [TreeElem -> {"red", "black"}] /\ \A a \in TreeElem : z[a] = IF a = b THEN "red" ELSE w[a]
    BY DEF BlackSibling
  <1>1. /\ IsTree(c, r, u) /\ w \in [TreeElem -> {"red", "black"}]
        /\ o = Other(s) /\ c[p][s] = e /\ c[p][o] = b
        /\ ~IsRed(w, e) /\ ~IsRed(w, r)
        /\ \A a \in X : \A x \in Sides : ~(IsRed(w, a) /\ IsRed(w, c[a][x]))
    BY <1>0 DEF RemoveAt, X
  <1>2. /\ X \subseteq TreeElem /\ Null \notin TreeElem /\ r \in TreeElem /\ p \in TreeElem /\ p \in X
        /\ b \in TreeElem /\ b \in X /\ b # p /\ b # r /\ b # e /\ e \in Link /\ e # p
        /\ s \in Sides /\ o \in Sides /\ o # s /\ \A x \in Sides : x = s \/ x = o
    BY <1>0, RemovePlace DEF X
  <1>3. /\ h \in [Link -> Nat] /\ h[Null] = 0 /\ h[p] \in Nat /\ h[e] \in Nat /\ h[b] \in Nat
        /\ h[p] = h[b] + Weight(w, p) /\ h[b] = h[e] + 1 /\ Weight(w, p) \in Nat
        /\ h[p] = h[e] + Weight(w, p) + 1
    BY <1>0, RemovePlace
  <1>4. \A a \in X : \A x \in Sides :
           /\ a \in TreeElem /\ a \in Link /\ c[a][x] \in Link /\ c[a][x] # a /\ h[a] \in Nat /\ h[c[a][x]] \in Nat
           /\ a # p \/ x # s => h[a] = h[c[a][x]] + Weight(w, a)
           /\ c[a][x] # Null => c[a][x] \in X /\ c[a][x] \in TreeElem
    BY <1>0, RemovePlace DEF X
  <1>5. /\ k \in [Link -> Nat] /\ k[Null] = 0 /\ k[b] = h[e] /\ k[p] = h[e] + Weight(w, p)
        /\ \A a \in Link : a # p /\ a # b => k[a] = h[a]
    BY <1>2, <1>3 DEF Link, k
  <1>6. ASSUME NEW a \in X, NEW x \in Sides
        PROVE  /\ Weight(z, a) \in Nat /\ k[c[a][x]] \in Nat /\ k[a] \in Nat
               /\ c[a][x] # p => k[a] = k[c[a][x]] + Weight(z, a)
               /\ c[a][x] = p => k[a] = k[c[a][x]] + Weight(z, a) + 1
    <2>0. Weight(z, a) \in Nat /\ Weight(w, a) \in Nat /\ a \in TreeElem /\ k[a] \in Nat /\ a \in Link
      BY <1>2, <1>5 DEF Weight, Link
    <2>1. c[a][x] \in Link /\ k[c[a][x]] \in Nat /\ h[c[a][x]] \in Nat /\ h[a] \in Nat
      BY <1>4, <1>5
    <2>2. CASE a = p
      <3>1. Weight(z, a) = Weight(w, p)  BY <1>0, <1>2, <2>2 DEF Weight
      <3>2. c[a][x] = e \/ c[a][x] = b  BY <1>1, <1>2, <2>2
      <3>3. k[c[a][x]] = h[e] /\ c[a][x] # p  BY <1>2, <1>5, <3>2
      <3> QED BY <1>5, <2>0, <2>1, <2>2, <3>1, <3>3
    <2>3. CASE a = b
      <3>1. Weight(w, a) = 1 /\ Weight(z, a) = 0
        BY <1>0, <1>1, <1>2, <2>0, <2>3 DEF IsRed, Weight
      <3>2. c[a][x] # b /\ c[a][x] # p
        <4>1. c[a][x] # b  BY <1>4, <2>3
        <4>2. c[a][x] # p
          <5>1. a \in u[p] /\ p \notin u[c[a][x]]
            <6>1. b \in u[p] /\ u[b] \subseteq u[p] /\ p \notin u[b]
              BY <1>1, <1>2, ChildSmaller DEF X
            <6>2. u[c[b][x]] \subseteq u[b]  BY <1>1, <1>2, ChildSmaller DEF X
            <6> QED BY <2>3, <6>1, <6>2
          <5>2. p \in u[p]  BY <1>1, <1>2 DEF IsTree, X
          <5> QED BY <5>1, <5>2
        <4> QED BY <4>1, <4>2
      <3>3. h[a] = h[c[a][x]] + 1  BY <1>2, <1>4, <2>3, <3>1
      <3>4. k[c[a][x]] = h[c[a][x]]  BY <1>5, <2>1, <3>2
      <3> QED BY <1>3, <1>5, <2>0, <2>1, <2>3, <3>1, <3>2, <3>3, <3>4
    <2>4. CASE a # p /\ a # b
      <3>1. Weight(z, a) = Weight(w, a)  BY <1>0, <2>0, <2>4 DEF Weight
      <3>2. h[a] = h[c[a][x]] + Weight(w, a) /\ k[a] = h[a]  BY <1>4, <1>5, <2>0, <2>4
      <3>3. c[a][x] # b  BY <1>1, <1>2, <2>4, OneParent DEF X
      <3>4. CASE c[a][x] = p
        <4>1. k[a] = k[c[a][x]] + 1 + Weight(w, a)  BY <1>3, <1>5, <2>0, <3>2, <3>4
        <4> QED BY <2>0, <2>1, <3>1, <3>4, <4>1
      <3>5. CASE c[a][x] # p
        <4>1. k[c[a][x]] = h[c[a][x]]  BY <1>5, <2>1, <3>3, <3>5
        <4> QED BY <2>0, <2>1, <3>1, <3>2, <3>5, <4>1
      <3> QED BY <3>4, <3>5
    <2> QED BY <2>2, <2>3, <2>4
  <1>7. ASSUME NEW a \in X, NEW x \in Sides, IsRed(z, a), IsRed(z, c[a][x])
        PROVE  a = p
    <2>1. a \in TreeElem /\ c[a][x] \in TreeElem  BY <1>4, <1>7 DEF IsRed
    <2>2. a # b
      <3>1. IsRed(z, c[b][x]) => IsRed(w, c[b][x]) \/ c[b][x] = b
        BY <1>0, <1>2, <1>4 DEF IsRed
      <3> QED BY <1>0, <1>2, <1>4, <1>7, <3>1
    <2>3. IsRed(w, a)  BY <1>0, <1>7, <2>1, <2>2 DEF IsRed
    <2>4. c[a][x] = b  BY <1>0, <1>1, <1>7, <2>1, <2>3 DEF IsRed
    <2> QED BY <1>1, <1>2, <2>4, OneParent DEF X
  <1>8. ~IsRed(z, r)  BY <1>0, <1>1, <1>2 DEF IsRed
  <1>9. p \in Link  BY <1>2 DEF Link
  <1>10. ASSUME p = r PROVE Removing(c, r, z, u, k, Null, "left", p)
    <2>1. ASSUME NEW a \in X, NEW x \in Sides
          PROVE  k[a] = k[c[a][x]] + Weight(z, a) + Lack(a, x, Null, "left")
      <3>1. c[a][x] # p  BY <1>1, <1>2, <1>10, OneParent DEF X
      <3>2. a # Null  BY <1>2
      <3>3. Lack(a, x, Null, "left") = 0  BY <3>2 DEF Lack
      <3> QED BY <1>6, <3>1, <3>3
    <2>2. Level(c, z, X, k, Null, "left")  BY <1>5, <2>1 DEF Level
    <2> QED BY <1>0, <1>1, <1>7, <1>8, <1>9, <1>10, <2>2 DEF Removing, X
  <1>11. ASSUME NEW g \in X, NEW y \in Sides, c[g][y] = p PROVE Removing(c, r, z, u, k, g, y, p)
    <2>1. ASSUME NEW a \in X, NEW x \in Sides
          PROVE  k[a] = k[c[a][x]] + Weight(z, a) + Lack(a, x, g, y)
      <3>1. c[a][x] = p <=> a = g /\ x = y
        BY <1>1, <1>2, <1>11, OneParent DEF X
      <3>2. Lack(a, x, g, y) = IF c[a][x] = p THEN 1 ELSE 0  BY <3>1 DEF Lack
      <3> QED BY <1>6, <3>2
    <2>2. Level(c, z, X, k, g, y)  BY <1>5, <2>1 DEF Level
    <2>3. p # r  BY <1>1, <1>2, <1>11, OneParent DEF X
    <2> QED BY <1>0, <1>1, <1>7, <1>8, <1>9, <1>11, <2>2, <2>3 DEF Removing, X
  <1> QED BY <1>10, <1>11 DEF X

\* The other child b has only one red child i, the inner one: i takes the place of b.
InnerRed(c, r, w, u, h, p, s, o, e, b, i, outer, m, n, z, d, q, v) ==
  /\ RemoveAt(c, r, w, u, h, p, s, o, e, b) /\ ~IsRed(w, b) /\ IsRed(w, i) /\ ~IsRed(w, outer)
  /\ z \in [TreeElem -> {"red", "black"}]
  /\ \A a \in TreeElem : z[a] = IF a = b THEN "red" ELSE IF a = i THEN "black" ELSE w[a]
  /\ Turned(c, r, u, b, o, s, i, outer, n, m, d, q, v)

LEMMA RemoveInnerRed ==
  ASSUME ElementsFit, NEW c, NEW r, NEW w, NEW u, NEW h, NEW p, NEW s, NEW o, NEW e, NEW b,
         NEW i, NEW outer, NEW m, NEW n, NEW z, NEW d, NEW q, NEW v,
         InnerRed(c, r, w, u, h, p, s, o, e, b, i, outer, m, n, z, d, q, v)
  PROVE  /\ \E k : RemoveAt(d, q, z, v, k, p, s, o, e, i)
         /\ ~IsRed(z, i) /\ d[i][o] = b /\ IsRed(z, b) /\ v[q] = u[r]
  <1> DEFINE X == u[r]
             k == [h EXCEPT ![i] = h[b], ![b] = h[i]]
  <1> HIDE DEF X, k
  <1>0. /\ RemoveAt(c, r, w, u, h, p, s, o, e, b) /\ ~IsRed(w, b) /\ IsRed(w, i) /\ ~IsRed(w, outer)
        /\ z \in [TreeElem -> {"red", "black"}]
        /\ \A a \in TreeElem : z[a] = IF a = b THEN "red" ELSE IF a = i THEN "black" ELSE w[a]
        /\ Turned(c, r, u, b, o, s, i, outer, n, m, d, q, v)
    BY DEF InnerRed
  <1>1. /\ IsTree(c, r, u) /\ w \in [TreeElem -> {"red", "black"}]
        /\ o = Other(s) /\ c[p][s] = e /\ c[p][o] = b
        /\ ~IsRed(w, e) /\ ~IsRed(w, r)
        /\ \A a \in X : \A x \in Sides : ~(IsRed(w, a) /\ IsRed(w, c[a][x]))
    BY <1>0 DEF RemoveAt, X
  <1>2. /\ X \subseteq TreeElem /\ Null \notin TreeElem /\ r \in TreeElem /\ p \in TreeElem /\ p \in X
        /\ b \in TreeElem /\ b \in X /\ b # p /\ b # r /\ b # e /\ e \in Link /\ e # p
        /\ s \in Sides /\ o \in Sides /\ o # s /\ \A x \in Sides : x = s \/ x = o
    BY <1>0, RemovePlace DEF X
  <1>3. /\ h \in [Link -> Nat] /\ h[Null] = 0 /\ h[p] \in Nat /\ h[e] \in Nat /\ h[b] \in Nat
        /\ h[p] = h[b] + Weight(w, p) /\ h[b] = h[e] + 1 /\ Weight(w, p) \in Nat
        /\ h[p] = h[e] + Weight(w, p) + 1
    BY <1>0, RemovePlace
  <1>4. \A a \in X : \A x \in Sides :
           /\ a \in TreeElem /\ a \in Link /\ c[a][x] \in Link /\ c[a][x] # a /\ h[a] \in Nat /\ h[c[a][x]] \in Nat
           /\ a # p \/ x # s => h[a] = h[c[a][x]] + Weight(w, a)
           /\ c[a][x] # Null => c[a][x] \in X /\ c[a][x] \in TreeElem
    BY <1>0, RemovePlace DEF X
  <1>5. /\ Place(c, r, u, b, o, s, i, outer, n, m) /\ q = r
        /\ \A x \in Sides : d[b][x] = IF x = s THEN n ELSE outer
        /\ \A x \in Sides : d[i][x] = IF x = o THEN b ELSE m
        /\ \A a \in X : a # b /\ a # i =>
             \A x \in Sides : d[a][x] = IF c[a][x] = b THEN i ELSE c[a][x]
    BY <1>0, <1>2 DEF Turned, X
  <1>6. IsTree(d, q, v) /\ v[q] = X
    BY <1>0, Turn DEF X
  <1>7. /\ m \in Link /\ n \in Link /\ outer \in Link /\ i \in TreeElem /\ i \in X /\ i # b /\ i # r
        /\ m # i /\ m # b /\ n # i /\ n # b /\ outer # i /\ outer # b
    BY <1>5, TurnParts DEF X
  <1>8. c[b][s] = i /\ c[b][o] = outer /\ c[i][o] = n /\ c[i][s] = m
    BY <1>5 DEF Place
  <1>9. i # p
    <2>1. b \in u[p] /\ u[b] \subseteq u[p] /\ p \notin u[b]
      BY <1>1, <1>2, ChildSmaller DEF X
    <2>2. i \in u[b]  BY <1>1, <1>2, <1>7, <1>8, ChildSmaller DEF X
    <2> QED BY <2>1, <2>2
  <1>10. Weight(w, b) = 1 /\ Weight(w, i) = 0 /\ i # e
    BY <1>0, <1>1, <1>2, <1>7 DEF IsRed, Weight
  <1>11. ~IsRed(w, m) /\ ~IsRed(w, n)
    BY <1>0, <1>1, <1>2, <1>7, <1>8
  <1>12. h[b] = h[i] + 1 /\ h[i] = h[outer] /\ h[i] = h[m] /\ h[i] = h[n] /\ h[i] \in Nat
    <2>1. h[i] = h[n] + 0 /\ h[i] = h[m] + 0 /\ h[b] = h[i] + 1 /\ h[b] = h[outer] + 1
      BY <1>2, <1>4, <1>7, <1>8, <1>9, <1>10
    <2>2. h[i] \in Nat /\ h[n] \in Nat /\ h[m] \in Nat /\ h[outer] \in Nat  BY <1>3, <1>7 DEF Link
    <2> QED BY <2>1, <2>2
  <1>13. /\ k \in [Link -> Nat] /\ k[Null] = 0 /\ k[i] = h[b] /\ k[b] = h[i]
         /\ \A a \in Link : a # i /\ a # b => k[a] = h[a]
    BY <1>2, <1>3, <1>7, <1>12 DEF Link, k
  <1>14. k[m] = h[m] /\ k[n] = h[n] /\ k[outer] = h[outer] /\ k[e] = h[e]
    BY <1>2, <1>7, <1>10, <1>13
  <1>15. ~IsRed(z, n) /\ ~IsRed(z, outer) /\ ~IsRed(z, e) /\ ~IsRed(z, i) /\ IsRed(z, b)
    BY <1>0, <1>1, <1>2, <1>7, <1>11 DEF IsRed, Link
  <1>16. ASSUME NEW a \in X, NEW x \in Sides
         PROVE  /\ k[a] = k[d[a][x]] + Weight(z, a) + Lack(a, x, p, s)
                /\ ~(IsRed(z, a) /\ IsRed(z, d[a][x]))
    <2>0. Weight(z, a) \in Nat /\ a \in TreeElem /\ k[a] \in Nat
      BY <1>2, <1>13 DEF Weight, Link
    <2>1. CASE a = b
      <3>1. d[a][x] = n \/ d[a][x] = outer  BY <1>5, <2>1
      <3>2. k[a] = k[d[a][x]] /\ ~IsRed(z, d[a][x])
        BY <1>12, <1>13, <1>14, <1>15, <2>1, <3>1
      <3>3. Weight(z, a) = 0 /\ Lack(a, x, p, s) = 0
        BY <1>0, <1>2, <2>0, <2>1 DEF Weight, Lack
      <3> QED BY <2>0, <3>2, <3>3
    <2>2. CASE a = i
      <3>1. d[a][x] = b \/ d[a][x] = m  BY <1>5, <2>2
      <3>2. k[a] = k[d[a][x]] + 1  BY <1>12, <1>13, <1>14, <2>2, <3>1
      <3>3. Weight(z, a) = 1 /\ Lack(a, x, p, s) = 0
        BY <1>0, <1>7, <1>9, <2>0, <2>2 DEF Weight, Lack
      <3>4. k[d[a][x]] \in Nat  BY <1>2, <1>7, <1>13, <3>1 DEF Link
      <3> QED BY <1>15, <2>2, <3>2, <3>3, <3>4
    <2>3. CASE a # b /\ a # i
      <3>1. d[a][x] = IF c[a][x] = b THEN i ELSE c[a][x]  BY <1>5, <2>3
      <3>2. c[a][x] \in Link /\ a \in Link /\ h[c[a][x]] \in Nat
        BY <1>4
      <3>3. c[a][x] # i  BY <1>1, <1>2, <1>7, <1>8, <2>3, OneParent DEF X
      <3>4. k[d[a][x]] = h[c[a][x]] /\ k[a] = h[a]  BY <1>13, <2>3, <3>1, <3>2, <3>3
      <3>5. Weight(z, a) = Weight(w, a) /\ z[a] = w[a]  BY <1>0, <2>0, <2>3 DEF Weight
      <3>6. IsRed(z, a) => ~IsRed(z, d[a][x])
        <4>1. CASE c[a][x] = b  BY <1>15, <3>1, <4>1
        <4>2. CASE c[a][x] # b
          <5>1. IsRed(w, a) => ~IsRed(w, c[a][x])  BY <1>1
          <5> QED BY <1>0, <3>1, <3>2, <3>3, <3>5, <4>2, <5>1 DEF IsRed, Link
        <4> QED BY <4>1, <4>2
      <3>7. CASE a = p /\ x = s
        <4>1. Lack(a, x, p, s) = 1  BY <3>7 DEF Lack
        <4>2. h[a] = h[c[a][x]] + Weight(w, a) + 1  BY <1>1, <1>3, <3>7
        <4> QED BY <3>4, <3>5, <3>6, <4>1, <4>2
      <3>8. CASE a # p \/ x # s
        <4>1. Lack(a, x, p, s) = 0  BY <3>8 DEF Lack
        <4>2. h[a] = h[c[a][x]] + Weight(w, a)  BY <1>4, <3>8
        <4>3. k[a] = k[d[a][x]] + Weight(z, a)  BY <3>4, <3>5, <4>2
        <4> QED BY <2>0, <3>2, <3>4, <3>6, <4>1, <4>3
      <3> QED BY <3>7, <3>8
    <2> QED BY <2>1, <2>2, <2>3
  <1>17. Level(d, z, v[q], k, p, s)
    BY <1>6, <1>13, <1>16 DEF Level
  <1>18. ~IsRed(z, q)  BY <1>0, <1>1, <1>2, <1>5, <1>7 DEF IsRed
  <1>19. d[p][s] = e /\ d[p][o] = i /\ d[i][o] = b
    BY <1>1, <1>2, <1>5, <1>9
  <1>20. RemoveAt(d, q, z, v, k, p, s, o, e, i)
    BY <1>0, <1>1, <1>2, <1>6, <1>15, <1>16, <1>17, <1>18, <1>19 DEF RemoveAt
  <1> QED BY <1>6, <1>15, <1>19, <1>20 DEF X

\* The outer child of b is red: b takes the place of p and its colour, and nothing is missing.
OuterRed(c, r, w, u, h, p, s, o, e, b, inner, outer, z, d, q, v) ==
  /\ RemoveAt(c, r, w, u, h, p, s, o, e, b) /\ ~IsRed(w, b) /\ IsRed(w, outer)
  /\ z \in [TreeElem -> {"red", "black"}]
  /\ \A a \in TreeElem : z[a] = IF a = outer \/ a = p THEN "black" ELSE IF a = b THEN w[p] ELSE w[a]
  /\ Turned(c, r, u, p, s, o, b, e, inner, outer, d, q, v)

LEMMA RemoveOuterRed ==
  ASSUME ElementsFit, NEW c, NEW r, NEW w, NEW u, NEW h, NEW p, NEW s, NEW o, NEW e, NEW b,
         NEW inner, NEW outer, NEW z, NEW d, NEW q, NEW v,
         OuterRed(c, r, w, u, h, p, s, o, e, b, inner, outer, z, d, q, v)
  PROVE  \E k : Even(d, q, z, v, k)
  <1> DEFINE X == u[r]
             k == [h EXCEPT ![b] = h[p], ![p] = h[b], ![outer] = h[b]]
  <1> HIDE DEF X, k
  <1>0. /\ RemoveAt(c, r, w, u, h, p, s, o, e, b) /\ ~IsRed(w, b) /\ IsRed(w, outer)
        /\ z \in [TreeElem -> {"red", "black"}]
        /\ \A a \in TreeElem : z[a] = IF a = outer \/ a = p THEN "black" ELSE IF a = b THEN w[p] ELSE w[a]
        /\ Turned(c, r, u, p, s, o, b, e, inner, outer, d, q, v)
    BY DEF OuterRed
  <1>1. /\ IsTree(c, r, u) /\ w \in [TreeElem -> {"red", "black"}]
        /\ o = Other(s) /\ c[p][s] = e /\ c[p][o] = b
        /\ ~IsRed(w, e) /\ ~IsRed(w, r)
        /\ \A a \in X : \A x \in Sides : ~(IsRed(w, a) /\ IsRed(w, c[a][x]))
    BY <1>0 DEF RemoveAt, X
  <1>2. /\ X \subseteq TreeElem /\ Null \notin TreeElem /\ r \in TreeElem /\ p \in TreeElem /\ p \in X
        /\ b \in TreeElem /\ b \in X /\ b # p /\ b # r /\ b # e /\ e \in Link /\ e # p
        /\ s \in Sides /\ o \in Sides /\ o # s /\ \A x \in Sides : x = s \/ x = o
    BY <1>0, RemovePlace DEF X
  <1>3. /\ h \in [Link -> Nat] /\ h[Null] = 0 /\ h[p] \in Nat /\ h[e] \in Nat /\ h[b] \in Nat
        /\ h[p] = h[b] + Weight(w, p) /\ h[b] = h[e] + 1 /\ Weight(w, p) \in Nat
    BY <1>0, RemovePlace
  <1>4. \A a \in X : \A x \in Sides :
           /\ a \in TreeElem /\ a \in Link /\ c[a][x] \in Link /\ c[a][x] # a /\ h[a] \in Nat /\ h[c[a][x]] \in Nat
           /\ a # p \/ x # s => h[a] = h[c[a][x]] + Weight(w, a)
           /\ c[a][x] # Null => c[a][x] \in X /\ c[a][x] \in TreeElem
    BY <1>0, RemovePlace DEF X
  <1>5. /\ Place(c, r, u, p, s, o, b, e, inner, outer) /\ q = (IF p = r THEN b ELSE r)
        /\ \A x \in Sides : d[p][x] = IF x = o THEN inner ELSE e
        /\ \A x \in Sides : d[b][x] = IF x = s THEN p ELSE outer
        /\ \A a \in X : a # p /\ a # b =>
             \A x \in Sides : d[a][x] = IF c[a][x] = p THEN b ELSE c[a][x]
    BY <1>0 DEF Turned, X
  <1>6. IsTree(d, q, v) /\ v[q] = X
    BY <1>0, Turn DEF X
  <1>7. /\ inner \in Link /\ outer \in Link /\ inner # p /\ inner # b /\ outer # p /\ outer # b
        /\ outer # Null /\ inner # outer /\ outer \in TreeElem /\ outer \in X /\ outer # r /\ outer # e
    <2>1. /\ inner \in Link /\ outer \in Link /\ inner # p /\ inner # b /\ outer # p /\ outer # b
          /\ (outer # Null => outer \in X /\ outer # r /\ (inner # Null => inner # outer))
      BY <1>5, TurnParts DEF X
    <2>2. outer # Null /\ outer # e  BY <1>0, <1>1 DEF IsRed
    <2> QED BY <1>2, <2>1, <2>2
  <1>8. c[b][s] = inner /\ c[b][o] = outer
    BY <1>5 DEF Place
  <1>9. Weight(w, b) = 1 /\ Weight(w, outer) = 0
    BY <1>0, <1>1, <1>2, <1>7 DEF IsRed, Weight
  <1>10. h[b] = h[inner] + 1 /\ h[b] = h[outer] + 1 /\ h[inner] \in Nat /\ h[outer] \in Nat
    BY <1>2, <1>3, <1>4, <1>7, <1>8, <1>9
  <1>11. /\ k \in [Link -> Nat] /\ k[Null] = 0 /\ k[b] = h[p] /\ k[p] = h[b] /\ k[outer] = h[b]
         /\ \A a \in Link : a # p /\ a # b /\ a # outer => k[a] = h[a]
    BY <1>2, <1>3, <1>7 DEF Link, k
  <1>12. k[inner] = h[inner] /\ k[e] = h[e]
    BY <1>2, <1>7, <1>11
  <1>13. z[p] = "black" /\ z[outer] = "black" /\ z[b] = w[p] /\ Weight(z, b) = Weight(w, p)
         /\ Weight(z, p) = 1 /\ Weight(z, outer) = 1
    BY <1>0, <1>2, <1>7 DEF Weight
  <1>14. ASSUME NEW a \in X, NEW x \in Sides
         PROVE  /\ k[a] = k[d[a][x]] + Weight(z, a) + Lack(a, x, Null, "left")
                /\ ~(IsRed(z, a) /\ IsRed(z, d[a][x]))
    <2>0. Weight(z, a) \in Nat /\ a \in TreeElem /\ a \in Link /\ k[a] \in Nat /\ Lack(a, x, Null, "left") = 0
      BY <1>2, <1>11 DEF Weight, Link, Lack
    <2>1. CASE a = p
      <3>1. d[a][x] = inner \/ d[a][x] = e  BY <1>5, <2>1
      <3>2. k[a] = k[d[a][x]] + 1  BY <1>3, <1>10, <1>11, <1>12, <2>1, <3>1
      <3>3. ~IsRed(z, a)  BY <1>13, <2>1 DEF IsRed
      <3>4. k[d[a][x]] \in Nat  BY <1>2, <1>7, <1>11, <3>1
      <3> QED BY <1>13, <2>0, <2>1, <3>2, <3>3, <3>4
    <2>2. CASE a = b
      <3>1. d[a][x] = p \/ d[a][x] = outer  BY <1>5, <2>2
      <3>2. k[a] = k[d[a][x]] + Weight(z, a)  BY <1>3, <1>11, <1>13, <2>2, <3>1
      <3>3. ~IsRed(z, d[a][x])  BY <1>13, <3>1 DEF IsRed
      <3>4. k[d[a][x]] \in Nat  BY <1>2, <1>3, <1>11, <3>1
      <3> QED BY <2>0, <3>2, <3>3, <3>4
    <2>3. CASE a # p /\ a # b
      <3>1. d[a][x] = IF c[a][x] = p THEN b ELSE c[a][x]  BY <1>5, <2>3
      <3>2. h[a] = h[c[a][x]] + Weight(w, a) /\ c[a][x] \in Link /\ h[c[a][x]] \in Nat
        BY <1>4, <2>3
      <3>3. c[a][x] # b /\ c[a][x] # outer
        BY <1>1, <1>2, <1>7, <1>8, <2>3, OneParent DEF X
      <3>4. k[d[a][x]] = h[c[a][x]] /\ k[d[a][x]] \in Nat  BY <1>11, <3>1, <3>2, <3>3
      <3>5. CASE a = outer
        <4>1. ~IsRed(z, a)  BY <1>13, <3>5 DEF IsRed
        <4>2. h[outer] = h[c[a][x]]  BY <1>9, <3>2, <3>5
        <4> QED BY <1>10, <1>11, <1>13, <2>0, <3>4, <3>5, <4>1, <4>2
      <3>6. CASE a # outer
        <4>1. z[a] = w[a] /\ Weight(z, a) = Weight(w, a) /\ k[a] = h[a]
          BY <1>0, <1>11, <2>0, <2>3, <3>6 DEF Weight
        <4>2. IsRed(z, a) => ~IsRed(z, d[a][x])
          <5>1. IsRed(w, a) => ~IsRed(w, c[a][x])  BY <1>1
          <5>2. CASE c[a][x] = p
            <6>1. IsRed(z, b) => IsRed(w, p)  BY <1>2, <1>13 DEF IsRed
            <6>2. IsRed(z, a) => IsRed(w, a)  BY <4>1 DEF IsRed
            <6> QED BY <3>1, <5>1, <5>2, <6>1, <6>2
          <5>3. CASE c[a][x] # p
            BY <1>0, <3>1, <3>2, <3>3, <4>1, <5>1, <5>3 DEF IsRed, Link
          <5> QED BY <5>2, <5>3
        <4>3. k[a] = k[d[a][x]] + Weight(z, a)  BY <3>2, <3>4, <4>1
        <4> QED BY <2>0, <3>4, <4>2, <4>3
      <3> QED BY <3>5, <3>6
    <2> QED BY <2>1, <2>2, <2>3
  <1>15. Level(d, z, v[q], k, Null, "left")
    BY <1>6, <1>11, <1>14 DEF Level
  <1>16. ~IsRed(z, q)
    BY <1>0, <1>1, <1>2, <1>5, <1>7, <1>13 DEF IsRed
  <1> QED BY <1>0, <1>6, <1>14, <1>15, <1>16 DEF Even

\* A tree in a round of the loop, and the steps of the round.
RoundAt(t, u, h, p, s, o, e, b) ==
  Shape(t, u) /\ RemoveAt(t.child, t.root, t.color, u, h, p, s, o, e, b)

StartStep(t, p, s, b) == IF Red(t, b) THEN Rotate(BlackRed(t, b, p), p, s) ELSE t

InnerStep(t, s, o, b) ==
  IF Red(t, t.child[b][o]) THEN t ELSE Rotate(BlackRed(t, t.child[b][s], b), b, o)

OuterStep(t, p, s, o, b) ==
  LET n == Paint(Paint(t, b, t.color[p]), p, "black")
  IN  Rotate(Paint(n, n.child[b][o], "black"), p, s)

\* The first step of a round: from now on, the other child is black.
LEMMA RoundStart ==
  ASSUME ElementsFit, NEW t, NEW u, NEW h, NEW p, NEW s, NEW o, NEW e, NEW b,
         RoundAt(t, u, h, p, s, o, e, b),
         NEW r, r = StartStep(t, p, s, b)
  PROVE  \E v, k, n : /\ RoundAt(r, v, k, p, s, o, e, n)
                      /\ ~IsRed(r.color, n) /\ v[r.root] = u[t.root]
                      /\ u[e] \subseteq v[p] /\ p \notin u[e]
  <1> DEFINE c == t.child
             w == t.color
             q == t.root
  <1>1. RemoveAt(c, q, w, u, h, p, s, o, e, b)  BY DEF RoundAt
  <1>2. Red(t, b) <=> IsRed(w, b)  BY DEF Red, IsRed
  <1> HIDE DEF c, w, q
  <1>3. /\ Null \notin TreeElem /\ p \in TreeElem /\ p \in u[q] /\ b \in TreeElem /\ b # p /\ e \in Link
        /\ s \in Sides /\ IsTree(c, q, u) /\ c[p][s] = e /\ c[p][o] = b /\ o = Other(s)
    <2>1. s \in Sides /\ IsTree(c, q, u) /\ c[p][s] = e /\ c[p][o] = b /\ o = Other(s)
      BY <1>1 DEF RemoveAt
    <2> QED BY <1>1, <2>1, RemovePlace
  <1>4. CASE ~Red(t, b)
    <2>1. r = t  BY <1>4 DEF StartStep
    <2>2. u[e] \subseteq u[p] /\ p \notin u[e]  BY <1>3, ChildSmaller
    <2> QED BY <1>2, <1>4, <2>1, <2>2 DEF c, w, q, RoundAt
  <1>5. CASE Red(t, b)
    <2> DEFINE t1 == BlackRed(t, b, p)
               inner == c[b][s]
               outer == c[b][o]
    <2>1. r = Rotate(t1, p, s)  BY <1>5 DEF StartStep
    <2>2. /\ Shape(t1, u) /\ t1 \in Tree /\ t1.root = q /\ t1.child = c
          /\ \A a \in TreeElem : t1.color[a] = IF a = p THEN "red" ELSE IF a = b THEN "black" ELSE w[a]
      BY <1>3, BlackRedIs DEF c, w, q, RoundAt
    <2> HIDE DEF t1, inner, outer
    <2>3. Place(c, q, u, p, s, o, b, e, inner, outer)
      <3>1. b # Null  BY <1>3
      <3> QED BY <1>3, <3>1 DEF Place, inner, outer
    <2>4. RotatedAt(t1, u, p, s, o, b, e, inner, outer, r)
      BY <2>1, <2>2, <2>3 DEF RotatedAt
    <2>5. PICK v : /\ Turned(t1.child, t1.root, u, p, s, o, b, e, inner, outer, r.child, r.root, v)
                   /\ Shape(r, v) /\ v[r.root] = u[t1.root] /\ r.color = t1.color
      BY <2>4, RotateTurned
    <2>6. t1.color \in [TreeElem -> {"red", "black"}]  BY <2>2 DEF Tree
    <2>7. RedSibling(c, q, w, u, h, p, s, o, e, b, inner, outer, t1.color, r.child, r.root, v)
      BY <1>1, <1>2, <1>5, <2>2, <2>5, <2>6 DEF RedSibling
    <2>8. /\ \E k : RemoveAt(r.child, r.root, t1.color, v, k, p, s, o, e, inner)
          /\ ~IsRed(t1.color, inner) /\ u[e] \subseteq v[p] /\ p \notin u[e]
      BY <2>7, RemoveRedSibling
    <2> QED BY <2>2, <2>5, <2>8 DEF q, RoundAt
  <1> QED BY <1>4, <1>5

\* The second case: the missing element moves up.
LEMMA RoundBlack ==
  ASSUME ElementsFit, NEW t, NEW u, NEW h, NEW p, NEW s, NEW o, NEW e, NEW b,
         RoundAt(t, u, h, p, s, o, e, b),
         ~IsRed(t.color, b), \A x \in Sides : ~IsRed(t.color, t.child[b][x]),
         NEW r, r = Paint(t, b, "red")
  PROVE  /\ Shape(r, u) /\ r \in Tree /\ t.parent[p] \in Link /\ p \in Link /\ r.root = t.root
         /\ \E k, y : Removing(r.child, r.root, r.color, u, k, t.parent[p], y, p)
  <1> DEFINE c == t.child
             w == t.color
             q == t.root
  <1>1. /\ RemoveAt(c, q, w, u, h, p, s, o, e, b) /\ ~IsRed(w, b)
        /\ \A x \in Sides : ~IsRed(w, c[b][x])
    BY DEF RoundAt
  <1> HIDE DEF c, w, q
  <1>2. Null \notin TreeElem /\ p \in TreeElem /\ p \in u[q] /\ b \in TreeElem /\ b \in Link /\ p \in Link
    BY <1>1, RemovePlace DEF Link
  <1>3. t \in Tree /\ Shape(t, u)  BY DEF RoundAt, Shape
  <1>4. /\ r \in Tree /\ r.root = q /\ r.child = c /\ Shape(r, u)
        /\ \A a \in TreeElem : r.color[a] = IF a = b THEN "red" ELSE w[a]
    <2>1. Recoloured(t, u, b, "red", r)  BY <1>2, <1>3 DEF Recoloured
    <2> QED BY <1>2, <2>1, Painted DEF c, w, q
  <1>5. r.color \in [TreeElem -> {"red", "black"}]  BY <1>4 DEF Tree
  <1>6. BlackSibling(c, q, w, u, h, p, s, o, e, b, r.color)
    BY <1>1, <1>4, <1>5 DEF BlackSibling
  <1>7. /\ p = q => \E k : Removing(c, q, r.color, u, k, Null, "left", p)
        /\ \A g \in u[q] : \A y \in Sides : c[g][y] = p => \E k : Removing(c, q, r.color, u, k, g, y, p)
    BY <1>6, RemoveBlackSibling
  <1>8. t.parent[p] \in Link  BY <1>2, <1>3, TreeFields
  <1>9. \E k, y : Removing(c, q, r.color, u, k, t.parent[p], y, p)
    <2>1. CASE p = q
      <3>1. t.parent[p] = Null  BY <1>2, <1>3, <2>1, ParentIs DEF q
      <3> QED BY <1>7, <2>1, <3>1
    <2>2. CASE p # q
      <3>1. /\ t.parent[p] \in u[q] /\ SideOf(t, p, t.parent[p]) \in Sides
            /\ c[t.parent[p]][SideOf(t, p, t.parent[p])] = p
        BY <1>2, <1>3, <2>2, ParentIs DEF c, q
      <3> QED BY <1>7, <3>1
    <2> QED BY <2>1, <2>2
  <1> QED BY <1>2, <1>4, <1>8, <1>9 DEF q

\* The third case, its first step: from now on, the outer child is red.
LEMMA RoundInner ==
  ASSUME ElementsFit, NEW t, NEW u, NEW h, NEW p, NEW s, NEW o, NEW e, NEW b,
         RoundAt(t, u, h, p, s, o, e, b),
         ~IsRed(t.color, b), ~(\A x \in Sides : ~IsRed(t.color, t.child[b][x])),
         NEW r, r = InnerStep(t, s, o, b)
  PROVE  \E v, k, n : /\ RoundAt(r, v, k, p, s, o, e, n)
                      /\ ~IsRed(r.color, n) /\ IsRed(r.color, r.child[n][o]) /\ v[r.root] = u[t.root]
  <1> DEFINE c == t.child
             w == t.color
             q == t.root
             i == c[b][s]
             outer == c[b][o]
             n == c[i][o]
             m == c[i][s]
             t1 == BlackRed(t, i, b)
  <1>1. /\ RemoveAt(c, q, w, u, h, p, s, o, e, b) /\ ~IsRed(w, b)
        /\ ~(\A x \in Sides : ~IsRed(w, c[b][x]))
    BY DEF RoundAt
  <1>2. Red(t, outer) <=> IsRed(w, outer)  BY DEF Red, IsRed
  <1>3. r = IF Red(t, outer) THEN t ELSE Rotate(t1, b, o)  BY DEF InnerStep
  <1> HIDE DEF c, w, q, i, outer, n, m, t1
  <1>4. /\ Null \notin TreeElem /\ p \in TreeElem /\ p \in u[q] /\ b \in TreeElem /\ b \in u[q]
        /\ s \in Sides /\ o \in Sides /\ o = Other(s) /\ Other(o) = s /\ \A x \in Sides : x = s \/ x = o
        /\ IsTree(c, q, u)
    <2>1. o = Other(s) /\ IsTree(c, q, u)  BY <1>1 DEF RemoveAt
    <2> QED BY <1>1, <2>1, RemovePlace
  <1>5. CASE Red(t, outer)
    <2>1. r = t /\ IsRed(w, c[b][o])  BY <1>2, <1>3, <1>5 DEF outer
    <2> QED BY <1>1, <2>1 DEF c, w, q, RoundAt
  <1>6. CASE ~Red(t, outer)
    <2>1. ~IsRed(w, outer)  BY <1>2, <1>6
    <2>2. IsRed(w, i)  BY <1>1, <1>4, <2>1 DEF i, outer
    <2>3. i \in TreeElem
      <3>1. i \in Link /\ i # Null  BY <1>4, <2>2, ChildSmaller DEF i, IsRed
      <3> QED BY <3>1 DEF Link
    <2>4. /\ Shape(t1, u) /\ t1 \in Tree /\ t1.root = q /\ t1.child = c
          /\ \A a \in TreeElem : t1.color[a] = IF a = b THEN "red" ELSE IF a = i THEN "black" ELSE w[a]
      BY <1>4, <2>3, BlackRedIs DEF c, w, q, t1, RoundAt
    <2>5. Place(c, q, u, b, o, s, i, outer, n, m)
      <3>1. i # Null  BY <2>2 DEF IsRed
      <3> QED BY <1>4, <3>1 DEF Place, i, outer, n, m
    <2>6. RotatedAt(t1, u, b, o, s, i, outer, n, m, r)
      BY <1>3, <1>6, <2>4, <2>5 DEF RotatedAt
    <2>7. PICK v : /\ Turned(t1.child, t1.root, u, b, o, s, i, outer, n, m, r.child, r.root, v)
                   /\ Shape(r, v) /\ v[r.root] = u[t1.root] /\ r.color = t1.color
      BY <2>6, RotateTurned
    <2>8. t1.color \in [TreeElem -> {"red", "black"}]  BY <2>4 DEF Tree
    <2>9. InnerRed(c, q, w, u, h, p, s, o, e, b, i, outer, m, n, t1.color, r.child, r.root, v)
      BY <1>1, <2>1, <2>2, <2>4, <2>7, <2>8 DEF InnerRed
    <2>10. /\ \E k : RemoveAt(r.child, r.root, t1.color, v, k, p, s, o, e, i)
           /\ ~IsRed(t1.color, i) /\ r.child[i][o] = b /\ IsRed(t1.color, b)
      BY <2>9, RemoveInnerRed
    <2> QED BY <2>4, <2>7, <2>10 DEF q, RoundAt
  <1> QED BY <1>5, <1>6

\* The third case, its second step.
LEMMA RoundOuter ==
  ASSUME ElementsFit, NEW t, NEW u, NEW h, NEW p, NEW s, NEW o, NEW e, NEW b,
         RoundAt(t, u, h, p, s, o, e, b),
         ~IsRed(t.color, b), IsRed(t.color, t.child[b][o]),
         NEW r, r = OuterStep(t, p, s, o, b)
  PROVE  \E v, k : /\ Shape(r, v) /\ r \in Tree /\ Even(r.child, r.root, r.color, v, k)
                   /\ v[r.root] = u[t.root] /\ p \in Link
  <1> DEFINE c == t.child
             w == t.color
             q == t.root
             inner == c[b][s]
             outer == c[b][o]
             t1 == Paint(t, b, w[p])
             n == Paint(t1, p, "black")
             t2 == Paint(n, outer, "black")
  <1>1. RemoveAt(c, q, w, u, h, p, s, o, e, b) /\ ~IsRed(w, b) /\ IsRed(w, outer)
    BY DEF RoundAt
  <1>2. n = Paint(t1, p, "black") /\ r = Rotate(Paint(n, n.child[b][o], "black"), p, s)
    BY DEF OuterStep
  <1> HIDE DEF c, w, q, inner, outer, t1, n, t2
  <1>3. /\ Null \notin TreeElem /\ p \in TreeElem /\ p \in u[q] /\ b \in TreeElem /\ b \in u[q] /\ b # p
        /\ s \in Sides /\ o \in Sides /\ o = Other(s) /\ IsTree(c, q, u) /\ p \in Link /\ b \in Link
        /\ c[p][s] = e /\ c[p][o] = b
    <2>1. o = Other(s) /\ IsTree(c, q, u) /\ c[p][s] = e /\ c[p][o] = b
      BY <1>1 DEF RemoveAt
    <2> QED BY <1>1, <2>1, RemovePlace DEF Link
  <1>4. outer \in Link /\ outer \in TreeElem
    <2>1. outer \in Link /\ outer # Null  BY <1>1, <1>3, ChildSmaller DEF outer, IsRed
    <2> QED BY <2>1 DEF Link
  <1>5. t \in Tree /\ Shape(t, u) /\ w[p] \in {"red", "black"}
    <2>1. t \in Tree /\ Shape(t, u)  BY DEF RoundAt, Shape
    <2> QED BY <1>3, <2>1, TreeFields DEF w
  <1>6. /\ t1 \in Tree /\ Shape(t1, u) /\ t1.root = q /\ t1.child = c
        /\ \A a \in TreeElem : t1.color[a] = IF a = b THEN w[p] ELSE w[a]
    <2>1. Recoloured(t, u, b, w[p], t1)  BY <1>3, <1>5 DEF Recoloured, t1
    <2> QED BY <1>3, <2>1, Painted DEF c, w, q
  <1>7. /\ n \in Tree /\ Shape(n, u) /\ n.root = q /\ n.child = c
        /\ \A a \in TreeElem : n.color[a] = IF a = p THEN "black" ELSE IF a = b THEN w[p] ELSE w[a]
    <2>1. Recoloured(t1, u, p, "black", n)  BY <1>2, <1>3, <1>6 DEF Recoloured
    <2> QED BY <1>3, <1>6, <2>1, Painted
  <1>8. r = Rotate(t2, p, s)
    BY <1>2, <1>7 DEF t2, outer
  <1>9. /\ t2 \in Tree /\ Shape(t2, u) /\ t2.root = q /\ t2.child = c
        /\ \A a \in TreeElem : t2.color[a] = IF a = outer \/ a = p THEN "black" ELSE IF a = b THEN w[p] ELSE w[a]
    <2>1. Recoloured(n, u, outer, "black", t2)  BY <1>4, <1>7 DEF Recoloured, t2
    <2> QED BY <1>3, <1>7, <2>1, Painted
  <1>10. Place(c, q, u, p, s, o, b, e, inner, outer)
    <2>1. b # Null  BY <1>3
    <2> QED BY <1>3, <2>1 DEF Place, inner, outer
  <1>11. RotatedAt(t2, u, p, s, o, b, e, inner, outer, r)
    BY <1>8, <1>9, <1>10 DEF RotatedAt
  <1>12. PICK v : /\ Turned(t2.child, t2.root, u, p, s, o, b, e, inner, outer, r.child, r.root, v)
                  /\ Shape(r, v) /\ v[r.root] = u[t2.root] /\ r.color = t2.color /\ r \in Tree
    <2> HIDE DEF c, w, q
    <2> QED BY ONLY ElementsFit, <1>11, RotateTurned
  <1>13. t2.color \in [TreeElem -> {"red", "black"}]  BY <1>9 DEF Tree
  <1>14. OuterRed(c, q, w, u, h, p, s, o, e, b, inner, outer, t2.color, r.child, r.root, v)
    BY <1>1, <1>9, <1>12, <1>13 DEF OuterRed
  <1>15. \E k : Even(r.child, r.root, t2.color, v, k)
    BY <1>14, RemoveOuterRed
  <1> QED BY <1>3, <1>9, <1>12, <1>15 DEF q

\* The other child is there; so the macro finds the side of e, even if e is not.
LEMMA RemoveStart ==
  ASSUME ElementsFit, NEW t, NEW u, Shape(t, u), NEW h, NEW p, NEW s, NEW e,
         Removing(t.child, t.root, t.color, u, h, p, s, e), e # t.root, ~IsRed(t.color, e)
  PROVE  /\ SideOf(t, e, p) = s
         /\ RemoveAt(t.child, t.root, t.color, u, h, p, s, Other(s), e, t.child[p][Other(s)])
  <1> DEFINE c == t.child
             w == t.color
             r == t.root
             b == c[p][Other(s)]
  <1>1. /\ IsTree(c, r, u) /\ w \in [TreeElem -> {"red", "black"}] /\ e \in Link
        /\ p \in u[r] /\ s \in Sides /\ c[p][s] = e /\ Level(c, w, u[r], h, p, s)
        /\ \A a \in u[r] : \A x \in Sides : IsRed(w, a) /\ IsRed(w, c[a][x]) => a = e \/ c[a][x] = e
        /\ (IsRed(w, r) => r = e)
    BY DEF Removing
  <1>2. ~IsRed(w, e) /\ e # r  OBVIOUS
  <1>3. RemoveAt(c, r, w, u, h, p, s, Other(s), e, b)
    <2>1. b = c[p][Other(s)]  OBVIOUS
    <2> HIDE DEF c, w, r, b
    <2> QED BY <1>1, <1>2, <2>1 DEF RemoveAt
  <1>4. b # e  BY <1>3, RemovePlace
  <1>5. SideOf(t, e, p) = s
    <2>1. CASE s = "left"  BY <1>1, <2>1 DEF SideOf
    <2>2. CASE s = "right"
      <3>1. Other(s) = "left"  BY <2>2 DEF Other
      <3> QED BY <1>4, <2>2, <3>1 DEF SideOf
    <2> QED BY <1>1, <2>1, <2>2 DEF Sides
  <1> QED BY <1>3, <1>5

\* One round of the loop: e gets above what it was, or the loop ends.
LEMMA RemoveRoundIs ==
  ASSUME ElementsFit, NEW t, NEW u, Shape(t, u), NEW h, NEW p, NEW s, NEW e,
         Removing(t.child, t.root, t.color, u, h, p, s, e), e # t.root, ~Red(t, e),
         NEW z, z = RemoveRound(t, p, e)
  PROVE  /\ z.t \in Tree /\ z.p \in Link /\ z.e \in Link /\ z = [t |-> z.t, p |-> z.p, e |-> z.e]
         /\ \E v, k, y : /\ Shape(z.t, v) /\ v[z.t.root] = u[t.root]
                         /\ Removing(z.t.child, z.t.root, z.t.color, v, k, z.p, y, z.e)
                         /\ \/ z.e = z.t.root \/ Red(z.t, z.e)
                            \/ u[e] \subseteq v[z.e] /\ z.e \notin u[e] /\ z.e \in v[z.e]
  <1> DEFINE d  == SideOf(t, e, p)
             o  == Other(d)
             b  == t.child[p][o]
             t1 == IF Red(t, b) THEN Rotate(BlackRed(t, b, p), p, d) ELSE t
             b1 == t1.child[p][o]
             t2 == IF Red(t1, t1.child[b1][o]) THEN t1
                     ELSE Rotate(BlackRed(t1, t1.child[b1][d], b1), b1, o)
             b2 == t2.child[p][o]
             t3 == Paint(Paint(t2, b2, t2.color[p]), p, "black")
             t4 == Rotate(Paint(t3, t3.child[b2][o], "black"), p, d)
             t5 == Paint(t1, b1, "red")
  <1>1. ~IsRed(t.color, e)  BY DEF Red, IsRed
  <1>2. RoundAt(t, u, h, p, d, o, e, b)
    <2>1. d = SideOf(t, e, p) /\ o = Other(d) /\ b = t.child[p][o]  OBVIOUS
    <2> HIDE DEF d, o, b, t1, b1, t2, b2, t3, t4, t5
    <2>2. /\ SideOf(t, e, p) = s
          /\ RemoveAt(t.child, t.root, t.color, u, h, p, s, Other(s), e, t.child[p][Other(s)])
      BY <1>1, RemoveStart
    <2> QED BY <2>1, <2>2 DEF RoundAt
  <1>3. z = IF \A x \in Sides : ~Red(t1, t1.child[b1][x])
              THEN [t |-> t5, p |-> t1.parent[p], e |-> p]
              ELSE [t |-> t4, p |-> p, e |-> t4.root]
    BY Zenon DEF RemoveRound
  <1>4. t1 = StartStep(t, p, d, b)  BY DEF StartStep
  <1>5. b1 = t1.child[p][o]  OBVIOUS
  <1>6. t2 = InnerStep(t1, d, o, b1)  BY DEF InnerStep
  <1>7. b2 = t2.child[p][o]  OBVIOUS
  <1>8. t4 = OuterStep(t2, p, d, o, b2) /\ t5 = Paint(t1, b1, "red")
    BY DEF OuterStep
  <1> HIDE DEF d, o, b, t1, b1, t2, b2, t3, t4, t5
  <1>9. PICK v, k : /\ RoundAt(t1, v, k, p, d, o, e, b1)
                    /\ ~IsRed(t1.color, b1) /\ v[t1.root] = u[t.root]
                    /\ u[e] \subseteq v[p] /\ p \notin u[e]
    <2>1. PICK v, k, n : /\ RoundAt(t1, v, k, p, d, o, e, n)
                         /\ ~IsRed(t1.color, n) /\ v[t1.root] = u[t.root]
                         /\ u[e] \subseteq v[p] /\ p \notin u[e]
      BY ONLY ElementsFit, <1>2, <1>4, RoundStart
    <2>2. n = b1  BY <1>5, <2>1 DEF RoundAt, RemoveAt
    <2> QED BY <2>1, <2>2
  <1>10. CASE \A x \in Sides : ~Red(t1, t1.child[b1][x])
    <2>1. \A x \in Sides : ~IsRed(t1.color, t1.child[b1][x])
      BY <1>10 DEF Red, IsRed
    <2>2. /\ Shape(t5, v) /\ t5 \in Tree /\ t1.parent[p] \in Link /\ p \in Link /\ t5.root = t1.root
          /\ \E j, y : Removing(t5.child, t5.root, t5.color, v, j, t1.parent[p], y, p)
      BY ONLY ElementsFit, <1>8, <1>9, <2>1, RoundBlack
    <2>3. z.t = t5 /\ z.p = t1.parent[p] /\ z.e = p /\ z = [t |-> t5, p |-> t1.parent[p], e |-> p]
      BY <1>3, <1>10
    <2>4. p \in v[p]  BY <1>9 DEF RoundAt, RemoveAt, IsTree
    <2> QED BY <1>9, <2>2, <2>3, <2>4
  <1>11. CASE ~(\A x \in Sides : ~Red(t1, t1.child[b1][x]))
    <2>1. ~(\A x \in Sides : ~IsRed(t1.color, t1.child[b1][x]))
      BY <1>11 DEF Red, IsRed
    <2>2. PICK v2, k2 : /\ RoundAt(t2, v2, k2, p, d, o, e, b2)
                        /\ ~IsRed(t2.color, b2) /\ IsRed(t2.color, t2.child[b2][o])
                        /\ v2[t2.root] = v[t1.root]
      <3>1. PICK v2, k2, n : /\ RoundAt(t2, v2, k2, p, d, o, e, n)
                             /\ ~IsRed(t2.color, n) /\ IsRed(t2.color, t2.child[n][o])
                             /\ v2[t2.root] = v[t1.root]
        BY ONLY ElementsFit, <1>6, <1>9, <2>1, RoundInner
      <3>2. n = b2  BY <1>7, <3>1 DEF RoundAt, RemoveAt
      <3> QED BY <3>1, <3>2
    <2>3. PICK v4, k4 : /\ Shape(t4, v4) /\ t4 \in Tree /\ Even(t4.child, t4.root, t4.color, v4, k4)
                        /\ v4[t4.root] = v2[t2.root] /\ p \in Link
      BY ONLY ElementsFit, <1>8, <2>2, RoundOuter
    <2>4. z.t = t4 /\ z.p = p /\ z.e = t4.root /\ z = [t |-> t4, p |-> p, e |-> t4.root]
      BY <1>3, <1>11
    <2>5. t4.root \in Link  BY <2>3, TreeFields
    <2>6. Removing(t4.child, t4.root, t4.color, v4, k4, p, s, t4.root)
      <3> DEFINE c == t4.child
                 w == t4.color
                 r == t4.root
      <3>1. Even(c, r, w, v4, k4) /\ r \in Link  BY <2>3, <2>5
      <3> HIDE DEF c, w, r
      <3>2. Removing(c, r, w, v4, k4, p, s, r)  BY <3>1 DEF Even, Removing
      <3> QED BY <3>2 DEF c, w, r
    <2> QED BY <1>9, <2>2, <2>3, <2>4, <2>5, <2>6
  <1> QED BY <1>10, <1>11

\* All is well when e, where the loop ends, has become black.
LastRed(c, r, w, u, h, p, s, e, z) ==
  /\ Removing(c, r, w, u, h, p, s, e) /\ (e = r \/ IsRed(w, e))
  /\ z \in [TreeElem -> {"red", "black"}] /\ \A a \in TreeElem : z[a] = IF a = e THEN "black" ELSE w[a]

LEMMA LastBlack ==
  ASSUME ElementsFit, NEW c, NEW r, NEW w, NEW u, NEW h, NEW p, NEW s, NEW e, NEW z,
         LastRed(c, r, w, u, h, p, s, e, z)
  PROVE  \E k : Even(c, r, z, u, k)
  <1> DEFINE X == u[r]
             k == [h EXCEPT ![e] = IF IsRed(w, e) THEN h[e] + 1 ELSE h[e]]
  <1>0. /\ IsTree(c, r, u) /\ w \in [TreeElem -> {"red", "black"}] /\ e \in Link
        /\ (e # r => p \in X /\ s \in Sides /\ c[p][s] = e /\ Level(c, w, X, h, p, s) /\ IsRed(w, e))
        /\ (e = r => Level(c, w, X, h, Null, "left"))
        /\ \A a \in X : \A x \in Sides : IsRed(w, a) /\ IsRed(w, c[a][x]) => a = e \/ c[a][x] = e
        /\ (IsRed(w, r) => r = e)
        /\ z \in [TreeElem -> {"red", "black"}] /\ \A a \in TreeElem : z[a] = IF a = e THEN "black" ELSE w[a]
    BY DEF LastRed, Removing
  <1>1. X \subseteq TreeElem /\ Null \notin TreeElem /\ r \in Link /\ (r = Null => X = {})
    BY <1>0 DEF IsTree, ElementsFit
  <1>2. h \in [Link -> Nat] /\ h[Null] = 0
    BY <1>0 DEF Level
  <1>3. /\ k \in [Link -> Nat] /\ k[Null] = 0 /\ k[e] = (IF IsRed(w, e) THEN h[e] + 1 ELSE h[e])
        /\ \A a \in Link : a # e => k[a] = h[a]
    BY <1>0, <1>2 DEF IsRed
  <1> HIDE DEF k, X
  <1>4. ASSUME NEW a \in X, NEW x \in Sides
        PROVE  /\ a \in TreeElem /\ a \in Link /\ c[a][x] \in Link /\ c[a][x] # a /\ h[a] \in Nat
               /\ h[c[a][x]] \in Nat /\ Weight(w, a) \in Nat /\ Weight(z, a) \in Nat
               /\ (c[a][x] # Null => c[a][x] \in X)
    <2>1. a \in u[r]  BY DEF X
    <2>2. /\ a \in TreeElem /\ a \in Link /\ c[a][x] \in Link
          /\ (c[a][x] # Null => c[a][x] \in u[r] /\ c[a][x] # a)
      BY <1>0, <2>1, ChildSmaller
    <2> QED BY <1>1, <1>2, <2>2 DEF Weight, X
  <1>5. ASSUME NEW a \in X, NEW x \in Sides
        PROVE  IF c[a][x] = e /\ e # r THEN a # e /\ h[a] = h[c[a][x]] + Weight(w, a) + 1
                                       ELSE h[a] = h[c[a][x]] + Weight(w, a)
    <2>0. a \in u[r]  BY DEF X
    <2>1. CASE e = r
      <3>1. a # Null  BY <1>1, <1>4
      <3>2. Lack(a, x, Null, "left") = 0  BY <3>1 DEF Lack
      <3>3. h[a] = h[c[a][x]] + Weight(w, a) + Lack(a, x, Null, "left")
        BY <1>0, <2>1 DEF Level
      <3> QED BY <1>4, <2>1, <3>2, <3>3
    <2>2. CASE e # r
      <3>1. p \in u[r] /\ s \in Sides /\ c[p][s] = e /\ Level(c, w, X, h, p, s) /\ e # Null
        BY <1>0, <2>2 DEF X, IsRed
      <3>2. c[a][x] = e <=> a = p /\ x = s
        BY <1>0, <2>0, <3>1, OneParent
      <3>3. h[a] = h[c[a][x]] + Weight(w, a) + Lack(a, x, p, s)  BY <3>1 DEF Level
      <3>4. CASE c[a][x] = e
        <4>1. Lack(a, x, p, s) = 1  BY <3>2, <3>4 DEF Lack
        <4>2. a # e  BY <1>4, <3>4
        <4> QED BY <2>2, <3>3, <3>4, <4>1, <4>2
      <3>5. CASE c[a][x] # e
        <4>1. Lack(a, x, p, s) = 0  BY <3>2, <3>5 DEF Lack
        <4> QED BY <1>4, <3>3, <3>5, <4>1
      <3> QED BY <3>4, <3>5
    <2> QED BY <2>1, <2>2
  <1>6. ASSUME NEW a \in X, NEW x \in Sides
        PROVE  k[a] = k[c[a][x]] + Weight(z, a) + Lack(a, x, Null, "left")
    <2>0. Lack(a, x, Null, "left") = 0 /\ a \in u[r]  BY <1>1, <1>4 DEF Lack, X
    <2>1. CASE c[a][x] = e /\ e # r
      <3>1. a # e /\ h[a] = h[c[a][x]] + Weight(w, a) + 1  BY <1>5, <2>1
      <3>2. Weight(z, a) = Weight(w, a)  BY <1>0, <1>4, <3>1 DEF Weight
      <3>3. k[a] = h[a] /\ k[c[a][x]] = h[c[a][x]] + 1  BY <1>0, <1>3, <1>4, <2>1, <3>1
      <3> QED BY <1>4, <2>0, <3>1, <3>2, <3>3
    <2>2. CASE ~(c[a][x] = e /\ e # r)
      <3>1. h[a] = h[c[a][x]] + Weight(w, a)  BY <1>5, <2>2
      <3>2. k[c[a][x]] = h[c[a][x]]
        <4>1. CASE c[a][x] # e  BY <1>3, <1>4, <4>1
        <4>2. CASE c[a][x] = e
          <5>1. e = r  BY <2>2, <4>2
          <5>2. c[a][x] = Null  BY <1>0, <2>0, <4>2, <5>1, OneParent
          <5> QED BY <1>2, <1>3, <5>2
        <4> QED BY <4>1, <4>2
      <3>3. CASE a = e /\ IsRed(w, a)
        <4>1. Weight(w, a) = 0 /\ Weight(z, a) = 1  BY <1>0, <1>4, <3>3 DEF Weight, IsRed
        <4>2. k[a] = h[a] + 1  BY <1>3, <3>3
        <4> QED BY <1>4, <2>0, <3>1, <3>2, <4>1, <4>2
      <3>4. CASE ~(a = e /\ IsRed(w, a))
        <4>1. z[a] = w[a]  BY <1>0, <1>1, <1>4, <3>4 DEF IsRed
        <4>2. k[a] = h[a]  BY <1>3, <1>4, <3>4
        <4>3. Weight(z, a) = Weight(w, a)  BY <4>1 DEF Weight
        <4> QED BY <1>4, <2>0, <3>1, <3>2, <4>2, <4>3
      <3> QED BY <3>3, <3>4
    <2> QED BY <2>1, <2>2
  <1>7. Level(c, z, u[r], k, Null, "left")  BY <1>3, <1>6 DEF Level, X
  <1>8. \A a \in u[r] : \A x \in Sides : ~(IsRed(z, a) /\ IsRed(z, c[a][x]))
    <2> SUFFICES ASSUME NEW a \in X, NEW x \in Sides, IsRed(z, a), IsRed(z, c[a][x]) PROVE FALSE
      BY DEF X
    <2>1. a \in TreeElem /\ c[a][x] \in TreeElem  BY <1>1, <1>4 DEF IsRed, Link
    <2> QED BY <1>0, <2>1 DEF IsRed
  <1>9. ~IsRed(z, r)  BY <1>0, <1>1 DEF IsRed, Link
  <1> QED BY <1>0, <1>7, <1>8, <1>9 DEF Even

\* RB_REMOVE_COLOR restores the colours.
LEMMA RemoveColorIs ==
  ASSUME ElementsFit, NEW t, NEW u, Shape(t, u), u[t.root] # TreeElem,
         NEW h, NEW p \in Link, NEW s, NEW e,
         Removing(t.child, t.root, t.color, u, h, p, s, e),
         NEW r, r = RemoveColor(t, p, e)
  PROVE  \E v, k : Shape(r, v) /\ Even(r.child, r.root, r.color, v, k) /\ v[r.root] = u[t.root]
  <1> DEFINE X == u[t.root]
             S0 == [t : Tree, p : Link, e : Link]
             Ends(z) == Red(z.t, z.e) \/ z.e = z.t.root
             step == [z \in S0 |-> IF Red(z.t, z.e) \/ z.e = z.t.root THEN z ELSE RemoveRound(z.t, z.p, z.e)]
             Fits(z, v, k, y) == /\ Shape(z.t, v) /\ Removing(z.t.child, z.t.root, z.t.color, v, k, z.p, y, z.e)
                                 /\ v[z.t.root] = X
             Inv  == {z \in S0 : \E v, k, y : Fits(z, v, k, y)}
             size == [z \in S0 |-> IF Ends(z) THEN 0 ELSE 1 + Cardinality(X \ Below(z.t, z.e))]
             x0   == [t |-> t, p |-> p, e |-> e]
             end  == Repeat(step, x0)
  <1>1. /\ t \in Tree /\ e \in Link /\ X \subseteq TreeElem /\ IsFiniteSet(TreeElem) /\ Null \notin TreeElem /\ X # TreeElem
    BY DEF Shape, Removing, IsTree, ElementsFit
  <1>2. \A z \in S0 : step[z] = IF Ends(z) THEN z ELSE RemoveRound(z.t, z.p, z.e)
    OBVIOUS
  <1>3. \A z \in S0 : size[z] = IF Ends(z) THEN 0 ELSE 1 + Cardinality(X \ Below(z.t, z.e))
    OBVIOUS
  <1>4. r = Paint(end.t, end.e, "black")
    BY DEF RemoveColor
  <1>5. x0 \in S0 /\ x0.t = t /\ x0.p = p /\ x0.e = e  BY <1>1
  <1> HIDE DEF step, size, x0, end, Ends
  <1>6. ASSUME NEW z \in S0, NEW v, NEW k, NEW y, Fits(z, v, k, y)
        PROVE  /\ Below(z.t, z.e) = v[z.e] /\ v[z.e] \subseteq X /\ v[z.e] \subseteq TreeElem
               /\ IsFiniteSet(X \ v[z.e]) /\ Cardinality(X \ v[z.e]) \in Nat
    <2>1. /\ IsTree(z.t.child, z.t.root, v) /\ z.e \in Link /\ v[z.t.root] = X /\ Shape(z.t, v)
          /\ (z.e # z.t.root => z.p \in v[z.t.root] /\ y \in Sides /\ z.t.child[z.p][y] = z.e)
      BY <1>6 DEF Shape, Removing
    <2>2. z.e # Null => z.e \in v[z.t.root]
      <3>1. CASE z.e = z.t.root  BY <2>1, <3>1 DEF IsTree
      <3>2. CASE z.e # z.t.root  BY <2>1, <3>2, ChildSmaller
      <3> QED BY <3>1, <3>2
    <2>3. Below(z.t, z.e) = v[z.e]
      <3>1. CASE z.e = Null
        <4>1. v[Null] = {}  BY <2>1 DEF IsTree
        <4>2. \A q : Below(q, Null) = {}  BY <1>1, BelowNull
        <4> QED BY <3>1, <4>1, <4>2
      <3>2. CASE z.e # Null
        <4>1. z.e \in v[z.t.root]  BY <2>2, <3>2
        <4> QED BY ONLY ElementsFit, <2>1, <4>1, BelowShape
      <3> QED BY <3>1, <3>2
    <2>4. v[z.e] \subseteq X
      <3>1. CASE z.e = Null  BY <2>1, <3>1 DEF IsTree
      <3>2. CASE z.e # Null  BY <2>1, <2>2, <3>2 DEF IsTree
      <3> QED BY <3>1, <3>2
    <2>5. IsFiniteSet(X \ v[z.e])  BY <1>1, FS_Subset
    <2> QED BY <1>1, <2>3, <2>4, <2>5, FS_CardinalityType
  <1>7. ASSUME NEW z \in Inv
        PROVE  /\ step[z] \in Inv /\ size[z] \in Nat /\ (step[z] = z \/ size[step[z]] < size[z])
               /\ (~Ends(z) => size[step[z]] < size[z])
    <2>1. PICK v, k, y : Fits(z, v, k, y)  OBVIOUS
    <2>2. size[z] \in Nat /\ (~Ends(z) => size[z] = 1 + Cardinality(X \ v[z.e]))
      <3>1. Below(z.t, z.e) = v[z.e] /\ Cardinality(X \ v[z.e]) \in Nat  BY <1>6, <2>1
      <3>2. z \in S0  OBVIOUS
      <3> HIDE DEF Fits, Inv, X, S0
      <3> QED BY ONLY <1>3, <3>1, <3>2
    <2>3. CASE Ends(z)
      BY <1>2, <2>2, <2>3
    <2>4. CASE ~Ends(z)
      <3> DEFINE d == RemoveRound(z.t, z.p, z.e)
      <3>1. step[z] = d  BY <1>2, <2>4
      <3> HIDE DEF d
      <3>2. PICK v1, k1, y1 : /\ d \in S0 /\ Fits(d, v1, k1, y1)
                              /\ Ends(d) \/ (v[z.e] \subseteq v1[d.e] /\ d.e \notin v[z.e] /\ d.e \in v1[d.e])
        <4>1. /\ d.t \in Tree /\ d.p \in Link /\ d.e \in Link /\ d = [t |-> d.t, p |-> d.p, e |-> d.e]
              /\ \E v1, k1, y1 :
                   /\ Shape(d.t, v1) /\ v1[d.t.root] = v[z.t.root]
                   /\ Removing(d.t.child, d.t.root, d.t.color, v1, k1, d.p, y1, d.e)
                   /\ \/ d.e = d.t.root \/ Red(d.t, d.e)
                      \/ v[z.e] \subseteq v1[d.e] /\ d.e \notin v[z.e] /\ d.e \in v1[d.e]
          <5>1. /\ Shape(z.t, v) /\ Removing(z.t.child, z.t.root, z.t.color, v, k, z.p, y, z.e)
                /\ z.e # z.t.root /\ ~Red(z.t, z.e) /\ d = RemoveRound(z.t, z.p, z.e)
            BY <2>1, <2>4 DEF Ends, d
          <5> QED BY ONLY ElementsFit, <5>1, RemoveRoundIs
        <4>2. v[z.t.root] = X  BY <2>1
        <4> QED BY <4>1, <4>2 DEF Ends
      <3>3. d \in Inv  BY <3>2
      <3>4. size[d] < size[z]
        <4>1. CASE Ends(d)
          <5>1. size[d] = 0  BY <1>3, <3>2, <4>1
          <5>2. Cardinality(X \ v[z.e]) \in Nat  BY <1>6, <2>1
          <5> QED BY <2>2, <2>4, <5>1, <5>2
        <4>2. CASE ~Ends(d)
          <5>1. size[d] = 1 + Cardinality(X \ v1[d.e]) /\ d.e \in v1[d.e] /\ v1[d.e] \subseteq X
                /\ Cardinality(X \ v1[d.e]) \in Nat
            BY <1>3, <1>6, <3>2, <4>2
          <5>2. IsFiniteSet(X \ v[z.e]) /\ Cardinality(X \ v[z.e]) \in Nat  BY <1>6, <2>1
          <5>3. (X \ v1[d.e]) \subseteq (X \ v[z.e]) /\ (X \ v1[d.e]) # (X \ v[z.e])
            BY <3>2, <4>2, <5>1
          <5>4. /\ Cardinality(X \ v1[d.e]) <= Cardinality(X \ v[z.e])
                /\ Cardinality(X \ v1[d.e]) # Cardinality(X \ v[z.e])
            BY <5>2, <5>3, FS_Subset
          <5> QED BY <2>2, <2>4, <5>1, <5>2, <5>4
        <4> QED BY <4>1, <4>2
      <3> QED BY <2>2, <3>1, <3>3, <3>4
    <2> QED BY <2>3, <2>4
  <1>8. x0 \in Inv /\ size[x0] <= Cardinality(TreeElem)
    <2>1. Fits(x0, u, h, s)  BY <1>5
    <2>2. Below(t, e) = u[e] /\ Cardinality(X \ u[e]) \in Nat  BY <1>5, <1>6, <2>1
    <2>3. (X \ u[e]) \subseteq TreeElem /\ (X \ u[e]) # TreeElem  BY <1>1
    <2>4. Cardinality(X \ u[e]) < Cardinality(TreeElem) /\ Cardinality(TreeElem) \in Nat
      <3>1. Cardinality(X \ u[e]) <= Cardinality(TreeElem) /\ Cardinality(X \ u[e]) # Cardinality(TreeElem)
        BY <1>1, <2>3, FS_Subset
      <3> QED BY <1>1, <2>2, <3>1, FS_CardinalityType
    <2>5. size[x0] = 1 + Cardinality(X \ u[e]) \/ size[x0] = 0
      BY <1>3, <1>5, <2>2
    <2> QED BY <1>5, <2>1, <2>2, <2>4, <2>5
  <1>9. end \in Inv /\ step[end] = end
    <2> HIDE DEF Inv
    <2> QED BY <1>1, <1>7, <1>8, RepeatEnds DEF end
  <1>10. Ends(end)
    <2>1. size[end] \in Nat  BY <1>7, <1>9
    <2> QED BY <1>7, <1>9, <2>1
  <1>11. PICK v, k, y : Fits(end, v, k, y)
    BY <1>9
  <1> DEFINE c == end.t.child
             w == end.t.color
             q == end.t.root
             f == end.e
             g == end.p
  <1>12. Shape(end.t, v) /\ Removing(c, q, w, v, k, g, y, f) /\ v[q] = X
    BY <1>11
  <1>13. f \in Link /\ (f = q \/ IsRed(w, f))
    BY <1>10, <1>12 DEF Removing, Ends, Red, IsRed
  <1>14. /\ Shape(r, v) /\ r \in Tree /\ r.root = q /\ r.child = c
         /\ r.color \in [TreeElem -> {"red", "black"}]
         /\ \A a \in TreeElem : r.color[a] = IF a = f THEN "black" ELSE w[a]
    <2>1. Recoloured(end.t, v, f, "black", r)  BY <1>4, <1>12, <1>13 DEF Recoloured
    <2> QED BY <1>1, <2>1, Painted
  <1> HIDE DEF c, w, q, f, g
  <1>15. \E j : Even(c, q, r.color, v, j)
    <2>1. LastRed(c, q, w, v, k, g, y, f, r.color)
      BY <1>12, <1>13, <1>14 DEF LastRed
    <2> QED BY ONLY ElementsFit, <2>1, LastBlack
  <1> QED BY <1>12, <1>14, <1>15

-----------------------------------------------------------------------------
(***************************************************************************)
(* Removal: the tree.                                                      *)
(***************************************************************************)
\* m has one child b at most, on side y, which takes its place.
Detached(c, r, u, m, y, b, d, q, v) ==
  /\ IsTree(c, r, u) /\ m \in u[r] /\ y \in Sides /\ b = c[m][y] /\ c[m][Other(y)] = Null
  /\ q = IF m = r THEN b ELSE r
  /\ \A a \in u[r] : a # m => \A x \in Sides : d[a][x] = IF c[a][x] = m THEN b ELSE c[a][x]
  /\ v = [a \in Link |-> u[a] \ {m}]

LEMMA Detach ==
  ASSUME ElementsFit, NEW c, NEW r, NEW u, NEW m, NEW y, NEW b, NEW d, NEW q, NEW v,
         Detached(c, r, u, m, y, b, d, q, v)
  PROVE  /\ IsTree(d, q, v) /\ v[q] = u[r] \ {m}
         /\ \A a \in u[r] : a # m => \A x \in Sides : v[d[a][x]] = u[c[a][x]] \ {m}
  <1> DEFINE X == u[r]
  <1>1. /\ IsTree(c, r, u) /\ m \in X /\ y \in Sides /\ b = c[m][y] /\ c[m][Other(y)] = Null
        /\ q = (IF m = r THEN b ELSE r)
        /\ \A a \in X : a # m => \A x \in Sides : d[a][x] = IF c[a][x] = m THEN b ELSE c[a][x]
        /\ v = [a \in Link |-> u[a] \ {m}]
    BY DEF Detached
  <1>2. /\ u \in [Link -> SUBSET TreeElem] /\ u[Null] = {} /\ Null \notin TreeElem /\ X \subseteq TreeElem
        /\ r \in Link /\ r # Null /\ r \in X
    BY <1>1 DEF IsTree, ElementsFit
  <1>3. /\ u[m] = {m} \cup u[b] /\ m \notin u[b] /\ b \in Link /\ m \in TreeElem
        /\ (b # Null => b \in u[b] /\ b \in X)
    <2>1. u[m] = {m} \cup u[c[m][y]] \cup u[c[m][Other(y)]]  BY <1>1, ChildSmaller
    <2>2. m \notin u[c[m][y]] /\ c[m][y] \in Link /\ m \in TreeElem /\ (c[m][y] # Null => c[m][y] \in X)
      BY <1>1, ChildSmaller
    <2>3. b # Null => b \in u[b]  BY <1>1 DEF IsTree
    <2> QED BY <1>1, <1>2, <2>1, <2>2, <2>3
  <1>4. v \in [Link -> SUBSET TreeElem] /\ v[Null] = {} /\ \A a \in Link : v[a] = u[a] \ {m}
    <2>1. Null \in Link  BY DEF Link
    <2> QED BY <1>1, <1>2, <2>1
  <1>5. q \in Link /\ v[q] = X \ {m}
    BY <1>1, <1>2, <1>3, <1>4
  <1>6. q # Null => q \in v[q]
    BY <1>1, <1>2, <1>3, <1>5
  <1> HIDE DEF X
  <1>7. ASSUME NEW a \in X, a # m, NEW x \in Sides
        PROVE  /\ d[a][x] \in Link /\ v[d[a][x]] = u[c[a][x]] \ {m} /\ a \in Link
               /\ (d[a][x] # Null => d[a][x] \in v[d[a][x]])
    <2>1. c[a][x] \in Link /\ a \in Link /\ (c[a][x] # Null => c[a][x] \in u[c[a][x]])
      <3>1. IsTree(c, r, u) /\ a \in u[r]  BY <1>1, <1>7 DEF X
      <3>2. a \in Link  BY <3>1 DEF IsTree, Link
      <3> QED BY ONLY x \in Sides, <3>1, <3>2 DEF IsTree
    <2>2. d[a][x] = IF c[a][x] = m THEN b ELSE c[a][x]  BY <1>1, <1>7
    <2>3. CASE c[a][x] = m
      <3>1. d[a][x] = b /\ v[b] = u[b] \ {m}  BY <1>3, <1>4, <2>2, <2>3
      <3> QED BY <1>3, <2>1, <2>3, <3>1
    <2>4. CASE c[a][x] # m
      BY <1>4, <2>1, <2>2, <2>4
    <2> QED BY <2>3, <2>4
  <1>8. \A a \in v[q] : a \in v[a] /\ v[a] \subseteq v[q]
    <2> SUFFICES ASSUME NEW a \in v[q] PROVE a \in v[a] /\ v[a] \subseteq v[q]
      OBVIOUS
    <2>1. a \in X /\ a # m /\ a \in Link /\ a \in u[a] /\ u[a] \subseteq X
      BY <1>1, <1>2, <1>5 DEF IsTree, Link, X
    <2> QED BY <1>4, <1>5, <2>1
  <1>9. \A a \in v[q] : \A x \in v[a] : v[x] \subseteq v[a]
    <2> SUFFICES ASSUME NEW a \in v[q], NEW x \in v[a] PROVE v[x] \subseteq v[a]
      OBVIOUS
    <2>1. a \in X /\ a \in Link  BY <1>2, <1>5 DEF Link
    <2>2. x \in u[a] /\ x \in Link /\ v[a] = u[a] \ {m}  BY <1>2, <1>4, <2>1 DEF Link
    <2>3. u[x] \subseteq u[a]  BY <1>1, <2>1, <2>2 DEF IsTree, X
    <2> QED BY <1>4, <2>2, <2>3
  <1>10. \A a \in v[q] : \A x \in Sides : d[a][x] \in Link /\ (d[a][x] # Null => d[a][x] \in v[d[a][x]])
    BY <1>5, <1>7
  <1>11. \A a \in v[q] : v[a] = {a} \cup v[d[a]["left"]] \cup v[d[a]["right"]]
    <2> SUFFICES ASSUME NEW a \in v[q] PROVE v[a] = {a} \cup v[d[a]["left"]] \cup v[d[a]["right"]]
      OBVIOUS
    <2>1. a \in X /\ a # m /\ a \in Link  BY <1>2, <1>5 DEF Link
    <2>2. u[a] = {a} \cup u[c[a]["left"]] \cup u[c[a]["right"]]  BY <1>1, <2>1 DEF IsTree, X
    <2>3. v[d[a]["left"]] = u[c[a]["left"]] \ {m} /\ v[d[a]["right"]] = u[c[a]["right"]] \ {m}
      BY <1>7, <2>1, SidesAre
    <2>4. v[a] = u[a] \ {m}  BY <1>4, <2>1
    <2> QED BY <2>1, <2>2, <2>3, <2>4
  <1>12. \A a \in v[q] : \A x \in Sides : \A z \in v[d[a][x]] : On(x, z, a)
    <2> SUFFICES ASSUME NEW a \in v[q], NEW x \in Sides, NEW z \in v[d[a][x]] PROVE On(x, z, a)
      OBVIOUS
    <2>1. a \in X /\ z \in u[c[a][x]]  BY <1>5, <1>7
    <2> QED BY <1>1, <2>1 DEF IsTree, X
  <1>13. IsTree(d, q, v)
    BY <1>4, <1>5, <1>6, <1>8, <1>9, <1>10, <1>11, <1>12 DEF IsTree
  <1> QED BY <1>5, <1>7, <1>13 DEF X

\* m, which is not in the tree, takes the place of e.
Replaced(c, r, u, e, m, d, q, v) ==
  /\ IsTree(c, r, u) /\ e \in u[r] /\ m \in TreeElem /\ m \notin u[r]
  /\ q = IF e = r THEN m ELSE r
  /\ \A x \in Sides : d[m][x] = c[e][x]
  /\ \A a \in u[r] : a # e => \A x \in Sides : d[a][x] = IF c[a][x] = e THEN m ELSE c[a][x]
  /\ \A x \in Sides : \A z \in u[c[e][x]] : On(x, z, m)
  /\ \A a \in u[r] : \A x \in Sides : e \in u[c[a][x]] => On(x, m, a)
  /\ v = [a \in Link |-> IF a = m THEN (u[e] \ {e}) \cup {m}
                         ELSE IF e \in u[a] THEN (u[a] \ {e}) \cup {m} ELSE u[a]]

LEMMA Replace ==
  ASSUME ElementsFit, NEW c, NEW r, NEW u, NEW e, NEW m, NEW d, NEW q, NEW v,
         Replaced(c, r, u, e, m, d, q, v)
  PROVE  /\ IsTree(d, q, v) /\ v[q] = (u[r] \ {e}) \cup {m}
  <1> DEFINE X == u[r]
             Y == (X \ {e}) \cup {m}
  <1>1. /\ IsTree(c, r, u) /\ e \in X /\ m \in TreeElem /\ m \notin X
        /\ q = (IF e = r THEN m ELSE r)
        /\ \A x \in Sides : d[m][x] = c[e][x]
        /\ \A a \in X : a # e => \A x \in Sides : d[a][x] = IF c[a][x] = e THEN m ELSE c[a][x]
        /\ \A x \in Sides : \A z \in u[c[e][x]] : On(x, z, m)
        /\ \A a \in X : \A x \in Sides : e \in u[c[a][x]] => On(x, m, a)
        /\ v = [a \in Link |-> IF a = m THEN (u[e] \ {e}) \cup {m}
                               ELSE IF e \in u[a] THEN (u[a] \ {e}) \cup {m} ELSE u[a]]
    BY DEF Replaced
  <1>2. /\ u \in [Link -> SUBSET TreeElem] /\ u[Null] = {} /\ Null \notin TreeElem /\ X \subseteq TreeElem
        /\ r \in Link /\ r # Null /\ r \in X /\ e \in TreeElem /\ e \in u[e] /\ e # m /\ m # r
    BY <1>1 DEF IsTree, ElementsFit
  <1> HIDE DEF X
  <1>3. v \in [Link -> SUBSET TreeElem]
    <2>1. e \in Link  BY <1>2 DEF Link
    <2>2. \A a \in Link : u[a] \in SUBSET TreeElem  BY <1>2
    <2> QED BY <1>1, <2>1, <2>2
  <1>4. /\ v[m] = (u[e] \ {e}) \cup {m}
        /\ \A a \in Link : a # m => v[a] = IF e \in u[a] THEN (u[a] \ {e}) \cup {m} ELSE u[a]
    BY <1>1 DEF Link
  <1>5. v[Null] = {}
    BY <1>1, <1>2, <1>4 DEF Link
  <1>6. ASSUME NEW a \in Y, a # m
        PROVE  a \in X /\ a # e /\ a \in Link /\ a \in u[a] /\ u[a] \subseteq X /\ m \notin u[a]
    BY <1>1, <1>2, <1>6 DEF IsTree, Link, X
  <1>7. v[q] = Y /\ q \in Link /\ q \in v[q]
    <2>1. CASE e = r
      <3>1. q = m /\ u[e] = X  BY <1>1, <2>1 DEF X
      <3> QED BY <1>1, <1>4, <3>1 DEF Link
    <2>2. CASE e # r
      <3>1. q = r /\ u[r] = X /\ r # m  BY <1>1, <1>2, <2>2 DEF X
      <3> QED BY <1>1, <1>2, <1>4, <2>2, <3>1
    <2> QED BY <2>1, <2>2
  <1>8. \A x \in Sides : /\ c[e][x] \in Link /\ c[e][x] # m /\ v[c[e][x]] = u[c[e][x]]
                         /\ (c[e][x] # Null => c[e][x] \in u[c[e][x]])
    <2> SUFFICES ASSUME NEW x \in Sides
                 PROVE  /\ c[e][x] \in Link /\ c[e][x] # m /\ v[c[e][x]] = u[c[e][x]]
                        /\ (c[e][x] # Null => c[e][x] \in u[c[e][x]])
      OBVIOUS
    <2>1. /\ c[e][x] \in Link /\ e \notin u[c[e][x]] /\ (c[e][x] # Null => c[e][x] \in X)
      BY <1>1, ChildSmaller DEF X
    <2>2. c[e][x] # Null => c[e][x] \in u[c[e][x]]  BY <1>1 DEF IsTree, X
    <2>3. c[e][x] # m  BY <1>1, <1>2, <2>1
    <2> QED BY <1>4, <2>1, <2>2, <2>3
  <1>9. ASSUME NEW a \in Y, a # m, NEW x \in Sides
        PROVE  /\ d[a][x] \in Link /\ (d[a][x] # Null => d[a][x] \in v[d[a][x]])
               /\ v[d[a][x]] = IF e \in u[c[a][x]] THEN (u[c[a][x]] \ {e}) \cup {m} ELSE u[c[a][x]]
    <2>1. a \in X /\ a # e  BY <1>6, <1>9
    <2>2. d[a][x] = IF c[a][x] = e THEN m ELSE c[a][x]  BY <1>1, <2>1
    <2>3. /\ c[a][x] \in Link /\ (c[a][x] # Null => c[a][x] \in X /\ c[a][x] \in u[c[a][x]])
      <3>1. IsTree(c, r, u) /\ a \in u[r]  BY <1>1, <2>1 DEF X
      <3>2. c[a][x] # Null => c[a][x] \in u[r]  BY <3>1, ChildSmaller
      <3>3. c[a][x] \in Link /\ (c[a][x] # Null => c[a][x] \in u[c[a][x]])
        BY ONLY x \in Sides, <3>1 DEF IsTree
      <3> QED BY <3>2, <3>3 DEF X
    <2>4. CASE c[a][x] = e
      <3>1. d[a][x] = m /\ e \in u[c[a][x]]  BY <1>2, <2>2, <2>4
      <3> QED BY <1>1, <1>4, <2>4, <3>1 DEF Link
    <2>5. CASE c[a][x] # e
      <3>1. d[a][x] = c[a][x] /\ c[a][x] # m  BY <1>1, <1>2, <2>2, <2>3, <2>5
      <3>2. v[d[a][x]] = IF e \in u[c[a][x]] THEN (u[c[a][x]] \ {e}) \cup {m} ELSE u[c[a][x]]
        BY <1>4, <2>3, <3>1
      <3> QED BY <2>3, <2>5, <3>1, <3>2
    <2> QED BY <2>4, <2>5
  <1>10. \A a \in Y : a \in v[a] /\ v[a] \subseteq Y
    <2> SUFFICES ASSUME NEW a \in Y PROVE a \in v[a] /\ v[a] \subseteq Y
      OBVIOUS
    <2>1. u[e] \subseteq X  BY <1>1 DEF IsTree, X
    <2>2. CASE a = m  BY <1>4, <2>1, <2>2
    <2>3. CASE a # m
      <3>1. a \in X /\ a # e /\ a \in Link /\ a \in u[a] /\ u[a] \subseteq X  BY <1>6, <2>3
      <3>2. v[a] = IF e \in u[a] THEN (u[a] \ {e}) \cup {m} ELSE u[a]  BY <1>4, <2>3, <3>1
      <3> QED BY <3>1, <3>2
    <2> QED BY <2>2, <2>3
  <1>11. \A a \in Y : \A x \in v[a] : v[x] \subseteq v[a]
    <2> SUFFICES ASSUME NEW a \in Y, NEW x \in v[a] PROVE v[x] \subseteq v[a]
      OBVIOUS
    <2>0. x \in Y /\ \A f \in X : \A g \in u[f] : u[g] \subseteq u[f]
      BY <1>1, <1>10 DEF IsTree, X
    <2>1. CASE a = m
      <3>1. CASE x = m  BY <2>1, <3>1
      <3>2. CASE x # m
        <4>1. x \in u[e] /\ x # e /\ x \in X /\ x \in Link /\ v[x] = IF e \in u[x] THEN (u[x] \ {e}) \cup {m} ELSE u[x]
          BY <1>4, <1>6, <2>0, <2>1, <3>2
        <4>2. u[x] \subseteq u[e]  BY <1>1, <2>0, <4>1
        <4> QED BY <1>4, <2>1, <4>1, <4>2
      <3> QED BY <3>1, <3>2
    <2>2. CASE a # m
      <3>1. /\ a \in X /\ a # e /\ a \in Link /\ m \notin u[a]
            /\ v[a] = IF e \in u[a] THEN (u[a] \ {e}) \cup {m} ELSE u[a]
        BY <1>4, <1>6, <2>2
      <3>2. CASE x = m
        <4>1. e \in u[a]  BY <3>1, <3>2
        <4>2. u[e] \subseteq u[a]  BY <2>0, <3>1, <4>1
        <4> QED BY <1>4, <3>1, <3>2, <4>1, <4>2
      <3>3. CASE x # m
        <4>1. x \in u[a]  BY <3>1, <3>3
        <4>2. u[x] \subseteq u[a]  BY <2>0, <3>1, <4>1
        <4>3. x \in Link /\ v[x] = IF e \in u[x] THEN (u[x] \ {e}) \cup {m} ELSE u[x]
          BY <1>4, <1>6, <2>0, <3>3
        <4> QED BY <3>1, <4>2, <4>3
      <3> QED BY <3>2, <3>3
    <2> QED BY <2>1, <2>2
  <1>12. \A a \in Y : \A x \in Sides : d[a][x] \in Link /\ (d[a][x] # Null => d[a][x] \in v[d[a][x]])
    <2> SUFFICES ASSUME NEW a \in Y, NEW x \in Sides
                 PROVE  d[a][x] \in Link /\ (d[a][x] # Null => d[a][x] \in v[d[a][x]])
      OBVIOUS
    <2>1. CASE a = m  BY <1>1, <1>8, <2>1
    <2>2. CASE a # m  BY <1>9, <2>2
    <2> QED BY <2>1, <2>2
  <1>13. \A a \in Y : v[a] = {a} \cup v[d[a]["left"]] \cup v[d[a]["right"]]
    <2> SUFFICES ASSUME NEW a \in Y PROVE v[a] = {a} \cup v[d[a]["left"]] \cup v[d[a]["right"]]
      OBVIOUS
    <2>0. "left" \in Sides /\ "right" \in Sides  BY SidesAre
    <2>1. \A f \in X : u[f] = {f} \cup u[c[f]["left"]] \cup u[c[f]["right"]]  BY <1>1 DEF IsTree, X
    <2>2. CASE a = m
      <3>1. v[d[a]["left"]] = u[c[e]["left"]] /\ v[d[a]["right"]] = u[c[e]["right"]]
        BY <1>1, <1>8, <2>0, <2>2
      <3>2. e \notin u[c[e]["left"]] /\ e \notin u[c[e]["right"]]
        BY <1>1, <2>0, ChildSmaller DEF X
      <3>3. v[a] = (u[e] \ {e}) \cup {m} /\ u[e] = {e} \cup u[c[e]["left"]] \cup u[c[e]["right"]]
        BY <1>1, <1>4, <2>1, <2>2
      <3> QED BY <2>2, <3>1, <3>2, <3>3
    <2>3. CASE a # m
      <3>1. /\ a \in X /\ a # e /\ a \in Link
            /\ v[a] = IF e \in u[a] THEN (u[a] \ {e}) \cup {m} ELSE u[a]
        BY <1>4, <1>6, <2>3
      <3>2. u[a] = {a} \cup u[c[a]["left"]] \cup u[c[a]["right"]]  BY <2>1, <3>1
      <3> DEFINE k == u[c[a]["left"]]
                 n == u[c[a]["right"]]
      <3>3. /\ v[d[a]["left"]] = IF e \in k THEN (k \ {e}) \cup {m} ELSE k
            /\ v[d[a]["right"]] = IF e \in n THEN (n \ {e}) \cup {m} ELSE n
        BY <1>9, <2>0, <2>3
      <3> HIDE DEF k, n
      <3>4. u[a] = {a} \cup k \cup n  BY <3>2 DEF k, n
      <3> QED BY <3>1, <3>3, <3>4
    <2> QED BY <2>2, <2>3
  <1>14. \A a \in Y : \A x \in Sides : \A z \in v[d[a][x]] : On(x, z, a)
    <2> SUFFICES ASSUME NEW a \in Y, NEW x \in Sides, NEW z \in v[d[a][x]] PROVE On(x, z, a)
      OBVIOUS
    <2>1. CASE a = m
      <3>1. z \in u[c[e][x]]  BY <1>1, <1>8, <2>1
      <3> QED BY <1>1, <2>1, <3>1
    <2>2. CASE a # m
      <3>1. a \in X  BY <1>6, <2>2
      <3>2. z \in u[c[a][x]] \/ (z = m /\ e \in u[c[a][x]])
        <4>1. v[d[a][x]] = IF e \in u[c[a][x]] THEN (u[c[a][x]] \ {e}) \cup {m} ELSE u[c[a][x]]
          BY <1>9, <2>2
        <4> QED BY <4>1
      <3>3. \A f \in u[c[a][x]] : On(x, f, a)  BY <1>1, <3>1 DEF IsTree, X
      <3> QED BY <1>1, <3>1, <3>2, <3>3
    <2> QED BY <2>1, <2>2
  <1>15. IsTree(d, q, v)
    BY <1>3, <1>5, <1>7, <1>10, <1>11, <1>12, <1>13, <1>14 DEF IsTree
  <1> QED BY <1>7, <1>15 DEF X

\* n differs from the tree t, but not in the parent of e; there, f replaces e.
Hung(t, u, e, n, f, r) ==
  /\ Shape(t, u) /\ e \in u[t.root] /\ n \in Tree /\ n.root = t.root /\ f \in Link
  /\ t.parent[e] # Null => \A x \in Sides : n.child[t.parent[e]][x] = t.child[t.parent[e]][x]
  /\ r = Hang(n, t.parent[e], e, f)

LEMMA HungIs ==
  ASSUME ElementsFit, NEW t, NEW u, NEW e, NEW n, NEW f, NEW r, Hung(t, u, e, n, f, r)
  PROVE  /\ r \in Tree /\ r.root = (IF e = t.root THEN f ELSE t.root)
         /\ r.parent = n.parent /\ r.color = n.color
         /\ \A a \in u[t.root] : \A x \in Sides :
              r.child[a][x] = IF t.child[a][x] = e THEN f ELSE n.child[a][x]
         /\ \A a \in TreeElem : a \notin u[t.root] => \A x \in Sides : r.child[a][x] = n.child[a][x]
  <1> DEFINE p == t.parent[e]
             X == u[t.root]
  <1>1. /\ Shape(t, u) /\ e \in X /\ n \in Tree /\ n.root = t.root /\ f \in Link /\ Null \notin TreeElem
        /\ (p # Null => \A x \in Sides : n.child[p][x] = t.child[p][x])
        /\ r = Hang(n, p, e, f) /\ X \subseteq TreeElem
    BY DEF Hung, ElementsFit, Shape, IsTree
  <1>2. /\ e \in TreeElem /\ (p = Null <=> e = t.root)
        /\ (e # t.root => p \in X /\ p \in TreeElem /\ SideOf(t, e, p) \in Sides
                          /\ t.child[p][SideOf(t, e, p)] = e)
        /\ \A a \in X : \A x \in Sides :
             t.child[a][x] = e => e # t.root /\ p = a /\ SideOf(t, e, p) = x
    BY <1>1, ParentIs
  <1> HIDE DEF p, X
  <1>3. p \in Link  BY <1>2 DEF Link
  <1>4. p # Null => SideOf(n, e, p) = SideOf(t, e, p)
    BY <1>1 DEF SideOf, Sides
  <1>5. /\ r \in Tree /\ r.root = (IF p = Null THEN f ELSE n.root)
        /\ r.parent = n.parent /\ r.color = n.color
        /\ \A a \in TreeElem : \A x \in Sides :
             r.child[a][x] = IF a = p /\ x = SideOf(n, e, p) THEN f ELSE n.child[a][x]
    BY ONLY <1>1, <1>3, HangIs
  <1>6. ASSUME NEW a \in X, NEW x \in Sides
        PROVE  r.child[a][x] = IF t.child[a][x] = e THEN f ELSE n.child[a][x]
    <2>1. t.child[a][x] = e <=> p # Null /\ a = p /\ x = SideOf(t, e, p)
      BY <1>2
    <2>2. a \in TreeElem /\ a # Null  BY <1>1
    <2> QED BY <1>4, <1>5, <2>1, <2>2
  <1>7. ASSUME NEW a \in TreeElem, a \notin X, NEW x \in Sides PROVE r.child[a][x] = n.child[a][x]
    <2>1. a # p  BY <1>1, <1>2, <1>7
    <2> QED BY <1>5, <2>1
  <1> QED BY <1>1, <1>2, <1>5, <1>6, <1>7 DEF X

\* Unlink takes an element out of the tree.
UnlinkAt(t, u, m, y, b, r, v) ==
  /\ Shape(t, u) /\ m \in u[t.root] /\ y \in Sides /\ b = t.child[m][y] /\ t.child[m][Other(y)] = Null
  /\ r = Unlink(t, m) /\ v = [a \in Link |-> u[a] \ {m}]

LEMMA UnlinkIs ==
  ASSUME ElementsFit, NEW t, NEW u, NEW m, NEW y, NEW b, NEW r, NEW v,
         UnlinkAt(t, u, m, y, b, r, v)
  PROVE  /\ Shape(r, v) /\ r \in Tree /\ v[r.root] = u[t.root] \ {m} /\ r.color = t.color
         /\ r.root = (IF m = t.root THEN b ELSE t.root)
         /\ \A a \in u[t.root] : a # m =>
              \A x \in Sides : r.child[a][x] = IF t.child[a][x] = m THEN b ELSE t.child[a][x]
         /\ \A a \in u[t.root] : a # m =>
              \A x \in Sides : v[r.child[a][x]] = u[t.child[a][x]] \ {m}
         /\ \A a \in TreeElem : r.parent[a] = IF a = b THEN t.parent[m] ELSE t.parent[a]
  <1> DEFINE X == u[t.root]
             p == t.parent[m]
             n == SetParent(t, b, p)
  <1>1. /\ Shape(t, u) /\ m \in X /\ y \in Sides /\ b = t.child[m][y] /\ t.child[m][Other(y)] = Null
        /\ t \in Tree /\ IsTree(t.child, t.root, u) /\ v = [a \in Link |-> u[a] \ {m}]
        /\ X \subseteq TreeElem /\ Null \notin TreeElem
    BY DEF UnlinkAt, Shape, IsTree, ElementsFit
  <1>2. r = Hang(n, p, m, b)
    <2>1. b = IF t.child[m]["left"] = Null THEN t.child[m]["right"] ELSE t.child[m]["left"]
      <3>1. CASE y = "left"
        <4>1. Other(y) = "right"  BY <3>1 DEF Other
        <4> QED BY <1>1, <3>1, <4>1
      <3>2. CASE y = "right"
        <4>1. Other(y) = "left"  BY <3>2 DEF Other
        <4> QED BY <1>1, <3>2, <4>1
      <3> QED BY <1>1, <3>1, <3>2, SidesAre
    <2>2. r = Unlink(t, m)  BY DEF UnlinkAt
    <2> QED BY <2>1, <2>2 DEF Unlink
  <1>3. /\ m \in TreeElem /\ b \in Link /\ b # m /\ p \in Link /\ (b # Null => b \in X /\ b # t.root)
    <2>1. m \in TreeElem /\ b \in Link /\ (b # Null => b \in X /\ b # m)  BY <1>1, ChildSmaller
    <2>2. p \in Link  BY <1>1, <2>1, TreeFields
    <2>3. b # Null => b # t.root  BY <1>1, OneParent
    <2> QED BY <1>1, <2>1, <2>2, <2>3
  <1>4. /\ n \in Tree /\ n.root = t.root /\ n.child = t.child /\ n.color = t.color
        /\ \A a \in TreeElem : n.parent[a] = IF a = b THEN p ELSE t.parent[a]
    <2> HIDE DEF p
    <2> QED BY SMTT(30), <1>1, <1>3, SetParentIs
  <1> HIDE DEF n
  <1>5. Hung(t, u, m, n, b, r)
    BY <1>1, <1>2, <1>3, <1>4 DEF Hung
  <1>6. /\ r \in Tree /\ r.root = (IF m = t.root THEN b ELSE t.root)
        /\ r.parent = n.parent /\ r.color = n.color
        /\ \A a \in u[t.root] : \A x \in Sides :
             r.child[a][x] = IF t.child[a][x] = m THEN b ELSE n.child[a][x]
    BY <1>5, HungIs
  <1>7. \A a \in X : a # m => \A x \in Sides : r.child[a][x] = IF t.child[a][x] = m THEN b ELSE t.child[a][x]
    BY <1>4, <1>6
  <1>8. /\ IsTree(r.child, r.root, v) /\ v[r.root] = X \ {m}
        /\ \A a \in X : a # m => \A x \in Sides : v[r.child[a][x]] = u[t.child[a][x]] \ {m}
    <2>1. Detached(t.child, t.root, u, m, y, b, r.child, r.root, v)
      BY <1>1, <1>6, <1>7 DEF Detached
    <2> QED BY <2>1, Detach
  <1>9. \A a \in TreeElem : r.parent[a] = IF a = b THEN p ELSE t.parent[a]
    BY <1>4, <1>6
  <1>10. r.root # Null => r.parent[r.root] = Null
    <2>1. CASE m = t.root
      <3>1. p = Null  BY <1>1, <1>3, <2>1 DEF Shape
      <3>2. r.root = b  BY <1>6, <2>1
      <3> QED BY <1>3, <1>9, <3>1, <3>2 DEF Link
    <2>2. CASE m # t.root
      <3>1. r.root = t.root /\ t.root # Null /\ t.root \in TreeElem
        BY <1>1, <1>6, <2>2 DEF IsTree, Link
      <3>2. t.root # b  BY <1>3, <3>1
      <3> QED BY <1>1, <1>9, <3>1, <3>2 DEF Shape
    <2> QED BY <2>1, <2>2
  <1>11. ASSUME NEW a \in X, a # m, NEW x \in Sides, r.child[a][x] # Null
         PROVE  r.parent[r.child[a][x]] = a
    <2>1. CASE t.child[a][x] = m
      <3>1. r.child[a][x] = b /\ b \in TreeElem  BY <1>3, <1>7, <1>11, <2>1 DEF Link
      <3>2. p = a
        <4>1. m # Null  BY <1>1
        <4> QED BY <1>1, <2>1, <4>1 DEF Shape
      <3> QED BY <1>9, <3>1, <3>2
    <2>2. CASE t.child[a][x] # m
      <3>1. r.child[a][x] = t.child[a][x] /\ t.child[a][x] # Null  BY <1>7, <1>11, <2>2
      <3>2. t.child[a][x] \in TreeElem  BY <1>1, <3>1, ChildSmaller DEF Link
      <3>3. t.child[a][x] # b
        <4>1. t.child[a][x] = b => a = m  BY <1>1, <3>1, OneParent
        <4> QED BY <1>11, <4>1
      <3>4. t.parent[t.child[a][x]] = a  BY <1>1, <3>1 DEF Shape
      <3> QED BY <1>9, <3>1, <3>2, <3>3, <3>4
    <2> QED BY <2>1, <2>2
  <1>12. Shape(r, v)
    BY <1>6, <1>8, <1>10, <1>11 DEF Shape
  <1> QED BY <1>4, <1>6, <1>7, <1>8, <1>9, <1>12

\* TakePlace puts m, which is not in the tree, where e is.
TakeAt(t, u, e, m, r, v) ==
  /\ Shape(t, u) /\ e \in u[t.root] /\ m \in TreeElem /\ m \notin u[t.root]
  /\ \A x \in Sides : \A z \in u[t.child[e][x]] : On(x, z, m)
  /\ \A a \in u[t.root] : \A x \in Sides : e \in u[t.child[a][x]] => On(x, m, a)
  /\ r = TakePlace(t, e, m)
  /\ v = [a \in Link |-> IF a = m THEN (u[e] \ {e}) \cup {m}
                         ELSE IF e \in u[a] THEN (u[a] \ {e}) \cup {m} ELSE u[a]]

LEMMA TakePlaceIs ==
  ASSUME ElementsFit, NEW t, NEW u, NEW e, NEW m, NEW r, NEW v, TakeAt(t, u, e, m, r, v)
  PROVE  /\ Shape(r, v) /\ v[r.root] = (u[t.root] \ {e}) \cup {m}
         /\ r.root = (IF e = t.root THEN m ELSE t.root)
         /\ \A x \in Sides : r.child[m][x] = t.child[e][x]
         /\ \A a \in u[t.root] : a # e =>
              \A x \in Sides : r.child[a][x] = IF t.child[a][x] = e THEN m ELSE t.child[a][x]
         /\ r.color \in [TreeElem -> {"red", "black"}]
         /\ \A a \in TreeElem : r.color[a] = IF a = m THEN t.color[e] ELSE t.color[a]
         /\ \A a \in u[t.root] : a # e => r.parent[a] = IF t.parent[a] = e THEN m ELSE t.parent[a]
  <1> DEFINE X == u[t.root]
             n == [t EXCEPT !.child[m] = t.child[e], !.parent[m] = t.parent[e],
                            !.color[m] = t.color[e]]
             t2 == Hang(n, n.parent[e], e, m)
             l == t2.child[e]["left"]
             g == t2.child[e]["right"]
             t3 == SetParent(t2, l, m)
  <1>1. /\ Shape(t, u) /\ e \in X /\ m \in TreeElem /\ m \notin X /\ t \in Tree
        /\ IsTree(t.child, t.root, u) /\ X \subseteq TreeElem /\ Null \notin TreeElem
        /\ e \in TreeElem /\ e # m /\ m \in Link /\ m # Null
        /\ \A x \in Sides : \A z \in u[t.child[e][x]] : On(x, z, m)
        /\ \A a \in X : \A x \in Sides : e \in u[t.child[a][x]] => On(x, m, a)
        /\ v = [a \in Link |-> IF a = m THEN (u[e] \ {e}) \cup {m}
                               ELSE IF e \in u[a] THEN (u[a] \ {e}) \cup {m} ELSE u[a]]
    BY DEF TakeAt, Shape, IsTree, ElementsFit, Link
  <1>2. r = SetParent(t3, g, m)
    <2>1. r = TakePlace(t, e, m)  BY DEF TakeAt
    <2> QED BY Zenon, <2>1 DEF TakePlace
  <1>3. /\ n \in Tree /\ n.root = t.root
        /\ \A a \in TreeElem : \A x \in Sides : n.child[a][x] = IF a = m THEN t.child[e][x] ELSE t.child[a][x]
        /\ \A a \in TreeElem : n.parent[a] = IF a = m THEN t.parent[e] ELSE t.parent[a]
        /\ \A a \in TreeElem : n.color[a] = IF a = m THEN t.color[e] ELSE t.color[a]
    BY <1>1 DEF Tree
  <1> HIDE DEF n
  <1>4. \A a \in X : \A x \in Sides :
          /\ a \in TreeElem /\ a # m /\ t.child[a][x] \in Link /\ t.child[a][x] # a /\ t.child[a][x] # m
          /\ (t.child[a][x] # Null => t.child[a][x] \in X /\ t.child[a][x] # t.root
                                      /\ t.parent[t.child[a][x]] = a)
    <2> SUFFICES ASSUME NEW a \in X, NEW x \in Sides
                 PROVE  /\ a \in TreeElem /\ a # m /\ t.child[a][x] \in Link /\ t.child[a][x] # a
                        /\ t.child[a][x] # m
                        /\ (t.child[a][x] # Null => t.child[a][x] \in X /\ t.child[a][x] # t.root
                                                    /\ t.parent[t.child[a][x]] = a)
      OBVIOUS
    <2>1. /\ a \in TreeElem /\ t.child[a][x] \in Link
          /\ (t.child[a][x] # Null => t.child[a][x] \in X /\ t.child[a][x] # a)
      BY <1>1, ChildSmaller
    <2>2. t.child[a][x] # Null => t.child[a][x] # t.root  BY <1>1, OneParent
    <2>3. t.child[a][x] # Null => t.parent[t.child[a][x]] = a  BY <1>1 DEF Shape
    <2> QED BY <1>1, <2>1, <2>2, <2>3
  <1>5. /\ t.parent[e] = Null <=> e = t.root
        /\ t.parent[e] # Null => t.parent[e] \in X
    BY <1>1, ParentIs
  <1>6. Hung(t, u, e, n, m, t2)
    <2>1. n.parent[e] = t.parent[e]  BY <1>1, <1>3
    <2>2. t.parent[e] # Null => t.parent[e] \in TreeElem /\ t.parent[e] # m  BY <1>1, <1>5
    <2>3. t2 = Hang(n, t.parent[e], e, m)  BY <2>1
    <2> HIDE DEF t2
    <2>4. t.parent[e] # Null => \A x \in Sides : n.child[t.parent[e]][x] = t.child[t.parent[e]][x]
      BY <1>3, <2>2
    <2> QED BY <1>1, <1>3, <2>3, <2>4 DEF Hung
  <1>7. /\ t2 \in Tree /\ t2.root = (IF e = t.root THEN m ELSE t.root)
        /\ t2.parent = n.parent /\ t2.color = n.color
        /\ \A a \in X : \A x \in Sides : t2.child[a][x] = IF t.child[a][x] = e THEN m ELSE n.child[a][x]
        /\ \A a \in TreeElem : a \notin X => \A x \in Sides : t2.child[a][x] = n.child[a][x]
    <2> HIDE DEF t2
    <2> QED BY <1>6, HungIs
  <1> HIDE DEF t2
  <1>8. l = t.child[e]["left"] /\ g = t.child[e]["right"] /\ l \in Link /\ g \in Link
    BY <1>1, <1>3, <1>4, <1>7, SidesAre
  <1>9. /\ t3 \in Tree /\ t3.root = t2.root /\ t3.child = t2.child /\ t3.color = t2.color
        /\ \A a \in TreeElem : t3.parent[a] = IF a = l THEN m ELSE t2.parent[a]
    <2>1. t2 \in Tree /\ l \in Link /\ m \in Link /\ Null \notin TreeElem  BY <1>1, <1>7, <1>8
    <2> HIDE DEF l, X
    <2> QED BY ONLY <2>1, SetParentIs
  <1> HIDE DEF t3
  <1>10. /\ r \in Tree /\ r.root = t2.root /\ r.child = t2.child /\ r.color = t2.color
         /\ \A a \in TreeElem : r.parent[a] = IF a = g THEN m ELSE t3.parent[a]
    <2> HIDE DEF l, g, X
    <2>1. r = SetParent(t3, g, m)  BY <1>2
    <2>2. t3 \in Tree /\ g \in Link /\ m \in Link /\ Null \notin TreeElem  BY <1>1, <1>8, <1>9
    <2>3. /\ r \in Tree /\ r.root = t3.root /\ r.child = t3.child /\ r.color = t3.color
          /\ \A a \in TreeElem : r.parent[a] = IF a = g THEN m ELSE t3.parent[a]
      BY ONLY <2>1, <2>2, SetParentIs
    <2> QED BY <1>9, <2>3
  <1> HIDE DEF l, g
  <1>11. /\ \A x \in Sides : r.child[m][x] = t.child[e][x]
         /\ \A a \in X : a # e => \A x \in Sides : r.child[a][x] = IF t.child[a][x] = e THEN m ELSE t.child[a][x]
    BY <1>1, <1>3, <1>4, <1>7, <1>10
  <1>12. IsTree(r.child, r.root, v) /\ v[r.root] = (X \ {e}) \cup {m}
    <2>1. Replaced(t.child, t.root, u, e, m, r.child, r.root, v)
      BY <1>1, <1>7, <1>10, <1>11 DEF Replaced
    <2> QED BY <2>1, Replace
  <1>13. /\ r.color \in [TreeElem -> {"red", "black"}]
         /\ \A a \in TreeElem : r.color[a] = IF a = m THEN t.color[e] ELSE t.color[a]
    BY <1>3, <1>7, <1>10 DEF Tree
  <1>14. ASSUME NEW a \in X, a # e
         PROVE  r.parent[a] = IF t.parent[a] = e THEN m ELSE t.parent[a]
    <2>1. a \in TreeElem /\ a # m  BY <1>1
    <2>2. r.parent[a] = IF a = l \/ a = g THEN m ELSE t.parent[a]
      BY <1>3, <1>7, <1>9, <1>10, <2>1
    <2>3. a = l \/ a = g => t.parent[a] = e
      BY <1>1, <1>4, <1>8, <2>1, SidesAre
    <2>4. t.parent[a] = e => a = l \/ a = g
      <3> SUFFICES ASSUME t.parent[a] = e PROVE a = l \/ a = g
        OBVIOUS
      <3>1. a # t.root  BY <1>1, <1>14, ParentIs
      <3>2. SideOf(t, a, e) \in Sides /\ t.child[e][SideOf(t, a, e)] = a
        BY <1>1, <3>1, ParentIs
      <3> QED BY <1>8, <3>2, SidesAre
    <2> QED BY <2>2, <2>3, <2>4
  <1>15. r.parent[m] = t.parent[e]
    <2>1. m # l /\ m # g  BY <1>1, <1>4, <1>8, SidesAre
    <2> QED BY <1>1, <1>3, <1>7, <1>9, <1>10, <2>1
  <1>16. r.root # Null => r.parent[r.root] = Null
    <2>1. CASE e = t.root
      BY <1>5, <1>7, <1>10, <1>15, <2>1
    <2>2. CASE e # t.root
      <3>1. t.root \in X /\ t.root # Null /\ t.parent[t.root] = Null
        BY <1>1, <2>2 DEF IsTree, Shape
      <3>2. r.root = t.root /\ r.parent[t.root] = Null
        BY <1>1, <1>7, <1>10, <1>14, <2>2, <3>1
      <3> QED BY <3>2
    <2> QED BY <2>1, <2>2
  <1>17. ASSUME NEW a \in v[r.root], NEW x \in Sides, r.child[a][x] # Null
         PROVE  r.parent[r.child[a][x]] = a
    <2>1. CASE a = m
      <3>1. r.child[a][x] = t.child[e][x]  BY <1>11, <2>1
      <3>2. t.child[e][x] \in X /\ t.child[e][x] # e /\ t.parent[t.child[e][x]] = e
        BY <1>1, <1>4, <1>17, <3>1
      <3> QED BY <1>14, <2>1, <3>1, <3>2
    <2>2. CASE a # m
      <3>1. a \in X /\ a # e  BY <1>12, <2>2
      <3>2. CASE t.child[a][x] = e
        <4>1. t.parent[e] = a  BY <1>1, <1>4, <3>1, <3>2
        <4> QED BY <1>11, <1>15, <3>1, <3>2, <4>1
      <3>3. CASE t.child[a][x] # e
        <4>1. r.child[a][x] = t.child[a][x]  BY <1>11, <3>1, <3>3
        <4>2. t.child[a][x] \in X /\ t.parent[t.child[a][x]] = a
          BY <1>4, <1>17, <3>1, <4>1
        <4> QED BY <1>14, <3>1, <3>3, <4>1, <4>2
      <3> QED BY <3>2, <3>3
    <2> QED BY <2>1, <2>2
  <1>18. Shape(r, v)
    BY <1>10, <1>12, <1>16, <1>17 DEF Shape
  <1> QED BY <1>7, <1>10, <1>11, <1>12, <1>13, <1>14, <1>18 DEF X

\* m, which has the parent p, leaves a tree that keeps the rules.
Leaving(c, r, w, u, h, m, y, b, d, q, v, p, s) ==
  /\ Even(c, r, w, u, h) /\ Detached(c, r, u, m, y, b, d, q, v) /\ s \in Sides
  /\ m # r => p \in u[r] /\ c[p][s] = m

\* A red element leaves no gap, a black one a gap above its child.
LEMMA Leave ==
  ASSUME ElementsFit, NEW c, NEW r, NEW w, NEW u, NEW h, NEW m, NEW y, NEW b, NEW d, NEW q, NEW v,
         NEW p, NEW s, Leaving(c, r, w, u, h, m, y, b, d, q, v, p, s)
  PROVE  IF w[m] = "red" THEN Even(d, q, w, v, h) ELSE Removing(d, q, w, v, h, p, s, b)
  <1> DEFINE X == u[r]
  <1>1. /\ IsTree(c, r, u) /\ w \in [TreeElem -> {"red", "black"}] /\ Level(c, w, X, h, Null, "left")
        /\ \A a \in X : \A x \in Sides : ~(IsRed(w, a) /\ IsRed(w, c[a][x]))
        /\ ~IsRed(w, r) /\ m \in X /\ y \in Sides /\ b = c[m][y] /\ c[m][Other(y)] = Null
        /\ q = (IF m = r THEN b ELSE r) /\ s \in Sides /\ (m # r => p \in X /\ c[p][s] = m)
        /\ \A a \in X : a # m => \A x \in Sides : d[a][x] = IF c[a][x] = m THEN b ELSE c[a][x]
    BY DEF Leaving, Even, Detached
  <1>2. IsTree(d, q, v) /\ v[q] = X \ {m}
    <2>1. Detached(c, r, u, m, y, b, d, q, v)  BY DEF Leaving
    <2> QED BY <2>1, Detach
  <1>3. X \subseteq TreeElem /\ Null \notin TreeElem /\ h \in [Link -> Nat] /\ h[Null] = 0
    BY <1>1 DEF IsTree, Level, ElementsFit
  <1>4. ASSUME NEW a \in X, NEW x \in Sides
        PROVE  /\ a \in TreeElem /\ a # Null /\ c[a][x] \in Link /\ c[a][x] # a /\ h[a] \in Nat
               /\ h[c[a][x]] \in Nat /\ Weight(w, a) \in Nat
               /\ h[a] = h[c[a][x]] + Weight(w, a)
               /\ (c[a][x] # Null => c[a][x] \in X /\ c[a][x] # r)
    <2>1. /\ a \in TreeElem /\ a \in Link /\ c[a][x] \in Link
          /\ (c[a][x] # Null => c[a][x] \in X /\ c[a][x] # a)
      BY <1>1, ChildSmaller
    <2>2. c[a][x] # Null => c[a][x] # r  BY <1>1, OneParent
    <2>3. Lack(a, x, Null, "left") = 0  BY <1>3, <2>1 DEF Lack
    <2>4. h[a] = h[c[a][x]] + Weight(w, a) + Lack(a, x, Null, "left")  BY <1>1 DEF Level
    <2>5. h[a] \in Nat /\ h[c[a][x]] \in Nat /\ Weight(w, a) \in Nat  BY <1>3, <2>1 DEF Weight
    <2> QED BY <1>3, <2>1, <2>2, <2>3, <2>4, <2>5
  <1>5. h[b] = 0 /\ h[m] = Weight(w, m) /\ b \in Link /\ b # m /\ (b # Null => b \in X /\ b # r) /\ m \in TreeElem
    <2>1. Other(y) \in Sides  BY <1>1, SidesAre
    <2>2. h[m] = h[b] + Weight(w, m) /\ h[b] \in Nat /\ Weight(w, m) \in Nat
      BY <1>1, <1>4
    <2>3. h[m] = h[Null] + Weight(w, m)  BY <1>1, <1>4, <2>1
    <2>4. b \in Link /\ b # m /\ (b # Null => b \in X /\ b # r) /\ m \in TreeElem  BY <1>1, <1>4
    <2> QED BY <1>3, <2>2, <2>3, <2>4
  <1> HIDE DEF X
  <1>6. ASSUME NEW a \in v[q], NEW x \in Sides
        PROVE  /\ a \in X /\ a # m /\ a \in TreeElem /\ a # Null
               /\ h[a] = h[d[a][x]] + Weight(w, a) + (IF c[a][x] = m THEN Weight(w, m) ELSE 0)
               /\ (IsRed(w, a) /\ IsRed(w, d[a][x]) => c[a][x] = m /\ d[a][x] = b)
    <2>1. a \in X /\ a # m  BY <1>2
    <2>2. /\ h[a] = h[c[a][x]] + Weight(w, a) /\ a \in TreeElem /\ a # Null
          /\ h[a] \in Nat /\ h[c[a][x]] \in Nat /\ Weight(w, a) \in Nat
      BY <1>4, <2>1
    <2>3. d[a][x] = IF c[a][x] = m THEN b ELSE c[a][x]  BY <1>1, <2>1
    <2>4. CASE c[a][x] = m
      <3>1. Weight(w, m) \in Nat  BY DEF Weight
      <3> QED BY <1>5, <2>1, <2>2, <2>3, <2>4, <3>1
    <2>5. CASE c[a][x] # m
      <3>1. ~(IsRed(w, a) /\ IsRed(w, c[a][x]))  BY <1>1, <2>1
      <3> QED BY <2>1, <2>2, <2>3, <2>5, <3>1
    <2> QED BY <2>4, <2>5
  <1>7. CASE w[m] = "red"
    <2>1. Weight(w, m) = 0 /\ m # r /\ q = r
      BY <1>1, <1>3, <1>5, <1>7 DEF Weight, IsRed
    <2>2. ASSUME NEW a \in v[q], NEW x \in Sides
          PROVE  /\ h[a] = h[d[a][x]] + Weight(w, a) + Lack(a, x, Null, "left")
                 /\ ~(IsRed(w, a) /\ IsRed(w, d[a][x]))
      <3>1. Lack(a, x, Null, "left") = 0  BY <1>6, <2>2 DEF Lack
      <3>2. h[a] = h[d[a][x]] + Weight(w, a) + (IF c[a][x] = m THEN Weight(w, m) ELSE 0)
        BY <1>6, <2>2
      <3>3. ~(IsRed(w, a) /\ IsRed(w, d[a][x]))
        <4> SUFFICES ASSUME IsRed(w, a), IsRed(w, d[a][x]) PROVE FALSE
          OBVIOUS
        <4>1. c[a][x] = m /\ a \in X  BY <1>6, <2>2
        <4>2. IsRed(w, m)  BY <1>3, <1>5, <1>7 DEF IsRed
        <4> QED BY <1>1, <4>1, <4>2
      <3> QED BY <2>1, <3>1, <3>2, <3>3
    <2>3. Level(d, w, v[q], h, Null, "left")  BY <1>3, <2>2 DEF Level
    <2>4. Even(d, q, w, v, h)  BY <1>1, <1>2, <2>1, <2>2, <2>3 DEF Even
    <2> QED BY <1>7, <2>4
  <1>8. CASE w[m] # "red"
    <2>1. Weight(w, m) = 1  BY <1>1, <1>5, <1>8 DEF Weight
    <2>2. CASE m = r
      <3>1. \A a \in v[q] : \A x \in Sides : c[a][x] # m
        <4> SUFFICES ASSUME NEW a \in v[q], NEW x \in Sides, c[a][x] = m PROVE FALSE
          OBVIOUS
        <4>1. a \in X  BY <1>6
        <4> QED BY <1>3, <1>4, <1>5, <2>2, <4>1
      <3>2. ASSUME NEW a \in v[q], NEW x \in Sides
            PROVE  h[a] = h[d[a][x]] + Weight(w, a) + Lack(a, x, Null, "left")
        <4>1. Lack(a, x, Null, "left") = 0  BY <1>6, <3>2 DEF Lack
        <4>2. h[a] = h[d[a][x]] + Weight(w, a) + (IF c[a][x] = m THEN Weight(w, m) ELSE 0)
          BY <1>6, <3>2
        <4> QED BY <3>1, <4>1, <4>2
      <3>3. Level(d, w, v[q], h, Null, "left")  BY <1>3, <3>2 DEF Level
      <3>4. q = b  BY <1>1, <2>2
      <3>5. Removing(d, q, w, v, h, p, s, b)
        BY <1>1, <1>2, <1>5, <1>6, <3>3, <3>4 DEF Removing
      <3> QED BY <1>8, <3>5
    <2>3. CASE m # r
      <3>1. p \in X /\ c[p][s] = m /\ q = r /\ b # r
        <4>1. r # Null  BY <1>1, <1>3 DEF IsTree, X
        <4> QED BY <1>1, <1>5, <2>3, <4>1
      <3>2. p \in v[q] /\ d[p][s] = b
        <4>1. p # m  BY <1>1, <1>4, <3>1
        <4> QED BY <1>1, <1>2, <3>1, <4>1
      <3>3. ASSUME NEW a \in v[q], NEW x \in Sides
            PROVE  h[a] = h[d[a][x]] + Weight(w, a) + Lack(a, x, p, s)
        <4>1. a \in X /\ h[a] = h[d[a][x]] + Weight(w, a) + (IF c[a][x] = m THEN Weight(w, m) ELSE 0)
          BY <1>6, <3>3
        <4>2. c[a][x] = m => a = p /\ x = s
          <5>1. m # Null  BY <1>3, <1>5
          <5> QED BY <1>1, <3>1, <4>1, <5>1, OneParent DEF X
        <4>3. Lack(a, x, p, s) = (IF c[a][x] = m THEN 1 ELSE 0)
          BY <3>1, <4>2 DEF Lack
        <4> QED BY <2>1, <4>1, <4>3
      <3>4. Level(d, w, v[q], h, p, s)  BY <1>3, <3>3 DEF Level
      <3>5. Removing(d, q, w, v, h, p, s, b)
        BY <1>1, <1>2, <1>5, <1>6, <3>1, <3>2, <3>4 DEF Removing
      <3> QED BY <1>8, <3>5
    <2> QED BY <2>2, <2>3
  <1> QED BY <1>7, <1>8

\* m takes the place and the colour of e.
Renamed(c, r, w, u, h, e, m, d, q, v, z, k) ==
  /\ Replaced(c, r, u, e, m, d, q, v) /\ w \in [TreeElem -> {"red", "black"}]
  /\ z \in [TreeElem -> {"red", "black"}] /\ \A a \in TreeElem : z[a] = IF a = m THEN w[e] ELSE w[a]
  /\ k = [h EXCEPT ![m] = h[e]]

\* The gap stays where it is.
LEMMA Rename ==
  ASSUME ElementsFit, NEW c, NEW r, NEW w, NEW u, NEW h, NEW e, NEW m, NEW d, NEW q, NEW v,
         NEW z, NEW k, Renamed(c, r, w, u, h, e, m, d, q, v, z, k),
         NEW p \in Link, NEW n, n = (IF p = e THEN m ELSE p), NEW s, NEW f, f # e, f # m
  PROVE  /\ Even(c, r, w, u, h) => Even(d, q, z, v, k)
         /\ Removing(c, r, w, u, h, p, s, f) => Removing(d, q, z, v, k, n, s, f)
  <1> DEFINE X == u[r]
             Old(a) == IF a = m THEN e ELSE a
  <1>1. /\ IsTree(c, r, u) /\ e \in X /\ m \in TreeElem /\ m \notin X
        /\ q = (IF e = r THEN m ELSE r)
        /\ \A x \in Sides : d[m][x] = c[e][x]
        /\ \A a \in X : a # e => \A x \in Sides : d[a][x] = IF c[a][x] = e THEN m ELSE c[a][x]
        /\ w \in [TreeElem -> {"red", "black"}] /\ z \in [TreeElem -> {"red", "black"}]
        /\ \A a \in TreeElem : z[a] = IF a = m THEN w[e] ELSE w[a]
        /\ k = [h EXCEPT ![m] = h[e]]
    BY DEF Renamed, Replaced
  <1>2. IsTree(d, q, v) /\ v[q] = (X \ {e}) \cup {m}
    <2>1. Replaced(c, r, u, e, m, d, q, v)  BY DEF Renamed
    <2> QED BY <2>1, Replace
  <1>3. /\ X \subseteq TreeElem /\ Null \notin TreeElem /\ e \in TreeElem /\ e # m /\ r \in X /\ r \in TreeElem
    BY <1>1 DEF IsTree, ElementsFit
  <1>4. ASSUME NEW a \in X, NEW x \in Sides
        PROVE  c[a][x] \in Link /\ c[a][x] # a /\ c[a][x] # m /\ (c[a][x] # Null => c[a][x] \in X)
    <2>1. c[a][x] \in Link /\ (c[a][x] # Null => c[a][x] \in X /\ c[a][x] # a)
      BY <1>1, ChildSmaller
    <2> QED BY <1>1, <1>3, <2>1
  <1> HIDE DEF X
  <1>5. ASSUME NEW a \in v[q], NEW x \in Sides
        PROVE  /\ Old(a) \in X /\ d[a][x] = IF c[Old(a)][x] = e THEN m ELSE c[Old(a)][x]
               /\ z[a] = w[Old(a)] /\ a \in TreeElem /\ a # e
               /\ (IsRed(z, a) => IsRed(w, Old(a)))
               /\ (IsRed(z, d[a][x]) => IsRed(w, c[Old(a)][x]))
    <2>1. Old(a) \in X /\ a \in TreeElem /\ a # e  BY <1>1, <1>2, <1>3
    <2>2. d[a][x] = IF c[Old(a)][x] = e THEN m ELSE c[Old(a)][x]
      <3>1. c[e][x] # e  BY <1>1, <1>4
      <3> QED BY <1>1, <1>2, <3>1
    <2>3. z[a] = w[Old(a)]  BY <1>1, <2>1
    <2>4. IsRed(z, a) => IsRed(w, Old(a))  BY <1>3, <2>1, <2>3 DEF IsRed
    <2> HIDE DEF Old
    <2>5. c[Old(a)][x] \in Link /\ c[Old(a)][x] # m  BY <1>4, <2>1
    <2>6. IsRed(z, d[a][x]) => IsRed(w, c[Old(a)][x])
      BY <1>1, <1>3, <2>2, <2>5 DEF IsRed, Link
    <2> QED BY <2>1, <2>2, <2>3, <2>4, <2>6
  <1>6. ASSUME NEW g, NEW j, NEW y, Level(c, w, X, h, g, y), j = (IF g = e THEN m ELSE g), g # m
        PROVE  Level(d, z, v[q], k, j, y)
    <2>1. /\ h \in [Link -> Nat] /\ h[Null] = 0
          /\ \A a \in X : \A x \in Sides : h[a] = h[c[a][x]] + Weight(w, a) + Lack(a, x, g, y)
      BY <1>6 DEF Level
    <2>2. /\ k \in [Link -> Nat] /\ k[Null] = 0 /\ k[m] = h[e]
          /\ \A a \in Link : a # m => k[a] = h[a]
      BY <1>1, <1>3, <2>1 DEF Link
    <2>3. ASSUME NEW a \in v[q], NEW x \in Sides
          PROVE  k[a] = k[d[a][x]] + Weight(z, a) + Lack(a, x, j, y)
      <3>1. Old(a) \in X /\ d[a][x] = (IF c[Old(a)][x] = e THEN m ELSE c[Old(a)][x])
            /\ z[a] = w[Old(a)] /\ a \in TreeElem /\ a # e
        BY <1>5, <2>3
      <3>2. k[a] = h[Old(a)]  BY <2>2, <3>1 DEF Link
      <3>3. Weight(z, a) = Weight(w, Old(a))
        <4> HIDE DEF Old
        <4> QED BY <3>1 DEF Weight
      <3>4. Lack(a, x, j, y) = Lack(Old(a), x, g, y)
        BY <1>6, <3>1 DEF Lack
      <3> HIDE DEF Old
      <3>5. c[Old(a)][x] \in Link /\ c[Old(a)][x] # m  BY <1>4, <3>1
      <3>6. k[d[a][x]] = h[c[Old(a)][x]]  BY <2>2, <3>1, <3>5
      <3>7. h[Old(a)] = h[c[Old(a)][x]] + Weight(w, Old(a)) + Lack(Old(a), x, g, y)
        BY <2>1, <3>1
      <3> QED BY <3>2, <3>3, <3>4, <3>6, <3>7
    <2> QED BY <2>2, <2>3 DEF Level
  <1>7. IsRed(z, q) => IsRed(w, r)
    BY <1>1, <1>3 DEF IsRed
  <1>8. ASSUME Even(c, r, w, u, h) PROVE Even(d, q, z, v, k)
    <2>1. /\ Level(c, w, X, h, Null, "left") /\ ~IsRed(w, r)
          /\ \A a \in X : \A x \in Sides : ~(IsRed(w, a) /\ IsRed(w, c[a][x]))
      BY <1>8 DEF Even, X
    <2>2. Level(d, z, v[q], k, Null, "left")
      <3>1. Null # m /\ Null = (IF Null = e THEN m ELSE Null)  BY <1>1, <1>3
      <3> QED BY <1>6, <2>1, <3>1
    <2>3. \A a \in v[q] : \A x \in Sides : ~(IsRed(z, a) /\ IsRed(z, d[a][x]))
      <3> HIDE DEF Old
      <3> QED BY <1>5, <2>1
    <2> QED BY <1>1, <1>2, <1>7, <2>1, <2>2, <2>3 DEF Even
  <1>9. ASSUME Removing(c, r, w, u, h, p, s, f) PROVE Removing(d, q, z, v, k, n, s, f)
    <2>1. /\ f \in Link
          /\ (f # r => p \in X /\ s \in Sides /\ c[p][s] = f /\ Level(c, w, X, h, p, s))
          /\ (f = r => Level(c, w, X, h, Null, "left"))
          /\ \A a \in X : \A x \in Sides : IsRed(w, a) /\ IsRed(w, c[a][x]) => a = f \/ c[a][x] = f
          /\ (IsRed(w, r) => r = f)
      BY <1>9 DEF Removing, X
    <2>2. f = r <=> f = q  BY <1>1
    <2>3. ASSUME f # q PROVE n \in v[q] /\ s \in Sides /\ d[n][s] = f /\ Level(d, z, v[q], k, n, s)
      <3>1. f # r /\ p \in X /\ s \in Sides /\ c[p][s] = f /\ Level(c, w, X, h, p, s) /\ p # m
        BY <1>1, <2>1, <2>2, <2>3
      <3>2. n \in v[q]  BY <1>2, <3>1
      <3>3. d[n][s] = f  BY <1>1, <3>1
      <3>4. Level(d, z, v[q], k, n, s)  BY <1>6, <3>1
      <3> QED BY <3>1, <3>2, <3>3, <3>4
    <2>4. ASSUME f = q PROVE Level(d, z, v[q], k, Null, "left")
      <3>1. Null # m /\ Null = (IF Null = e THEN m ELSE Null)  BY <1>1, <1>3
      <3> QED BY <1>6, <2>1, <2>2, <2>4, <3>1
    <2>5. ASSUME NEW a \in v[q], NEW x \in Sides, IsRed(z, a), IsRed(z, d[a][x])
          PROVE  a = f \/ d[a][x] = f
      <3>1. /\ Old(a) \in X /\ d[a][x] = (IF c[Old(a)][x] = e THEN m ELSE c[Old(a)][x])
            /\ IsRed(w, Old(a)) /\ IsRed(w, c[Old(a)][x])
        <4> HIDE DEF Old
        <4> QED BY <1>5, <2>5
      <3>2. Old(a) = f \/ c[Old(a)][x] = f
        <4> HIDE DEF Old
        <4> QED BY <2>1, <3>1
      <3> QED BY <3>1, <3>2
    <2>6. IsRed(z, q) => q = f  BY <1>7, <2>1, <2>2
    <2> QED BY <1>1, <1>2, <2>1, <2>3, <2>4, <2>5, <2>6 DEF Removing
  <1> QED BY <1>8, <1>9

\* The fields of e, which is not in the tree, do not matter.
Cleared(t, u, h, e, r) ==
  /\ Shape(t, u) /\ Even(t.child, t.root, t.color, u, h) /\ e \in TreeElem /\ e \notin u[t.root]
  /\ r = [t EXCEPT !.child[e] = NoChild, !.parent[e] = Null, !.color[e] = "black"]

LEMMA Clear ==
  ASSUME ElementsFit, NEW t, NEW u, NEW h, NEW e, NEW r, Cleared(t, u, h, e, r)
  PROVE  Shape(r, u) /\ Even(r.child, r.root, r.color, u, h) /\ r.root = t.root
  <1> DEFINE X == u[t.root]
             c == t.child
             w == t.color
             d == r.child
             z == r.color
  <1>1. /\ Shape(t, u) /\ t \in Tree /\ IsTree(c, t.root, u) /\ e \in TreeElem /\ e \notin X
        /\ X \subseteq TreeElem /\ Null \notin TreeElem /\ t.root \in Link /\ (t.root # Null => t.root \in X)
        /\ (t.root # Null => t.parent[t.root] = Null)
        /\ \A a \in X : \A x \in Sides : c[a][x] # Null => t.parent[c[a][x]] = a
    BY DEF Cleared, Shape, IsTree, ElementsFit
  <1>2. /\ w \in [TreeElem -> {"red", "black"}] /\ Level(c, w, X, h, Null, "left") /\ ~IsRed(w, t.root)
        /\ \A a \in X : \A x \in Sides : ~(IsRed(w, a) /\ IsRed(w, c[a][x]))
    BY DEF Cleared, Even
  <1>3. /\ r \in Tree /\ r.root = t.root /\ z \in [TreeElem -> {"red", "black"}]
        /\ \A a \in TreeElem : a # e => r.parent[a] = t.parent[a] /\ d[a] = c[a] /\ z[a] = w[a]
    <2>1. NoChild \in [Sides -> Link]  BY DEF NoChild, Link
    <2>2. r = [t EXCEPT !.child[e] = NoChild, !.parent[e] = Null, !.color[e] = "black"]
      BY DEF Cleared
    <2> QED BY <1>1, <2>1, <2>2 DEF Tree, Link
  <1> HIDE DEF X, d, z, c, w
  <1>4. \A a \in X : a \in TreeElem /\ d[a] = c[a] /\ z[a] = w[a] /\ r.parent[a] = t.parent[a]
    BY <1>1, <1>3
  <1>5. \A a \in X : \A x \in Sides : c[a][x] # Null => c[a][x] \in X
    BY <1>1, ChildSmaller DEF X
  <1>6. IsTree(d, r.root, u)
    BY <1>1, <1>3, <1>4 DEF IsTree, X
  <1>7. Shape(r, u)
    <2>1. r.root # Null => r.parent[r.root] = Null  BY <1>1, <1>3, <1>4
    <2>2. \A a \in u[r.root] : \A x \in Sides : d[a][x] # Null => r.parent[d[a][x]] = a
      BY <1>1, <1>3, <1>4, <1>5 DEF X
    <2> QED BY <1>3, <1>6, <2>1, <2>2 DEF Shape, d
  <1>8. Level(d, z, u[r.root], h, Null, "left")
    <2>1. /\ h \in [Link -> Nat] /\ h[Null] = 0
          /\ \A a \in X : \A x \in Sides : h[a] = h[c[a][x]] + Weight(w, a) + Lack(a, x, Null, "left")
      BY <1>2 DEF Level
    <2>2. \A a \in X : Weight(z, a) = Weight(w, a)  BY <1>4 DEF Weight
    <2>3. \A a \in X : \A x \in Sides : h[a] = h[d[a][x]] + Weight(z, a) + Lack(a, x, Null, "left")
      BY <1>4, <2>1, <2>2
    <2> QED BY <1>3, <2>1, <2>3 DEF Level, X
  <1>9. \A a \in u[r.root] : \A x \in Sides : ~(IsRed(z, a) /\ IsRed(z, d[a][x]))
    BY <1>2, <1>3, <1>4, <1>5 DEF X, IsRed
  <1>10. ~IsRed(z, r.root)
    BY <1>1, <1>2, <1>3, <1>4 DEF IsRed
  <1>11. Even(d, r.root, z, u, h)
    BY <1>3, <1>6, <1>8, <1>9, <1>10 DEF Even
  <1> QED BY <1>3, <1>7, <1>11 DEF d, z

\* The element that Removed unlinks, and where it hangs.
Leaver(t, e) == IF \E s \in Sides : t.child[e][s] = Null THEN e
                  ELSE Outermost(t, t.child[e]["right"], "left")

LEMMA LeaverIs ==
  ASSUME ElementsFit, NEW t, NEW u, Shape(t, u), NEW e \in u[t.root], NEW m, m = Leaver(t, e)
  PROVE  /\ m \in u[t.root] /\ m \in u[e]
         /\ \E y \in Sides : t.child[m][y] = Null
         /\ m # e => /\ \A z \in u[e] : z # e /\ z # m => \A x \in Sides : On(x, z, e) => On(x, z, m)
                     /\ \A x \in Sides : t.child[e][x] # Null
  <1>1. IsTree(t.child, t.root, u) /\ e \in u[e] /\ e \in TreeElem /\ u[e] \subseteq u[t.root] /\ u[e] \subseteq TreeElem
    BY DEF Shape, IsTree
  <1>2. CASE \E s \in Sides : t.child[e][s] = Null
    BY <1>1, <1>2 DEF Leaver
  <1>3. CASE ~ \E s \in Sides : t.child[e][s] = Null
    <2> DEFINE g == t.child[e]["right"]
               l == t.child[e]["left"]
    <2>1. m = Outermost(t, g, "left")  BY <1>3 DEF Leaver
    <2>2. g # Null /\ g \in u[t.root] /\ u[g] \subseteq u[e] /\ e \notin u[g]
      BY <1>1, <1>3, ChildSmaller, SidesAre
    <2>3. u[e] = {e} \cup u[l] \cup u[g]  BY <1>1 DEF IsTree
    <2>4. (\A z \in u[l] : On("left", z, e)) /\ (\A z \in u[g] : On("right", z, e))
      BY <1>1, SidesAre DEF IsTree
    <2> HIDE DEF g, l
    <2>5. m \in u[g] /\ t.child[m]["left"] = Null /\ \A z \in u[g] : z # m => On("right", z, m)
      <3>1. "left" \in Sides /\ Other("left") = "right"  BY SidesAre DEF Other
      <3>2. IsTree(t.child, t.root, u) /\ g \in u[t.root]  BY <1>1, <2>2
      <3>3. \A r, v : IsTree(t.child, r, v) => \A a \in v[r] : \A x \in Sides :
              /\ Outermost(t, a, x) \in v[a] /\ t.child[Outermost(t, a, x)][x] = Null
              /\ \A z \in v[a] : z # Outermost(t, a, x) => On(Other(x), z, Outermost(t, a, x))
        BY ZenonT(60), OutermostIs
      <3>4. /\ Outermost(t, g, "left") \in u[g] /\ t.child[Outermost(t, g, "left")]["left"] = Null
            /\ \A z \in u[g] : z # Outermost(t, g, "left") =>
                 On("right", z, Outermost(t, g, "left"))
        BY <3>1, <3>2, <3>3
      <3> QED BY <2>1, <3>4
    <2>6. ASSUME NEW z \in u[e], z # e, z # m, NEW x \in Sides, On(x, z, e)
          PROVE  On(x, z, m)
      <3>1. z \in TreeElem /\ m \in TreeElem /\ Other("left") = "right" /\ Other("right") = "left"
        BY <1>1, <2>2, <2>5 DEF Other
      <3>2. CASE z \in u[l]
        <4>1. On("left", z, e) /\ On("right", m, e)  BY <2>4, <2>5, <3>2
        <4>2. On("left", e, m)  BY <1>1, <3>1, <4>1, OnIsOrder, SidesAre
        <4>3. On("left", z, m)  BY <1>1, <3>1, <4>1, <4>2, OnIsOrder, SidesAre
        <4>4. x = "left"  BY <1>1, <2>6, <3>1, <4>1, OnIsOrder, SidesAre
        <4> QED BY <4>3, <4>4
      <3>3. CASE z \in u[g]
        <4>1. On("right", z, e) /\ On("right", z, m)  BY <2>4, <2>5, <2>6, <3>3
        <4>2. x = "right"  BY <1>1, <2>6, <3>1, <4>1, OnIsOrder, SidesAre
        <4> QED BY <4>1, <4>2
      <3> QED BY <2>3, <2>6, <3>2, <3>3
    <2>7. \E y \in Sides : t.child[m][y] = Null  BY <2>5, SidesAre
    <2> QED BY <1>1, <1>3, <2>2, <2>5, <2>6, <2>7
  <1> QED BY <1>2, <1>3

\* The colours of t are restored, which gives r.
Restoring(t, u, h, p, s, e, r) ==
  /\ Shape(t, u) /\ u[t.root] # TreeElem /\ p \in Link
  /\ Removing(t.child, t.root, t.color, u, h, p, s, e) /\ r = RemoveColor(t, p, e)

LEMMA Restore ==
  ASSUME ElementsFit, NEW t, NEW u, NEW h, NEW p, NEW s, NEW e, NEW r,
         Restoring(t, u, h, p, s, e, r)
  PROVE  \E v, k : Shape(r, v) /\ Even(r.child, r.root, r.color, v, k) /\ v[r.root] = u[t.root]
  <1>1. /\ Shape(t, u) /\ u[t.root] # TreeElem /\ p \in Link
        /\ Removing(t.child, t.root, t.color, u, h, p, s, e) /\ r = RemoveColor(t, p, e)
    BY DEF Restoring
  <1> QED BY <1>1, RemoveColorIs

\* RB_REMOVE, up to the fields of the element itself.
LEMMA RemovedIs ==
  ASSUME ElementsFit, NEW t, NEW u, Shape(t, u), NEW h, Even(t.child, t.root, t.color, u, h),
         NEW e \in u[t.root], NEW r, r = Removed(t, e)
  PROVE  \E v, k : Shape(r, v) /\ Even(r.child, r.root, r.color, v, k) /\ v[r.root] = u[t.root] \ {e}
  <1> DEFINE X  == u[t.root]
             m  == Leaver(t, e)
             y  == IF t.child[m]["left"] = Null THEN "right" ELSE "left"
             b  == IF t.child[m]["left"] = Null THEN t.child[m]["right"] ELSE t.child[m]["left"]
             p0 == t.parent[m]
             p  == IF t.parent[m] = e THEN m ELSE t.parent[m]
             s  == SideOf(t, m, p0)
             t1 == Unlink(t, m)
             t2 == IF m = e THEN t1 ELSE TakePlace(t1, e, m)
             v1 == [a \in Link |-> u[a] \ {m}]
             v2 == [a \in Link |-> IF a = m THEN (v1[e] \ {e}) \cup {m}
                                   ELSE IF e \in v1[a] THEN (v1[a] \ {e}) \cup {m} ELSE v1[a]]
             k2 == [h EXCEPT ![m] = h[e]]
             Fits(v, k) == /\ Shape(t2, v) /\ v[t2.root] = X \ {e}
                           /\ IF t.color[m] = "red" THEN Even(t2.child, t2.root, t2.color, v, k)
                              ELSE Removing(t2.child, t2.root, t2.color, v, k, p, s, b)
  <1>1. r = IF t.color[m] = "red" THEN t2 ELSE RemoveColor(t2, p, b)
    <2>1. r = Removed(t, e)  OBVIOUS
    <2> QED BY Zenon, <2>1 DEF Removed, Leaver
  <1>2. /\ IsTree(t.child, t.root, u) /\ X \subseteq TreeElem /\ Null \notin TreeElem /\ e \in X /\ t \in Tree
        /\ \A a \in X : a \in u[a] /\ a \in TreeElem /\ a # Null /\ a \in Link
    BY DEF Shape, IsTree, ElementsFit, Link
  <1>3. /\ m \in X /\ m \in u[e] /\ (\E x \in Sides : t.child[m][x] = Null)
        /\ m # e => /\ \A z \in u[e] : z # e /\ z # m => \A x \in Sides : On(x, z, e) => On(x, z, m)
                    /\ \A x \in Sides : t.child[e][x] # Null
    <2>1. \A n : n = Leaver(t, e) =>
            /\ n \in X /\ n \in u[e] /\ (\E x \in Sides : t.child[n][x] = Null)
            /\ n # e => /\ \A z \in u[e] : z # e /\ z # n => \A x \in Sides : On(x, z, e) => On(x, z, n)
                        /\ \A x \in Sides : t.child[e][x] # Null
      BY LeaverIs
    <2> QED BY <2>1
  <1> HIDE DEF m
  <1>4. y \in Sides /\ b = t.child[m][y] /\ t.child[m][Other(y)] = Null
    BY <1>3, SidesAre DEF Other
  <1>5. /\ p0 \in Link /\ p0 # m /\ s \in Sides
        /\ (m # t.root => p0 \in X /\ t.child[p0][s] = m)
    <2>1. /\ p0 = Null <=> m = t.root
          /\ (m # t.root => p0 \in X /\ p0 \in TreeElem /\ p0 # m /\ t.child[p0][s] = m)
      BY <1>3, ParentIs
    <2>2. s \in Sides  BY DEF SideOf, Sides
    <2> QED BY <1>2, <1>3, <2>1, <2>2 DEF Link
  <1> HIDE DEF y, b, p0, s, t1, v1
  <1>6. UnlinkAt(t, u, m, y, b, t1, v1)
    BY <1>3, <1>4 DEF UnlinkAt, t1, v1
  <1>7. /\ Shape(t1, v1) /\ t1 \in Tree /\ v1[t1.root] = X \ {m} /\ t1.color = t.color
        /\ t1.root = (IF m = t.root THEN b ELSE t.root)
        /\ \A a \in X : a # m =>
             \A x \in Sides : t1.child[a][x] = IF t.child[a][x] = m THEN b ELSE t.child[a][x]
        /\ \A a \in X : a # m => \A x \in Sides : v1[t1.child[a][x]] = u[t.child[a][x]] \ {m}
    BY ONLY ElementsFit, <1>6, UnlinkIs
  <1>8. IF t.color[m] = "red" THEN Even(t1.child, t1.root, t1.color, v1, h)
                              ELSE Removing(t1.child, t1.root, t1.color, v1, h, p0, s, b)
    <2>1. Detached(t.child, t.root, u, m, y, b, t1.child, t1.root, v1)
      BY <1>2, <1>3, <1>4, <1>7 DEF Detached, v1
    <2>2. Leaving(t.child, t.root, t.color, u, h, m, y, b, t1.child, t1.root, v1, p0, s)
      BY <1>5, <2>1 DEF Leaving
    <2>3. IF t.color[m] = "red" THEN Even(t1.child, t1.root, t.color, v1, h)
                                ELSE Removing(t1.child, t1.root, t.color, v1, h, p0, s, b)
      BY ONLY ElementsFit, <2>2, Leave
    <2> QED BY <1>7, <2>3
  <1>9. \E v, k : Fits(v, k)
    <2>1. CASE m = e
      <3>1. t2 = t1  BY <2>1
      <3>2. p = p0  BY <1>5, <2>1 DEF p0
      <3>3. Fits(v1, h)  BY <1>7, <1>8, <2>1, <3>1, <3>2
      <3> QED BY <3>3
    <2>2. CASE m # e
      <3> HIDE DEF v2, k2
      <3>1. t2 = TakePlace(t1, e, m)  BY <2>2
      <3> HIDE DEF t2
      <3>2. e \in v1[t1.root] /\ m \notin v1[t1.root] /\ e \in TreeElem /\ m \in TreeElem
        BY <1>2, <1>3, <1>7, <2>2
      <3>3. ASSUME NEW x \in Sides, NEW z \in v1[t1.child[e][x]] PROVE On(x, z, m)
        <4>1. z \in u[t.child[e][x]] /\ z # m  BY <1>2, <1>7, <2>2, <3>3
        <4>2. z \in u[e] /\ z # e  BY <1>2, <4>1, ChildSmaller
        <4>3. On(x, z, e)  BY <1>2, <4>1 DEF IsTree
        <4> QED BY <1>3, <2>2, <4>1, <4>2, <4>3
      <3>4. ASSUME NEW a \in v1[t1.root], NEW x \in Sides, e \in v1[t1.child[a][x]] PROVE On(x, m, a)
        <4>1. a \in X /\ a # m  BY <1>7
        <4>2. e \in u[t.child[a][x]]  BY <1>7, <3>4, <4>1
        <4>3. t.child[a][x] \in X
          <5>1. t.child[a][x] # Null  BY <1>2, <4>2 DEF IsTree
          <5> QED BY <1>2, <4>1, <5>1, ChildSmaller
        <4>4. u[e] \subseteq u[t.child[a][x]]  BY <1>2, <4>2, <4>3 DEF IsTree
        <4> QED BY <1>2, <1>3, <4>1, <4>4 DEF IsTree
      <3>5. TakeAt(t1, v1, e, m, t2, v2)
        BY <1>7, <3>1, <3>2, <3>3, <3>4 DEF TakeAt, v2
      <3>6. /\ Shape(t2, v2) /\ v2[t2.root] = (v1[t1.root] \ {e}) \cup {m}
            /\ t2.root = (IF e = t1.root THEN m ELSE t1.root)
            /\ \A x \in Sides : t2.child[m][x] = t1.child[e][x]
            /\ \A a \in v1[t1.root] : a # e =>
                 \A x \in Sides : t2.child[a][x] = IF t1.child[a][x] = e THEN m ELSE t1.child[a][x]
            /\ t2.color \in [TreeElem -> {"red", "black"}]
            /\ \A a \in TreeElem : t2.color[a] = IF a = m THEN t1.color[e] ELSE t1.color[a]
        BY ONLY ElementsFit, <3>5, TakePlaceIs
      <3>7. v2[t2.root] = X \ {e}  BY <1>3, <1>7, <2>2, <3>6
      <3>8. Renamed(t1.child, t1.root, t1.color, v1, h, e, m, t2.child, t2.root, v2, t2.color, k2)
        <4>1. IsTree(t1.child, t1.root, v1)  BY <1>7 DEF Shape
        <4>2. Replaced(t1.child, t1.root, v1, e, m, t2.child, t2.root, v2)
          BY <3>2, <3>3, <3>4, <3>6, <4>1 DEF Replaced, v2
        <4>3. t1.color \in [TreeElem -> {"red", "black"}]  BY <1>7 DEF Tree
        <4> QED BY <3>6, <4>2, <4>3 DEF Renamed, k2
      <3>9. b # e /\ b # m
        <4>1. b # Null => b # m /\ m \notin u[b]
          BY <1>2, <1>3, <1>4, ChildSmaller
        <4> QED BY <1>2, <1>3, <4>1
      <3>10. p = (IF p0 = e THEN m ELSE p0)  BY DEF p0
      <3>11. /\ Even(t1.child, t1.root, t1.color, v1, h) => Even(t2.child, t2.root, t2.color, v2, k2)
             /\ Removing(t1.child, t1.root, t1.color, v1, h, p0, s, b) =>
                  Removing(t2.child, t2.root, t2.color, v2, k2, p, s, b)
        <4> HIDE DEF p
        <4> QED BY ONLY ElementsFit, <1>5, <3>8, <3>9, <3>10, Rename
      <3>12. Fits(v2, k2)
        <4> HIDE DEF p
        <4> QED BY <1>8, <3>6, <3>7, <3>11
      <3> QED BY <3>12
    <2> QED BY <2>1, <2>2
  <1>10. PICK v, k : Fits(v, k)
    BY <1>9
  <1>11. CASE t.color[m] = "red"
    BY <1>1, <1>10, <1>11
  <1>12. CASE t.color[m] # "red"
    <2>1. p \in Link  BY <1>2, <1>3, <1>5 DEF p0
    <2> HIDE DEF t2, p
    <2>2. /\ Shape(t2, v) /\ v[t2.root] # TreeElem /\ v[t2.root] = X \ {e} /\ r = RemoveColor(t2, p, b)
          /\ Removing(t2.child, t2.root, t2.color, v, k, p, s, b)
      BY <1>1, <1>2, <1>10, <1>12
    <2> HIDE DEF Fits, X
    <2>3. Restoring(t2, v, k, p, s, b, r)  BY <2>1, <2>2 DEF Restoring
    <2>4. \E g, q : Shape(r, g) /\ Even(r.child, r.root, r.color, g, q) /\ g[r.root] = v[t2.root]
      BY ONLY ElementsFit, <2>3, Restore
    <2> QED BY <2>2, <2>4 DEF X
  <1> QED BY <1>11, <1>12

\* RB_REMOVE keeps the rules, and does what it does to a set.
LEMMA RemoveActs ==
  ASSUME ElementsFit, Sound(tree), NEW e \in TreeElem, RbRemove(e)
  PROVE  Sound(tree') /\ RbOrder!Remove(e)
  <1>1. PICK u, h : Shape(tree, u) /\ Even(tree.child, tree.root, tree.color, u, h)
    BY DEF Sound
  <1>2. Set = u[tree.root] /\ u[tree.root] \subseteq TreeElem  BY <1>1, SetIs DEF Set
  <1> DEFINE r == Removed(tree, e)
  <1>3. /\ e \in Set /\ answer' = e
        /\ tree' = [r EXCEPT !.child[e] = NoChild, !.parent[e] = Null, !.color[e] = "black"]
    BY Zenon DEF RbRemove
  <1>4. \A q : q = Removed(tree, e) =>
          \E v, k : Shape(q, v) /\ Even(q.child, q.root, q.color, v, k) /\ v[q.root] = u[tree.root] \ {e}
    BY <1>1, <1>2, <1>3, RemovedIs
  <1>5. PICK v, k : /\ Shape(r, v) /\ Even(r.child, r.root, r.color, v, k)
                    /\ v[r.root] = u[tree.root] \ {e}
    BY <1>4
  <1> HIDE DEF r
  <1>6. Cleared(r, v, k, e, tree')
    BY <1>3, <1>5 DEF Cleared
  <1>7. \A q : Cleared(r, v, k, e, q) =>
          Shape(q, v) /\ Even(q.child, q.root, q.color, v, k) /\ q.root = r.root
    BY Clear
  <1>8. /\ Shape(tree', v) /\ (tree').root = r.root
        /\ Even((tree').child, (tree').root, (tree').color, v, k)
    BY <1>6, <1>7
  <1>9. Set' = Set \ {e}
    <2>1. \A q : Shape(q, v) => Below(q, q.root) = v[q.root]  BY SetIs
    <2> QED BY <1>2, <1>5, <1>8, <2>1 DEF Set
  <1>10. RbOrder!Equal(Key[e]) = {e}
    <2>1. IsTree(tree.child, tree.root, u)  BY <1>1 DEF Shape
    <2>2. \A x \in Set : Key[x] = Key[e] => x = e  BY <1>2, <1>3, <2>1, KeysDiffer
    <2> QED BY <1>3, <2>2 DEF RbOrder!Equal
  <1> QED BY <1>3, <1>8, <1>9, <1>10 DEF Sound, RbOrder!Remove

-----------------------------------------------------------------------------
(***************************************************************************)
(* The program.                                                            *)
(***************************************************************************)
\* RB_INIT.
LEMMA EmptyIsSound ==
  ASSUME ElementsFit
  PROVE  RbInit => Sound(tree)
  <1> SUFFICES ASSUME RbInit PROVE Sound(tree)
    OBVIOUS
  <1> DEFINE u == [a \in Link |-> {}]
             h == [a \in Link |-> 0]
  <1>1. /\ tree \in Tree /\ tree.root = Null
        /\ tree.color \in [TreeElem -> {"red", "black"}]
    <2>1. NoChild \in [Sides -> Link] /\ Null \in Link  BY DEF NoChild, Link
    <2>2. tree = Empty  BY DEF RbInit
    <2> QED BY <2>1, <2>2 DEF Empty, Tree
  <1>2. u \in [Link -> SUBSET TreeElem] /\ u[Null] = {} /\ Null \in Link /\ h \in [Link -> Nat] /\ h[Null] = 0
    BY DEF Link
  <1> HIDE DEF u, h
  <1>3. IsTree(tree.child, tree.root, u)  BY <1>1, <1>2 DEF IsTree
  <1>4. Shape(tree, u)  BY <1>1, <1>2, <1>3 DEF Shape
  <1>5. Level(tree.child, tree.color, u[tree.root], h, Null, "left")  BY <1>1, <1>2 DEF Level
  <1>6. Even(tree.child, tree.root, tree.color, u, h)
    BY <1>1, <1>2, <1>3, <1>5 DEF Even, IsRed
  <1> QED BY <1>4, <1>6 DEF Sound

LEMMA StaysSound ==
  ASSUME ElementsFit
  PROVE  Sound(tree) /\ [RbNext]_rbVars => Sound(tree')
  <1> SUFFICES ASSUME Sound(tree), [RbNext]_rbVars PROVE Sound(tree')
    OBVIOUS
  <1>1. CASE UNCHANGED rbVars  BY <1>1 DEF rbVars
  <1>2. ASSUME NEW e \in TreeElem, RbInsert(e) PROVE Sound(tree')  BY <1>2, InsertActs
  <1>3. ASSUME NEW e \in TreeElem, RbRemove(e) PROVE Sound(tree')  BY <1>3, RemoveActs
  <1> QED BY <1>1, <1>2, <1>3 DEF RbNext

\* After every call of RB_INSERT and RB_REMOVE there is an assignment of families and of
\* heights to the elements that makes the pointers a search tree and the colours even.
THEOREM SoundAlways ==
  ASSUME ElementsFit
  PROVE  RbSpec => []Sound(tree)
  <1>1. RbInit => Sound(tree)  BY EmptyIsSound
  <1>2. Sound(tree) /\ [RbNext]_rbVars => Sound(tree)'  BY StaysSound DEF Sound, Shape, Even
  <1> QED BY <1>1, <1>2, PTL DEF RbSpec

\* rbe_parent of a child is the element that has it, and that of the root is NULL, so that
\* RB_NEXT climbs the way that the search came (tree.h 700-726).
THEOREM ParentsRight ==
  ASSUME ElementsFit
  PROVE  RbSpec => []ParentsKnowChildren
  <1>1. Sound(tree) => ParentsKnowChildren
    <2> SUFFICES ASSUME NEW u, Shape(tree, u) PROVE ParentsKnowChildren
      BY DEF Sound
    <2>1. Set = u[tree.root]  BY SetIs DEF Set
    <2> QED BY <2>1 DEF Shape, ParentsKnowChildren
  <1> QED BY <1>1, SoundAlways, PTL

\* RB_INSERT and RB_REMOVE do to the tree what inserting and removing do to a set in the
\* order of the keys (436-550, 573-660): rotations lose no element.
THEOREM RbActs ==
  ASSUME ElementsFit
  PROVE  RbSpec => RedBlackActsOnSet
  <1>1. Sound(tree) => \A e \in TreeElem : /\ RbInsert(e) => RbOrder!Insert(e)
                                         /\ RbRemove(e) => RbOrder!Remove(e)
    BY InsertActs, RemoveActs
  <1> QED BY <1>1, SoundAlways, PTL DEF RedBlackActsOnSet

-----------------------------------------------------------------------------
(***************************************************************************)
(* The answers.                                                            *)
(***************************************************************************)
\* The element that lies before all others of a part of the tree is its smallest one, and
\* the one that lies after them is its greatest one.
LEMMA ExtremeIs ==
  ASSUME ElementsFit, NEW T, T \subseteq TreeElem, NEW x \in T
  PROVE  /\ (\A y \in T : y # x => On("right", y, x)) => RbOrder!Smallest(T) = x
         /\ (\A y \in T : y # x => On("left", y, x)) => RbOrder!Greatest(T) = x
  <1>1. \A y \in T : Key[y] \in Int  BY DEF ElementsFit
  <1>2. T # {}  OBVIOUS
  <1>3. ASSUME \A y \in T : y # x => On("right", y, x) PROVE RbOrder!Smallest(T) = x
    <2>1. \A y \in T : y # x => Key[x] < Key[y]  BY <1>3 DEF On
    <2>2. \A y \in T : (\A z \in T : Key[y] <= Key[z]) => y = x
      BY <1>1, <2>1
    <2>3. \A z \in T : Key[x] <= Key[z]  BY <1>1, <2>1
    <2>4. (CHOOSE y \in T : \A z \in T : Key[y] <= Key[z]) = x
      BY <2>2, <2>3
    <2> QED BY <1>2, <2>4 DEF RbOrder!Smallest
  <1>4. ASSUME \A y \in T : y # x => On("left", y, x) PROVE RbOrder!Greatest(T) = x
    <2>1. \A y \in T : y # x => Key[y] < Key[x]  BY <1>4 DEF On
    <2>2. \A y \in T : (\A z \in T : Key[y] >= Key[z]) => y = x
      BY <1>1, <2>1
    <2>3. \A z \in T : Key[x] >= Key[z]  BY <1>1, <2>1
    <2>4. (CHOOSE y \in T : \A z \in T : Key[y] >= Key[z]) = x
      BY <2>2, <2>3
    <2> QED BY <1>2, <2>4 DEF RbOrder!Greatest
  <1> QED BY <1>3, <1>4

LEMMA NoneExtreme == RbOrder!Smallest({}) = Null /\ RbOrder!Greatest({}) = Null
  BY DEF RbOrder!Smallest, RbOrder!Greatest

\* RB_FIND.
LEMMA FindIs ==
  ASSUME ElementsFit, NEW u, Shape(tree, u), NEW e \in TreeElem
  PROVE  RbFind(e) = RbOrder!FindOf(e)
  <1> DEFINE k == Key[e]
             x == IF tree.root = Null THEN Null ELSE Search(tree, tree.root, k)
  <1>1. Set = u[tree.root] /\ Set \subseteq TreeElem  BY SetIs DEF Set
  <1>2. IsTree(tree.child, tree.root, u) /\ k \in Int /\ Null \notin TreeElem  BY DEF Shape, ElementsFit
  <1>3. RbFind(e) = IF x # Null /\ Key[x] = k THEN x ELSE Null  BY Zenon DEF RbFind
  <1>4. RbOrder!FindOf(e) = RbOrder!Smallest({y \in Set : Key[y] = k})  BY Zenon DEF RbOrder!FindOf, RbOrder!Equal
  <1> HIDE DEF k
  <1>5. CASE tree.root = Null
    <2>1. x = Null /\ Set = {}  BY <1>1, <1>2, <1>5 DEF IsTree
    <2>2. {y \in Set : Key[y] = k} = {}  BY <2>1
    <2> QED BY <1>3, <1>4, <2>1, <2>2, NoneExtreme
  <1>6. CASE tree.root # Null
    <2>1. x = Search(tree, tree.root, k)  BY <1>6
    <2> HIDE DEF x
    <2>2. /\ x \in Set /\ x \in TreeElem /\ Path(u, tree.root, k, x)
          /\ Key[x] = k \/ tree.child[x][Toward(k, x)] = Null
      <3>1. \A y : y = Search(tree, tree.root, k) =>
              /\ y \in u[tree.root] /\ y \in TreeElem /\ Path(u, tree.root, k, y)
              /\ Key[y] = k \/ tree.child[y][Toward(k, y)] = Null
        BY ONLY ElementsFit, <1>2, <1>6, SearchIs
      <3> QED BY <1>1, <2>1, <3>1
    <2>3. CASE Key[x] = k
      <3>1. \A y \in Set : Key[y] = k => y = x
        BY <1>1, <1>2, <2>2, <2>3, KeysDiffer
      <3>2. {y \in Set : Key[y] = k} = {x}  BY <2>2, <2>3, <3>1
      <3> QED BY <1>2, <1>3, <1>4, <2>2, <2>3, <3>2, OneSmallest
    <2>4. CASE Key[x] # k
      <3>1. \A z \in u[tree.root] : Key[z] # k
        BY <1>1, <1>2, <2>2, <2>4, SearchFails
      <3>2. {y \in Set : Key[y] = k} = {}  BY <1>1, <3>1
      <3> QED BY <1>3, <1>4, <2>4, <3>2, NoneExtreme
    <2> QED BY <2>3, <2>4
  <1> QED BY <1>5, <1>6

\* RB_MIN and RB_MAX.
LEMMA MinMaxIs ==
  ASSUME ElementsFit, NEW u, Shape(tree, u)
  PROVE  RbMinMax("left") = RbOrder!MinOf /\ RbMinMax("right") = RbOrder!MaxOf
  <1>1. Set = u[tree.root] /\ Set \subseteq TreeElem  BY SetIs DEF Set
  <1>2. IsTree(tree.child, tree.root, u)  BY DEF Shape
  <1>3. CASE tree.root = Null
    <2>1. Set = {}  BY <1>1, <1>2, <1>3 DEF IsTree
    <2> QED BY <1>3, <2>1, NoneExtreme DEF RbMinMax, RbOrder!MinOf, RbOrder!MaxOf
  <1>4. CASE tree.root # Null
    <2>1. tree.root \in u[tree.root]  BY <1>2, <1>4 DEF IsTree
    <2>2. \A r, v : IsTree(tree.child, r, v) => \A a \in v[r] : \A x \in Sides :
              /\ Outermost(tree, a, x) \in v[a]
              /\ \A z \in v[a] : z # Outermost(tree, a, x) => On(Other(x), z, Outermost(tree, a, x))
      BY OutermostIs
    <2>3. \A x \in Sides :
              /\ Outermost(tree, tree.root, x) \in Set
              /\ \A z \in Set : z # Outermost(tree, tree.root, x) =>
                                  On(Other(x), z, Outermost(tree, tree.root, x))
      BY <1>1, <1>2, <2>1, <2>2
    <2>4. Other("left") = "right" /\ Other("right") = "left"  BY DEF Other
    <2>5. \A x : x = Outermost(tree, tree.root, "left") => RbOrder!Smallest(Set) = x
      BY <1>1, <2>3, <2>4, SidesAre, ExtremeIs
    <2>6. \A x : x = Outermost(tree, tree.root, "right") => RbOrder!Greatest(Set) = x
      BY <1>1, <2>3, <2>4, SidesAre, ExtremeIs
    <2> QED BY <1>4, <2>5, <2>6 DEF RbMinMax, RbOrder!MinOf, RbOrder!MaxOf
  <1> QED BY <1>3, <1>4

\* In the search for k or more, y is where it is and z is the best element that it has met.
NotLess(u, r, k, y, z) ==
  /\ y \in Link /\ (y # Null => y \in u[r]) /\ z \in Link
  /\ \A x \in u[r] : x \notin u[y] /\ Key[x] >= k => z # Null /\ Key[z] <= Key[x]
  /\ z # Null => z \in u[r] /\ Key[z] > k /\ \A x \in u[y] : Key[x] < Key[z]

LEMMA NSearchIs ==
  ASSUME ElementsFit, NEW t, NEW u, Shape(t, u), NEW k \in Int, NEW n, n = NSearch(t, k)
  PROVE  n = RbOrder!Smallest({x \in u[t.root] : Key[x] >= k})
  <1> DEFINE r == t.root
             c == t.child
             Pairs == Link \X Link
             Step(z) == IF z[1] = Null \/ k = Key[z[1]] THEN z
                        ELSE <<c[z[1]][Toward(k, z[1])],
                               IF Toward(k, z[1]) = "left" THEN z[1] ELSE z[2]>>
             step == [z \in Link \X Link |->
                        IF z[1] = Null \/ k = Key[z[1]] THEN z
                        ELSE LET s == Toward(k, z[1]) IN
                             <<t.child[z[1]][s], IF s = "left" THEN z[1] ELSE z[2]>>]
             Inv  == {z \in Pairs : NotLess(u, r, k, z[1], z[2])}
             size == [z \in Pairs |-> Cardinality(u[z[1]])]
             end  == Repeat(step, <<t.root, Null>>)
  <1>1. /\ IsTree(c, r, u) /\ u[r] \subseteq TreeElem /\ Null \notin TreeElem /\ IsFiniteSet(TreeElem) /\ u[Null] = {}
        /\ r \in Link /\ (r # Null => r \in u[r]) /\ Null \in Link
        /\ \A x \in u[r] : Key[x] \in Int /\ x \in TreeElem /\ x \in Link
    BY DEF Shape, IsTree, ElementsFit, Link
  <1>2. n = IF end[1] = Null THEN end[2] ELSE end[1]
    <2>1. n = NSearch(t, k)  OBVIOUS
    <2> QED BY Zenon, <2>1 DEF NSearch
  <1>3. \A z \in Pairs : step[z] = Step(z) /\ size[z] = Cardinality(u[z[1]])
    OBVIOUS
  <1> HIDE DEF step, size, end, c, r
  <1>15. ASSUME NEW a \in Link, NEW f \in Link, NotLess(u, r, k, a, f)
         PROVE  <<a, f>> \in Inv /\ size[<<a, f>>] = Cardinality(u[a])
    <2>1. <<a, f>> \in Pairs /\ <<a, f>>[1] = a /\ <<a, f>>[2] = f  OBVIOUS
    <2> HIDE DEF Pairs
    <2>2. <<a, f>> \in Inv  BY <1>15, <2>1
    <2> QED BY <1>3, <2>1, <2>2
  <1>4. ASSUME NEW z \in Inv
        PROVE  step[z] \in Inv /\ size[z] \in Nat /\ (step[z] = z \/ size[step[z]] < size[z])
    <2> DEFINE y == z[1]
               b == z[2]
               s == Toward(k, y)
               g == c[y][s]
    <2>0. z \in Pairs /\ z = <<y, b>>  OBVIOUS
    <2>1. /\ y \in Link /\ (y # Null => y \in u[r]) /\ b \in Link
          /\ \A x \in u[r] : x \notin u[y] /\ Key[x] >= k => b # Null /\ Key[b] <= Key[x]
          /\ (b # Null => b \in u[r] /\ Key[b] > k /\ \A x \in u[y] : Key[x] < Key[b])
      BY DEF NotLess
    <2>2. step[z] = (IF y = Null \/ k = Key[y] THEN z ELSE <<g, IF s = "left" THEN y ELSE b>>)
          /\ size[z] = Cardinality(u[y])
      BY <1>3, <2>0
    <2> HIDE DEF y, b
    <2>3. CASE y = Null
      <3>1. Cardinality(u[y]) = 0  BY <1>1, <2>3, FS_EmptySet
      <3> QED BY <2>2, <2>3, <3>1
    <2>4. CASE y # Null
      <3>1. y \in u[r] /\ y \in TreeElem /\ s \in Sides /\ Key[y] \in Int  BY <1>1, <2>1, <2>4, KeyOnIs
      <3> HIDE DEF s
      <3>2. /\ u[g] \subseteq u[y] /\ u[y] = {y} \cup u[g] \cup u[c[y][Other(s)]] /\ g \in Link
            /\ Cardinality(u[y]) \in Nat /\ Cardinality(u[g]) < Cardinality(u[y])
            /\ (g # Null => g \in u[r])
        BY <1>1, <3>1, ChildSmaller
      <3>3. CASE k = Key[y]  BY <2>2, <3>2, <3>3
      <3>4. CASE k # Key[y]
        <4>1. step[z] = <<g, IF s = "left" THEN y ELSE b>>  BY <2>2, <2>4, <3>4
        <4>2. (\A x \in u[g] : On(s, x, y)) /\ (\A x \in u[c[y][Other(s)]] : On(Other(s), x, y))
          BY <1>1, <3>1, SidesAre DEF IsTree
        <4> HIDE DEF g
        <4>3. CASE s = "left"
          <5>1. k < Key[y] /\ Other(s) = "right"  BY <3>1, <4>3 DEF s, Toward, Other
          <5>2. \A x \in u[g] : Key[x] < Key[y]  BY <4>2, <4>3 DEF On
          <5>3. \A x \in u[c[y][Other(s)]] : Key[y] < Key[x]  BY <4>2, <5>1 DEF On
          <5>4. ASSUME NEW x \in u[r], x \notin u[g], Key[x] >= k PROVE Key[y] <= Key[x]
            <6>0. Key[x] \in Int  BY <1>1
            <6>1. CASE x \in u[y]
              <7>1. x = y \/ x \in u[c[y][Other(s)]]  BY <3>2, <5>4, <6>1
              <7> QED BY <3>1, <5>3, <6>0, <7>1
            <6>2. CASE x \notin u[y]
              <7>1. b # Null /\ Key[b] <= Key[x]  BY <2>1, <5>4, <6>2
              <7>2. y \in u[y]  BY <3>2
              <7>3. Key[y] < Key[b] /\ Key[b] \in Int  BY <1>1, <2>1, <7>1, <7>2
              <7> QED BY <3>1, <6>0, <7>1, <7>3
            <6> QED BY <6>1, <6>2
          <5>5. NotLess(u, r, k, g, y)
            BY <1>1, <2>4, <3>1, <3>2, <5>1, <5>2, <5>4 DEF NotLess
          <5>6. step[z] = <<g, y>> /\ y \in Link  BY <1>1, <3>1, <4>1, <4>3
          <5> HIDE DEF Inv
          <5>7. step[z] \in Inv /\ size[step[z]] = Cardinality(u[g])  BY <1>15, <3>2, <5>5, <5>6
          <5> QED BY <2>2, <3>2, <5>7
        <4>4. CASE s # "left"
          <5>1. Key[y] < k /\ Other(s) = "left"  BY <3>1, <3>4, <4>4 DEF s, Toward, Other
          <5>2. \A x \in u[c[y][Other(s)]] : Key[x] < Key[y]  BY <4>2, <5>1 DEF On
          <5>3. ASSUME NEW x \in u[r], x \notin u[g], Key[x] >= k PROVE b # Null /\ Key[b] <= Key[x]
            <6>0. Key[x] \in Int  BY <1>1
            <6>1. x # y  BY <3>1, <5>1, <5>3, <6>0
            <6>2. x \notin u[c[y][Other(s)]]  BY <3>1, <5>1, <5>2, <5>3, <6>0
            <6>3. x \notin u[y]  BY <3>2, <5>3, <6>1, <6>2
            <6> QED BY <2>1, <5>3, <6>3
          <5>4. NotLess(u, r, k, g, b)
            BY <2>1, <3>2, <5>3 DEF NotLess
          <5>5. step[z] = <<g, b>>  BY <4>1, <4>4
          <5> HIDE DEF Inv
          <5>6. step[z] \in Inv /\ size[step[z]] = Cardinality(u[g])  BY <1>15, <2>1, <3>2, <5>4, <5>5
          <5> QED BY <2>2, <3>2, <5>6
        <4> QED BY <4>3, <4>4
      <3> QED BY <3>3, <3>4
    <2> QED BY <2>3, <2>4
  <1>5. <<r, Null>> \in Inv /\ size[<<r, Null>>] <= Cardinality(TreeElem)
    <2>1. NotLess(u, r, k, r, Null)  BY <1>1 DEF NotLess
    <2>2. Cardinality(u[r]) <= Cardinality(TreeElem)  BY <1>1, FS_Subset
    <2> QED BY <1>1, <1>15, <2>1, <2>2
  <1>6. end \in Inv /\ step[end] = end
    <2>1. end = Repeat(step, <<r, Null>>)  BY DEF end, r
    <2> HIDE DEF Inv
    <2> QED BY <1>1, <1>4, <1>5, <2>1, RepeatEnds
  <1> DEFINE y == end[1]
             b == end[2]
             T == {x \in u[r] : Key[x] >= k}
  <1>7. /\ y \in Link /\ (y # Null => y \in u[r]) /\ b \in Link
        /\ \A x \in u[r] : x \notin u[y] /\ Key[x] >= k => b # Null /\ Key[b] <= Key[x]
        /\ (b # Null => b \in u[r] /\ Key[b] > k /\ \A x \in u[y] : Key[x] < Key[b])
    BY <1>6 DEF NotLess
  <1>8. y = Null \/ k = Key[y]
    <2> SUFFICES ASSUME y # Null, k # Key[y] PROVE FALSE
      OBVIOUS
    <2>1. end \in Pairs  BY <1>6
    <2>2. Step(end)[1] = c[y][Toward(k, y)]  BY <2>1
    <2>3. c[y][Toward(k, y)] = y  BY <1>3, <1>6, <2>1, <2>2
    <2> HIDE DEF y
    <2>4. y \in u[r] /\ y \in TreeElem /\ Toward(k, y) \in Sides  BY <1>1, <1>7, KeyOnIs
    <2>5. c[y][Toward(k, y)] # Null => c[y][Toward(k, y)] # y  BY <1>1, <2>4, ChildSmaller
    <2> QED BY <1>1, <2>3, <2>4, <2>5
  <1>9. n = IF y = Null THEN b ELSE y  BY <1>2
  <1> HIDE DEF y, b
  <1>10. T \subseteq u[r] /\ T \subseteq TreeElem  BY <1>1
  <1>11. ASSUME NEW x \in T, \A a \in T : Key[x] <= Key[a] PROVE RbOrder!Smallest(T) = x
    <2>1. \A a \in T : a # x => Key[x] # Key[a]  BY <1>1, <1>10, <1>11, KeysDiffer
    <2>2. \A a \in T : a # x => On("right", a, x)  BY <1>1, <1>10, <1>11, <2>1 DEF On
    <2> HIDE DEF T
    <2> QED BY <1>10, <2>2, ExtremeIs
  <1>12. CASE y # Null
    <2>1. y \in T /\ \A a \in T : Key[y] <= Key[a]  BY <1>1, <1>7, <1>8, <1>12
    <2> HIDE DEF T
    <2>2. RbOrder!Smallest(T) = y  BY <1>11, <2>1
    <2> QED BY <1>9, <1>12, <2>2 DEF T, r
  <1>13. CASE y = Null /\ b # Null
    <2>1. b \in T /\ \A a \in T : Key[b] <= Key[a]  BY <1>1, <1>7, <1>13
    <2> HIDE DEF T
    <2>2. RbOrder!Smallest(T) = b  BY <1>11, <2>1
    <2> QED BY <1>9, <1>13, <2>2 DEF T, r
  <1>14. CASE y = Null /\ b = Null
    <2>1. T = {}  BY <1>1, <1>7, <1>14
    <2> QED BY <1>9, <1>14, <2>1, NoneExtreme DEF r
  <1> QED BY <1>12, <1>13, <1>14

\* The way up ends at the next element on side s.
Beyond(u, r, s, e, n) ==
  IF n = Null THEN \A z \in u[r] : ~On(s, z, e)
  ELSE n \in u[r] /\ On(s, n, e) /\ \A z \in u[r] : On(s, z, e) => z = n \/ On(s, z, n)

LEMMA ClimbIs ==
  ASSUME ElementsFit, NEW t, NEW u, Shape(t, u), NEW e \in u[t.root], NEW s \in Sides,
         t.child[e][s] = Null, NEW n, n = Climb(t, e, s)
  PROVE  Beyond(u, t.root, s, e, n)
  <1> DEFINE X == u[t.root]
             o == Other(s)
             step == [x \in TreeElem |-> LET p == t.parent[x] IN
                                         IF p # Null /\ x = t.child[p][s] THEN p ELSE x]
             Inv  == {x \in X : e \in u[x] /\ \A z \in u[x] : z = e \/ On(o, z, e)}
             size == [x \in TreeElem |-> Cardinality(X \ u[x])]
             end  == Repeat(step, e)
  <1>1. /\ IsTree(t.child, t.root, u) /\ X \subseteq TreeElem /\ Null \notin TreeElem /\ IsFiniteSet(TreeElem)
        /\ e \in X /\ e \in TreeElem /\ o \in Sides /\ Other(o) = s /\ u[Null] = {}
        /\ \A x \in X : x \in TreeElem /\ x # Null /\ x \in u[x] /\ u[x] \subseteq X
    BY SidesAre DEF Shape, IsTree, ElementsFit
  <1>2. n = t.parent[end]
    <2>1. n = Climb(t, e, s)  OBVIOUS
    <2> QED BY Zenon, <2>1 DEF Climb
  <1>3. \A x \in TreeElem : /\ step[x] = IF t.parent[x] # Null /\ x = t.child[t.parent[x]][s]
                                           THEN t.parent[x] ELSE x
                            /\ size[x] = Cardinality(X \ u[x])
    OBVIOUS
  <1>4. \A x \in X : /\ t.parent[x] = Null <=> x = t.root
                     /\ (t.parent[x] # Null =>
                           /\ t.parent[x] \in X /\ t.parent[x] # x /\ SideOf(t, x, t.parent[x]) \in Sides
                           /\ t.child[t.parent[x]][SideOf(t, x, t.parent[x])] = x
                           /\ t.parent[x] \notin u[x])
    <2> SUFFICES ASSUME NEW x \in X
                 PROVE  /\ t.parent[x] = Null <=> x = t.root
                        /\ (t.parent[x] # Null =>
                              /\ t.parent[x] \in X /\ t.parent[x] # x /\ SideOf(t, x, t.parent[x]) \in Sides
                              /\ t.child[t.parent[x]][SideOf(t, x, t.parent[x])] = x
                              /\ t.parent[x] \notin u[x])
      OBVIOUS
    <2> QED BY ParentIs
  <1> HIDE DEF step, size, end, X, o
  <1>5. ASSUME NEW x \in Inv
        PROVE  step[x] \in Inv /\ size[x] \in Nat /\ (step[x] = x \/ size[step[x]] < size[x])
    <2> DEFINE p == t.parent[x]
    <2>1. /\ x \in X /\ x \in TreeElem /\ e \in u[x] /\ (\A z \in u[x] : z = e \/ On(o, z, e))
      BY <1>1
    <2>2. IsFiniteSet(X \ u[x]) /\ size[x] = Cardinality(X \ u[x])  BY <1>1, <1>3, <2>1, FS_Subset
    <2>3. size[x] \in Nat  BY <2>2, FS_CardinalityType
    <2>4. CASE ~(p # Null /\ x = t.child[p][s])
      BY <1>3, <2>1, <2>3, <2>4
    <2>5. CASE p # Null /\ x = t.child[p][s]
      <3>1. p \in X /\ step[x] = p /\ p \in TreeElem /\ p \notin u[x]
        BY <1>1, <1>3, <1>4, <2>1, <2>5
      <3> HIDE DEF p
      <3>2. u[p] = {p} \cup u[x] \cup u[t.child[p][o]]
        BY <1>1, <2>5, <3>1, ChildSmaller DEF X, o
      <3>3. On(s, e, p)  BY <1>1, <2>1, <2>5, <3>1 DEF IsTree, X
      <3>4. On(o, p, e)  BY <1>1, <3>1, <3>3, OnIsOrder DEF o
      <3>5. ASSUME NEW z \in u[p] PROVE z = e \/ On(o, z, e)
        <4>1. CASE z = p  BY <3>4, <4>1
        <4>2. CASE z \in u[x]  BY <2>1, <4>2
        <4>3. CASE z \in u[t.child[p][o]]
          <5>1. On(o, z, p) /\ z \in TreeElem  BY <1>1, <3>1, <3>5, <4>3 DEF IsTree, X
          <5> QED BY <1>1, <3>1, <3>4, <5>1, OnIsOrder
        <4> QED BY <3>2, <4>1, <4>2, <4>3
      <3>6. p \in Inv  BY <2>1, <3>1, <3>2, <3>5
      <3>7. size[p] < size[x]
        <4>1. p \in X \ u[x] /\ p \notin X \ u[p] /\ X \ u[p] \subseteq X \ u[x]
          BY <1>1, <3>1, <3>2
        <4>2. Cardinality(X \ u[p]) < Cardinality(X \ u[x])
          <5>1. X \ u[p] # X \ u[x]  BY <4>1
          <5>2. Cardinality(X \ u[p]) <= Cardinality(X \ u[x])  BY <2>2, <4>1, FS_Subset
          <5>3. Cardinality(X \ u[p]) # Cardinality(X \ u[x])
            BY <2>2, <4>1, <5>1, FS_Subset
          <5>4. Cardinality(X \ u[p]) \in Nat /\ Cardinality(X \ u[x]) \in Nat
            BY <2>2, <4>1, FS_Subset, FS_CardinalityType
          <5> QED BY <5>2, <5>3, <5>4
        <4> QED BY <1>3, <2>2, <3>1, <4>2
      <3> QED BY <2>3, <3>1, <3>6, <3>7
    <2> QED BY <2>4, <2>5
  <1>6. e \in Inv /\ size[e] <= Cardinality(TreeElem)
    <2>1. u[e] = {e} \cup u[t.child[e][s]] \cup u[t.child[e][o]]
      BY <1>1, ChildSmaller DEF X, o
    <2>2. \A z \in u[t.child[e][o]] : On(o, z, e)  BY <1>1 DEF IsTree, X
    <2>3. e \in Inv  BY <1>1, <2>1, <2>2
    <2>4. Cardinality(X \ u[e]) <= Cardinality(TreeElem)  BY <1>1, FS_Subset
    <2> QED BY <1>1, <1>3, <2>3, <2>4
  <1>7. end \in Inv /\ step[end] = end
    <2>1. end = Repeat(step, e)  BY DEF end, step
    <2> HIDE DEF Inv
    <2> QED BY <1>1, <1>5, <1>6, <2>1, RepeatEnds
  <1>8. /\ end \in X /\ e \in u[end] /\ (\A z \in u[end] : z = e \/ On(o, z, e))
        /\ (n # Null => end # t.child[n][s])
    <2>1. end \in X /\ e \in u[end] /\ (\A z \in u[end] : z = e \/ On(o, z, e))  BY <1>7
    <2>2. n # Null => n # end  BY <1>2, <1>4, <2>1
    <2> QED BY <1>1, <1>2, <1>3, <1>7, <2>1, <2>2
  <1>9. CASE n = Null
    <2>1. end = t.root /\ u[end] = X  BY <1>2, <1>4, <1>8, <1>9 DEF X
    <2>2. ASSUME NEW z \in X PROVE ~On(s, z, e)
      <3>1. z \in TreeElem /\ (z = e \/ On(o, z, e))  BY <1>1, <1>8, <2>1
      <3> QED BY <1>1, <3>1, OnIsOrder DEF o
    <2> QED BY <1>9, <2>2 DEF Beyond, X
  <1>10. CASE n # Null
    <2>1. n \in X /\ n \in TreeElem /\ t.child[n][o] = end
      <3>1. n \in X /\ SideOf(t, end, n) \in Sides /\ t.child[n][SideOf(t, end, n)] = end
        BY <1>2, <1>4, <1>8, <1>10
      <3>2. SideOf(t, end, n) = s \/ SideOf(t, end, n) = o
        BY <3>1, SidesAre DEF o
      <3> QED BY <1>1, <1>8, <1>10, <3>1, <3>2
    <2>2. u[n] = {n} \cup u[end] \cup u[t.child[n][s]]
      BY <1>1, <2>1, ChildSmaller DEF X, o
    <2>3. On(o, e, n) /\ On(s, n, e)
      <3>1. On(o, e, n)  BY <1>1, <1>8, <2>1 DEF IsTree, X
      <3> QED BY <1>1, <2>1, <3>1, OnIsOrder
    <2>4. ASSUME NEW z \in X, On(s, z, e) PROVE z = n \/ On(s, z, n)
      <3>0. z \in TreeElem  BY <1>1
      <3>1. z \notin u[end]
        <4>1. z = e \/ On(o, z, e) => FALSE  BY <1>1, <2>4, <3>0, OnIsOrder DEF o
        <4> QED BY <1>8, <4>1
      <3>2. CASE z \in u[t.child[n][s]]
        BY <1>1, <2>1, <3>2 DEF IsTree, X
      <3>3. CASE z \notin u[n]
        <4>1. PICK q \in Sides : \A x \in u[n] : On(q, x, z)
          BY <1>1, <2>1, <3>3, Apart DEF X
        <4>2. e \in u[n] /\ n \in u[n]  BY <1>8, <2>2
        <4>3. On(q, e, z) /\ On(q, n, z)  BY <4>1, <4>2
        <4>4. On(o, e, z)  BY <1>1, <2>4, <3>0, OnIsOrder DEF o
        <4>5. q = o
          <5>1. ~(On(s, e, z) /\ On(o, e, z))  BY <1>1, <3>0, OnIsOrder DEF o
          <5>2. q = s \/ q = o  BY SidesAre DEF o
          <5> QED BY <4>3, <4>4, <5>1, <5>2
        <4> QED BY <1>1, <2>1, <3>0, <4>3, <4>5, OnIsOrder
      <3> QED BY <2>2, <3>1, <3>2, <3>3
    <2> QED BY <1>10, <2>1, <2>3, <2>4 DEF Beyond, X
  <1> QED BY <1>9, <1>10

\* RB_NEXT and RB_PREV.
LEMMA NeighbourIs ==
  ASSUME ElementsFit, NEW t, NEW u, Shape(t, u), NEW e \in u[t.root], NEW s \in Sides,
         NEW n, n = Neighbour(t, e, s)
  PROVE  Beyond(u, t.root, s, e, n)
  <1> DEFINE X == u[t.root]
             o == Other(s)
             g == t.child[e][s]
  <1>1. /\ IsTree(t.child, t.root, u) /\ X \subseteq TreeElem /\ Null \notin TreeElem
        /\ e \in X /\ e \in TreeElem /\ e \in u[e] /\ o \in Sides /\ Other(o) = s
    BY SidesAre DEF Shape, IsTree, ElementsFit
  <1>2. CASE g = Null
    <2>1. n = Climb(t, e, s)  BY <1>2 DEF Neighbour
    <2> QED BY <1>2, <2>1, ClimbIs
  <1>3. CASE g # Null
    <2>1. n = Outermost(t, g, o)  BY <1>3 DEF Neighbour
    <2>2. /\ g \in X /\ u[g] \subseteq u[e] /\ u[e] = {e} \cup u[g] \cup u[t.child[e][o]]
          /\ u[g] \subseteq X
      <3>1. g \in X /\ u[g] \subseteq u[e] /\ u[e] = {e} \cup u[g] \cup u[t.child[e][o]]
        BY <1>1, <1>3, ChildSmaller
      <3>2. u[e] \subseteq X  BY <1>1 DEF IsTree
      <3> QED BY <3>1, <3>2
    <2>3. (\A z \in u[g] : On(s, z, e)) /\ \A z \in u[t.child[e][o]] : On(o, z, e)
      BY <1>1 DEF IsTree
    <2> HIDE DEF g, X, o
    <2>4. n \in u[g] /\ \A z \in u[g] : z # n => On(s, z, n)
      <3>1. \A r, v : IsTree(t.child, r, v) => \A a \in v[r] : \A x \in Sides :
              /\ Outermost(t, a, x) \in v[a]
              /\ \A z \in v[a] : z # Outermost(t, a, x) => On(Other(x), z, Outermost(t, a, x))
        BY OutermostIs
      <3>2. /\ Outermost(t, g, o) \in u[g]
            /\ \A z \in u[g] : z # Outermost(t, g, o) => On(Other(o), z, Outermost(t, g, o))
        BY <1>1, <2>2, <3>1 DEF X
      <3> QED BY <1>1, <2>1, <3>2
    <2>5. n \in X /\ n \in TreeElem /\ n # Null /\ On(s, n, e)  BY <1>1, <2>2, <2>3, <2>4
    <2>6. ASSUME NEW z \in X, On(s, z, e) PROVE z = n \/ On(s, z, n)
      <3>0. z \in TreeElem  BY <1>1
      <3>1. CASE z \in u[g]  BY <2>4, <3>1
      <3>2. CASE z \in u[e] /\ z \notin u[g]
        <4>1. z = e \/ On(o, z, e)  BY <2>2, <2>3, <3>2
        <4>2. FALSE  BY <1>1, <2>6, <3>0, <4>1, OnIsOrder DEF o
        <4> QED BY <4>2
      <3>3. CASE z \notin u[e]
        <4>1. PICK q \in Sides : \A x \in u[e] : On(q, x, z)
          BY <1>1, <3>3, Apart DEF X
        <4>2. On(q, e, z) /\ On(q, n, z)  BY <1>1, <2>2, <2>4, <4>1
        <4>3. On(o, e, z)  BY <1>1, <2>6, <3>0, OnIsOrder DEF o
        <4>4. q = o
          <5>1. ~(On(s, e, z) /\ On(o, e, z))  BY <1>1, <3>0, OnIsOrder DEF o
          <5>2. q = s \/ q = o  BY SidesAre DEF o
          <5> QED BY <4>2, <4>3, <5>1, <5>2
        <4> QED BY <1>1, <2>5, <3>0, <4>2, <4>4, OnIsOrder
      <3> QED BY <3>1, <3>2, <3>3
    <2> QED BY <2>5, <2>6 DEF Beyond, X
  <1> QED BY <1>2, <1>3

\* RB_FIND and RB_NFIND find the element with the key, or the next one; RB_NEXT and RB_PREV
\* go from element to element in the order of the keys, and RB_MIN and RB_MAX give the ends
\* (tree.h 665-741).
THEOREM AnswersRight ==
  ASSUME ElementsFit
  PROVE  RbSpec => []AnswersFromSet
  <1>1. Sound(tree) => AnswersFromSet
    <2> SUFFICES ASSUME NEW u, Shape(tree, u) PROVE AnswersFromSet
      BY DEF Sound
    <2>1. Set = u[tree.root] /\ Set \subseteq TreeElem  BY SetIs DEF Set
    <2>2. IsTree(tree.child, tree.root, u)  BY DEF Shape
    <2>3. \A e \in TreeElem : Key[e] \in Int  BY DEF ElementsFit
    <2>4. ASSUME NEW e \in TreeElem PROVE RbFind(e) = RbOrder!FindOf(e) /\ RbNFind(e) = RbOrder!NFindOf(e)
      <3>1. \A k \in Int : \A n : n = NSearch(tree, k) => n = RbOrder!Smallest({x \in u[tree.root] : Key[x] >= k})
        BY NSearchIs
      <3>2. NSearch(tree, Key[e]) = RbOrder!Smallest({x \in Set : Key[x] >= Key[e]})
        BY <2>1, <2>3, <3>1
      <3>3. RbNFind(e) = RbOrder!NFindOf(e)  BY <3>2 DEF RbNFind, RbOrder!NFindOf, RbOrder!AtLeast
      <3> QED BY <3>3, FindIs
    <2>5. ASSUME NEW e \in Set
          PROVE  /\ Neighbour(tree, e, "right") = RbOrder!NextOf(e)
                 /\ Neighbour(tree, e, "left") = RbOrder!PrevOf(e)
      <3> DEFINE A == {x \in Set : Key[x] >= Key[e] + 1}
                 B == {x \in Set : Key[x] < Key[e]}
      <3>1. \A s \in Sides : \A n : n = Neighbour(tree, e, s) => Beyond(u, tree.root, s, e, n)
        BY <2>1, NeighbourIs
      <3>2. "left" \in Sides /\ "right" \in Sides  BY SidesAre
      <3>3. /\ \A z \in Set : z \in A <=> On("right", z, e)
            /\ \A z \in Set : z \in B <=> On("left", z, e)
        BY <2>1, <2>3 DEF On
      <3>4. RbOrder!NextOf(e) = RbOrder!Smallest(A) /\ RbOrder!PrevOf(e) = RbOrder!Greatest(B)
        BY Zenon DEF RbOrder!NextOf, RbOrder!PrevOf, RbOrder!AtLeast
      <3>5. A \subseteq Set /\ B \subseteq Set  OBVIOUS
      <3> HIDE DEF A, B
      <3>6. ASSUME NEW n, n = Neighbour(tree, e, "right") PROVE n = RbOrder!NextOf(e)
        <4>1. Beyond(u, tree.root, "right", e, n)  BY <3>1, <3>2, <3>6
        <4>2. CASE n = Null
          <5>1. A = {}  BY <2>1, <3>3, <3>5, <4>1, <4>2 DEF Beyond
          <5> QED BY <3>4, <4>2, <5>1, NoneExtreme
        <4>3. CASE n # Null
          <5>1. n \in A /\ A \subseteq TreeElem /\ \A z \in A : z # n => On("right", z, n)
            BY <2>1, <3>3, <3>5, <4>1, <4>3 DEF Beyond
          <5> QED BY <3>4, <5>1, ExtremeIs
        <4> QED BY <4>2, <4>3
      <3>7. ASSUME NEW n, n = Neighbour(tree, e, "left") PROVE n = RbOrder!PrevOf(e)
        <4>1. Beyond(u, tree.root, "left", e, n)  BY <3>1, <3>2, <3>7
        <4>2. CASE n = Null
          <5>1. B = {}  BY <2>1, <3>3, <3>5, <4>1, <4>2 DEF Beyond
          <5> QED BY <3>4, <4>2, <5>1, NoneExtreme
        <4>3. CASE n # Null
          <5>1. n \in B /\ B \subseteq TreeElem /\ \A z \in B : z # n => On("left", z, n)
            BY <2>1, <3>3, <3>5, <4>1, <4>3 DEF Beyond
          <5> QED BY <3>4, <5>1, ExtremeIs
        <4> QED BY <4>2, <4>3
      <3> QED BY <3>6, <3>7
    <2>6. RbMinMax("left") = RbOrder!MinOf /\ RbMinMax("right") = RbOrder!MaxOf  BY MinMaxIs
    <2> QED BY <2>4, <2>5, <2>6 DEF AnswersFromSet
  <1> QED BY <1>1, SoundAlways, PTL

-----------------------------------------------------------------------------
(***************************************************************************)
(* The height.                                                             *)
(***************************************************************************)
\* The first steps of a loop that begins with x.
Steps(step, x, n) == CHOOSE g : IsRun(g, step, x, n)

LEMMA StepsAre ==
  ASSUME NEW step, NEW x, NEW n \in Nat, NEW f, f = Steps(step, x, n)
  PROVE  f[0] = x /\ \A m \in 1 .. n : f[m] = step[f[m - 1]]
  <1>1. \E g : IsRun(g, step, x, n)  BY RunExists
  <1>2. IsRun(f, step, x, n)  BY <1>1 DEF Steps
  <1> QED BY <1>2 DEF IsRun

\* The recursion of TwoTo has a solution.
LEMMA TwoToIs ==
  /\ TwoTo[0] = 1
  /\ \A n \in Nat : TwoTo[n] \in Nat /\ TwoTo[n] >= 1 /\ TwoTo[n + 1] = 2 * TwoTo[n]
  <1> DEFINE step == [x \in Nat |-> 2 * x]
             G(n) == Steps(step, 1, n)
             D == [n \in Nat |-> G(n)[n]]
  <1>2. \A n \in Nat : G(n)[0] = 1 /\ \A m \in 1 .. n : G(n)[m] = step[G(n)[m - 1]]
    <2> HIDE DEF step
    <2> SUFFICES ASSUME NEW n \in Nat
                 PROVE  G(n)[0] = 1 /\ \A m \in 1 .. n : G(n)[m] = step[G(n)[m - 1]]
      OBVIOUS
    <2>1. ASSUME NEW x, NEW f, f = Steps(step, x, n)
          PROVE  f[0] = x /\ \A m \in 1 .. n : f[m] = step[f[m - 1]]
      BY <2>1, StepsAre
    <2>2. \A x : /\ Steps(step, x, n)[0] = x
                /\ \A m \in 1 .. n : Steps(step, x, n)[m] = step[Steps(step, x, n)[m - 1]]
      BY <2>1
    <2> QED BY Zenon, <2>2
  <1> HIDE DEF G
  <1>3. \A m \in Nat : \A n \in Nat : n >= m => G(n)[m] \in Nat /\ G(n)[m] = G(m)[m] /\ G(n)[m] >= 1
    <2> DEFINE Same(m) == \A n \in Nat : n >= m => G(n)[m] \in Nat /\ G(n)[m] = G(m)[m] /\ G(n)[m] >= 1
               T == {m \in Nat : ~Same(m)}
    <2> SUFFICES ASSUME T # {} PROVE FALSE
      OBVIOUS
    <2>1. PICK m \in T : \A k \in T : m <= k
      <3>1. T \subseteq Nat  OBVIOUS
      <3> HIDE DEF T
      <3> QED BY <3>1, LeastNumber
    <2>2. m \in Nat /\ ~Same(m)  BY <2>1
    <2>3. CASE m = 0  BY <1>2, <2>2, <2>3
    <2>4. CASE m # 0
      <3>1. m - 1 \in Nat /\ Same(m - 1)
        <4>1. m - 1 \in Nat /\ ~(m <= m - 1)  BY <2>2, <2>4
        <4>2. m - 1 \notin T  BY <2>1, <4>1
        <4> HIDE DEF Same
        <4> QED BY <4>1, <4>2
      <3>2. ASSUME NEW n \in Nat, n >= m
            PROVE  G(n)[m] \in Nat /\ G(n)[m] = G(m)[m] /\ G(n)[m] >= 1
        <4>1. G(n)[m] = step[G(n)[m - 1]] /\ G(m)[m] = step[G(m)[m - 1]]
          <5>1. m \in 1 .. n /\ m \in 1 .. m  BY <2>2, <2>4, <3>2
          <5> HIDE DEF step
          <5> QED BY <1>2, <2>2, <5>1
        <4>2. /\ G(n)[m - 1] \in Nat /\ G(m)[m - 1] = G(m - 1)[m - 1] /\ G(n)[m - 1] = G(m - 1)[m - 1]
              /\ G(n)[m - 1] >= 1
          <5>1. n >= m - 1 /\ m >= m - 1  BY <2>2, <3>2
          <5> QED BY <2>2, <3>1, <5>1
        <4> QED BY <4>1, <4>2
      <3> QED BY <2>2, <3>2
    <2> QED BY <2>3, <2>4
  <1>4. D[0] = 1 /\ \A n \in Nat : D[n] \in Nat /\ D[n] >= 1 /\ D[n + 1] = 2 * D[n]
    <2>1. D[0] = 1  BY <1>2
    <2>2. ASSUME NEW n \in Nat PROVE D[n] \in Nat /\ D[n] >= 1 /\ D[n + 1] = 2 * D[n]
      <3>1. D[n] = G(n)[n] /\ D[n + 1] = G(n + 1)[n + 1]  OBVIOUS
      <3>2. G(n)[n] \in Nat /\ G(n)[n] >= 1 /\ G(n + 1)[n] = G(n)[n]
        <4>1. n + 1 \in Nat /\ n >= n /\ n + 1 >= n  OBVIOUS
        <4> QED BY <1>3, <4>1
      <3>3. G(n + 1)[n + 1] = step[G(n + 1)[n]]
        <4>1. n + 1 \in Nat /\ n + 1 \in 1 .. n + 1 /\ (n + 1) - 1 = n  OBVIOUS
        <4> HIDE DEF step
        <4> QED BY <1>2, <4>1
      <3> HIDE DEF D
      <3> QED BY <3>1, <3>2, <3>3
    <2> QED BY <2>1, <2>2
  <1>5. D = [n \in Nat |-> IF n = 0 THEN 1 ELSE 2 * D[n - 1]]
    <2>1. D = [n \in Nat |-> D[n]]  OBVIOUS
    <2> HIDE DEF D
    <2>2. ASSUME NEW n \in Nat PROVE D[n] = IF n = 0 THEN 1 ELSE 2 * D[n - 1]
      <3>1. CASE n = 0  BY <1>4, <3>1
      <3>2. CASE n # 0
        <4>1. n - 1 \in Nat /\ (n - 1) + 1 = n  BY <3>2
        <4>2. D[(n - 1) + 1] = 2 * D[n - 1]  BY <1>4, <4>1
        <4> QED BY <3>2, <4>1, <4>2
      <3> QED BY <3>1, <3>2
    <2> QED BY <2>1, <2>2
  <1> HIDE DEF D
  <1>6. TwoTo = [n \in Nat |-> IF n = 0 THEN 1 ELSE 2 * TwoTo[n - 1]]
    BY <1>5 DEF TwoTo
  <1>7. TwoTo[0] = 1 /\ \A n \in Nat : TwoTo[n + 1] = 2 * TwoTo[n]
    <2>1. TwoTo[0] = 1  BY <1>6
    <2>2. ASSUME NEW n \in Nat PROVE TwoTo[n + 1] = 2 * TwoTo[n]
      <3>1. n + 1 \in Nat /\ n + 1 # 0 /\ (n + 1) - 1 = n  OBVIOUS
      <3> QED BY <1>6, <3>1
    <2> QED BY <2>1, <2>2
  <1>8. \A n \in Nat : TwoTo[n] \in Nat /\ TwoTo[n] >= 1
    <2> DEFINE T == {n \in Nat : ~(TwoTo[n] \in Nat /\ TwoTo[n] >= 1)}
    <2> SUFFICES ASSUME T # {} PROVE FALSE
      OBVIOUS
    <2>1. PICK n \in T : \A k \in T : n <= k
      <3>1. T \subseteq Nat  OBVIOUS
      <3> HIDE DEF T
      <3> QED BY <3>1, LeastNumber
    <2>2. n \in Nat /\ n # 0  BY <1>7, <2>1
    <2>3. n - 1 \in Nat /\ n - 1 \notin T /\ (n - 1) + 1 = n
      <3>1. n - 1 \in Nat /\ ~(n <= n - 1) /\ (n - 1) + 1 = n  BY <2>2
      <3> HIDE DEF T
      <3> QED BY <2>1, <3>1
    <2>4. TwoTo[n] = 2 * TwoTo[n - 1]  BY <1>7, <2>3
    <2> QED BY <2>1, <2>3, <2>4
  <1> QED BY <1>7, <1>8

\* 2 ^ m <= 2 ^ n for m <= n, and 2 ^ (2 n) is the square of 2 ^ n.
LEMMA TwoToGrows ==
  /\ \A n \in Nat : \A m \in 0 .. n : TwoTo[m] <= TwoTo[n]
  /\ \A n \in Nat : TwoTo[2 * n] = TwoTo[n] * TwoTo[n]
  <1>1. \A n \in Nat : TwoTo[n] \in Nat /\ TwoTo[n + 1] = 2 * TwoTo[n]  BY TwoToIs
  <1>2. \A n \in Nat : \A m \in 0 .. n : TwoTo[m] <= TwoTo[n]
    <2> DEFINE T == {n \in Nat : ~ \A m \in 0 .. n : TwoTo[m] <= TwoTo[n]}
    <2> SUFFICES ASSUME T # {} PROVE FALSE
      OBVIOUS
    <2>1. PICK n \in T : \A k \in T : n <= k
      <3>1. T \subseteq Nat  OBVIOUS
      <3> HIDE DEF T
      <3> QED BY <3>1, LeastNumber
    <2>2. PICK m \in 0 .. n : ~(TwoTo[m] <= TwoTo[n])  BY <2>1
    <2>3. n \in Nat /\ m # n  BY <1>1, <2>1, <2>2
    <2>4. n - 1 \in Nat /\ n - 1 \notin T /\ (n - 1) + 1 = n /\ m \in 0 .. n - 1
      <3>1. n - 1 \in Nat /\ ~(n <= n - 1) /\ (n - 1) + 1 = n /\ m \in 0 .. n - 1  BY <2>2, <2>3
      <3> HIDE DEF T
      <3> QED BY <2>1, <3>1
    <2>5. TwoTo[m] <= TwoTo[n - 1]  BY <2>4
    <2>6. TwoTo[n] = 2 * TwoTo[n - 1] /\ TwoTo[n - 1] \in Nat /\ TwoTo[m] \in Nat
      BY <1>1, <2>2, <2>4
    <2> QED BY <2>2, <2>5, <2>6
  <1>3. \A n \in Nat : TwoTo[2 * n] = TwoTo[n] * TwoTo[n]
    <2> DEFINE T == {n \in Nat : ~(TwoTo[2 * n] = TwoTo[n] * TwoTo[n])}
    <2> SUFFICES ASSUME T # {} PROVE FALSE
      OBVIOUS
    <2>1. PICK n \in T : \A k \in T : n <= k
      <3>1. T \subseteq Nat  OBVIOUS
      <3> HIDE DEF T
      <3> QED BY <3>1, LeastNumber
    <2>2. n \in Nat /\ TwoTo[2 * n] # TwoTo[n] * TwoTo[n]  BY <2>1
    <2>3. n # 0
      <3>1. TwoTo[2 * 0] = TwoTo[0] * TwoTo[0]  BY TwoToIs
      <3> QED BY <2>2, <3>1
    <2>4. n - 1 \in Nat /\ n - 1 \notin T
      <3>1. n - 1 \in Nat /\ ~(n <= n - 1)  BY <2>2, <2>3
      <3> HIDE DEF T
      <3> QED BY <2>1, <3>1
    <2>5. PICK k \in Nat : n = k + 1 /\ TwoTo[2 * k] = TwoTo[k] * TwoTo[k]
      <3>1. n = (n - 1) + 1  BY <2>2
      <3> QED BY <2>4, <3>1
    <2>6. TwoTo[n] = 2 * TwoTo[k] /\ TwoTo[k] \in Nat  BY <1>1, <2>5
    <2>7. TwoTo[2 * n] = 4 * TwoTo[2 * k]
      <3>1. 2 * k \in Nat /\ 2 * k + 1 \in Nat /\ 2 * n = (2 * k + 1) + 1  BY <2>5
      <3>2. TwoTo[2 * k + 1] = 2 * TwoTo[2 * k] /\ TwoTo[(2 * k + 1) + 1] = 2 * TwoTo[2 * k + 1]
            /\ TwoTo[2 * k] \in Nat
        BY <1>1, <3>1
      <3> QED BY <3>1, <3>2
    <2>8. \A a \in Nat : (2 * a) * (2 * a) = 4 * (a * a)  OBVIOUS
    <2> QED BY <2>2, <2>5, <2>6, <2>7, <2>8
  <1> QED BY <1>2, <1>3

\* A part of the tree with n black elements on the way down has 2 ^ n - 1 elements or more.
LEMMA ManyBelow ==
  ASSUME ElementsFit, NEW c, NEW r, NEW w, NEW u, NEW h, Even(c, r, w, u, h), NEW e \in u[r]
  PROVE  TwoTo[h[e]] <= Cardinality(u[e]) + 1
  <1> DEFINE X == u[r]
             Enough(a) == TwoTo[h[a]] <= Cardinality(u[a]) + 1
             T == {a \in X : ~Enough(a)}
             f == [a \in TreeElem |-> Cardinality(u[a])]
  <1>1. /\ IsTree(c, r, u) /\ X \subseteq TreeElem /\ Null \notin TreeElem /\ u[Null] = {}
        /\ h \in [Link -> Nat] /\ h[Null] = 0 /\ IsFiniteSet(TreeElem)
        /\ \A a \in X : \A x \in Sides : h[a] = h[c[a][x]] + Weight(w, a) + Lack(a, x, Null, "left")
    BY DEF Even, Level, IsTree, ElementsFit
  <1>2. \A n \in Nat : TwoTo[n] \in Nat /\ TwoTo[n] >= 1 /\ TwoTo[n + 1] = 2 * TwoTo[n]
    BY TwoToIs
  <1>3. Enough(Null)  BY <1>1, FS_EmptySet, TwoToIs
  <1> SUFFICES ASSUME T # {} PROVE FALSE
    OBVIOUS
  <1>4. \A a \in X : /\ f[a] \in Nat /\ f[a] = Cardinality(u[a])
                     /\ a \in TreeElem /\ a \in Link /\ a # Null
    <2>1. \A a \in X : Cardinality(u[a]) \in Nat  BY <1>1, ChildSmaller, SidesAre
    <2> QED BY <1>1, <2>1 DEF Link
  <1>5. PICK a \in T : \A b \in T : f[a] <= f[b]
    <2>1. \A b \in T : f[b] \in Nat  BY <1>4
    <2> HIDE DEF T, f
    <2> QED BY <2>1, LeastValue
  <1>6. a \in X /\ ~Enough(a)  BY <1>5
  <1> DEFINE k == c[a]["left"]
             n == c[a]["right"]
  <1>7. /\ k \in Link /\ n \in Link /\ (k # Null => k \in X) /\ (n # Null => n \in X)
        /\ Cardinality(u[k]) < Cardinality(u[a]) /\ Cardinality(u[n]) < Cardinality(u[a])
        /\ Cardinality(u[k]) \in Nat /\ Cardinality(u[n]) \in Nat /\ Cardinality(u[a]) \in Nat
        /\ u[a] = {a} \cup u[k] \cup u[n] /\ a \notin u[k] /\ a \notin u[n] /\ u[k] \cap u[n] = {}
    <2>1. "left" \in Sides /\ "right" \in Sides /\ Other("left") = "right" /\ Other("right") = "left"
      BY SidesAre DEF Other
    <2>2. \A y \in u[r] : \A s \in Sides :
            /\ y \in TreeElem /\ y \in Link /\ c[y][s] \in Link
            /\ u[c[y][s]] \subseteq u[y] /\ y \notin u[c[y][s]] /\ u[c[y][s]] \cap u[c[y][Other(s)]] = {}
            /\ u[y] = {y} \cup u[c[y][s]] \cup u[c[y][Other(s)]]
            /\ Cardinality(u[y]) \in Nat /\ Cardinality(u[c[y][s]]) \in Nat
            /\ Cardinality(u[c[y][s]]) < Cardinality(u[y])
      <3>1. IsTree(c, r, u)  BY <1>1
      <3> QED BY <3>1, ChildSmaller
    <2>3. k # Null => k \in X
      <3>1. k # Null => k \in u[k]  BY <1>1, <1>6, <2>1 DEF IsTree
      <3>2. u[k] \subseteq u[a] /\ u[a] \subseteq X  BY <1>1, <1>6, <2>1, <2>2 DEF IsTree
      <3> QED BY <3>1, <3>2
    <2>4. n # Null => n \in X
      <3>1. n # Null => n \in u[n]  BY <1>1, <1>6, <2>1 DEF IsTree
      <3>2. u[n] \subseteq u[a] /\ u[a] \subseteq X  BY <1>1, <1>6, <2>1, <2>2 DEF IsTree
      <3> QED BY <3>1, <3>2
    <2>5. /\ c[a]["left"] \in Link /\ a \notin u[c[a]["left"]]
          /\ u[c[a]["left"]] \cap u[c[a]["right"]] = {}
          /\ u[a] = {a} \cup u[c[a]["left"]] \cup u[c[a]["right"]]
          /\ Cardinality(u[a]) \in Nat /\ Cardinality(u[c[a]["left"]]) \in Nat
          /\ Cardinality(u[c[a]["left"]]) < Cardinality(u[a])
      BY ONLY <1>6, <2>1, <2>2 DEF X
    <2>6. /\ c[a]["right"] \in Link /\ a \notin u[c[a]["right"]]
          /\ Cardinality(u[c[a]["right"]]) \in Nat
          /\ Cardinality(u[c[a]["right"]]) < Cardinality(u[a])
      BY ONLY <1>6, <2>1, <2>2 DEF X
    <2> HIDE DEF X, Enough, T, f
    <2> QED BY <2>3, <2>4, <2>5, <2>6 DEF k, n
  <1>8. h[a] = h[k] + Weight(w, a) /\ h[a] = h[n] + Weight(w, a) /\ h[a] \in Nat /\ h[k] \in Nat /\ h[n] \in Nat
    <2>1. "left" \in Sides /\ "right" \in Sides  BY SidesAre
    <2>2. Lack(a, "left", Null, "left") = 0 /\ Lack(a, "right", Null, "left") = 0
      BY <1>4, <1>6 DEF Lack
    <2>3. h[a] \in Nat /\ h[k] \in Nat /\ h[n] \in Nat /\ Weight(w, a) \in Nat
      BY <1>1, <1>4, <1>6, <1>7 DEF Weight
    <2>4. /\ h[a] = h[k] + Weight(w, a) + Lack(a, "left", Null, "left")
          /\ h[a] = h[n] + Weight(w, a) + Lack(a, "right", Null, "left")
      BY <1>1, <1>6, <2>1
    <2> QED BY <2>2, <2>3, <2>4
  <1> HIDE DEF k, n
  <1>9. Cardinality(u[a]) = 1 + Cardinality(u[k]) + Cardinality(u[n])
    <2>1. IsFiniteSet(u[k]) /\ IsFiniteSet(u[n]) /\ IsFiniteSet(u[k] \cup u[n])
      <3>1. u \in [Link -> SUBSET TreeElem]  BY <1>1 DEF IsTree
      <3>2. u[k] \subseteq TreeElem /\ u[n] \subseteq TreeElem  BY <1>7, <3>1
      <3>3. u[k] \cup u[n] \subseteq TreeElem  BY <3>2
      <3> QED BY <1>1, <3>2, <3>3, FS_Subset
    <2>2. Cardinality(u[k] \cup u[n]) = Cardinality(u[k]) + Cardinality(u[n]) - Cardinality(u[k] \cap u[n])
      BY <2>1, FS_Union
    <2>3. Cardinality(u[k] \cap u[n]) = 0  BY <1>7, FS_EmptySet
    <2>4. u[a] = (u[k] \cup u[n]) \cup {a} /\ a \notin u[k] \cup u[n]  BY <1>7
    <2>5. Cardinality((u[k] \cup u[n]) \cup {a}) = Cardinality(u[k] \cup u[n]) + 1
      BY <2>1, <2>4, FS_AddElement
    <2>6. Cardinality(u[a]) = Cardinality(u[k] \cup u[n]) + 1  BY ONLY <2>4, <2>5
    <2>7. Cardinality(u[k]) \in Nat /\ Cardinality(u[n]) \in Nat  BY <1>7
    <2> QED BY ONLY <2>2, <2>3, <2>6, <2>7
  <1>10. Enough(k) /\ Enough(n)
    <2>1. ASSUME NEW b \in Link, b # Null => b \in X, Cardinality(u[b]) < Cardinality(u[a]) PROVE Enough(b)
      <3>1. CASE b = Null  BY <1>3, <3>1
      <3>2. CASE b # Null
        <4>1. b \in X /\ f[b] \in Nat /\ f[a] \in Nat /\ f[b] < f[a]  BY <1>4, <1>6, <2>1, <3>2
        <4>2. ~(f[a] <= f[b])  BY <4>1
        <4> HIDE DEF Enough, f
        <4> QED BY <1>5, <4>1, <4>2
      <3> QED BY <3>1, <3>2
    <2> HIDE DEF Enough
    <2> QED BY <1>7, <2>1
  <1>11. CASE Weight(w, a) = 0
    <2>1. TwoTo[h[a]] = TwoTo[h[k]] /\ TwoTo[h[k]] \in Nat  BY <1>2, <1>8, <1>11
    <2> QED BY <1>6, <1>7, <1>9, <1>10, <2>1
  <1>12. CASE Weight(w, a) = 1
    <2>1. h[k] = h[n] /\ h[a] = h[k] + 1  BY <1>8, <1>12
    <2>2. TwoTo[h[a]] = 2 * TwoTo[h[k]] /\ TwoTo[h[k]] \in Nat  BY <1>2, <1>8, <2>1
    <2> QED BY <1>6, <1>7, <1>9, <1>10, <2>1, <2>2
  <1> QED BY <1>11, <1>12 DEF Weight

\* The way from the root to e has as many black elements as the heights say, and at least
\* every other one is black.
WayTo(u, r, e)        == {x \in u[r] : e \in u[x]}
BlacksTo(w, u, r, e)  == {x \in WayTo(u, r, e) : w[x] = "black"}
Counted(w, u, h, r, e) ==
  /\ Cardinality(BlacksTo(w, u, r, e)) = h[r] - h[e] + Weight(w, e)
  /\ Cardinality(WayTo(u, r, e)) + Weight(w, e) <= 2 * Cardinality(BlacksTo(w, u, r, e))

LEMMA WayIs ==
  ASSUME ElementsFit, NEW c, NEW r, NEW w, NEW u, NEW h, Even(c, r, w, u, h), NEW e \in u[r]
  PROVE  Counted(w, u, h, r, e)
  <1> DEFINE X == u[r]
             T == {a \in X : ~Counted(w, u, h, r, a)}
             f == [a \in TreeElem |-> Cardinality(X \ u[a])]
  <1>1. /\ IsTree(c, r, u) /\ X \subseteq TreeElem /\ Null \notin TreeElem /\ IsFiniteSet(TreeElem)
        /\ w \in [TreeElem -> {"red", "black"}] /\ h \in [Link -> Nat] /\ ~IsRed(w, r)
        /\ \A a \in X : \A x \in Sides : h[a] = h[c[a][x]] + Weight(w, a) + Lack(a, x, Null, "left")
        /\ \A a \in X : \A x \in Sides : ~(IsRed(w, a) /\ IsRed(w, c[a][x]))
    BY DEF Even, Level, IsTree, ElementsFit
  <1> SUFFICES ASSUME T # {} PROVE FALSE
    OBVIOUS
  <1>2. \A a \in X : /\ f[a] \in Nat /\ f[a] = Cardinality(X \ u[a]) /\ IsFiniteSet(X \ u[a])
                     /\ a \in TreeElem /\ a \in Link /\ a # Null /\ a \in u[a] /\ u[a] \subseteq X
    <2>1. \A a \in X : IsFiniteSet(X \ u[a]) /\ Cardinality(X \ u[a]) \in Nat
      BY <1>1, FS_Subset, FS_CardinalityType
    <2> QED BY <1>1, <2>1 DEF Link, IsTree
  <1>3. PICK a \in T : \A b \in T : f[a] <= f[b]
    <2>1. \A b \in T : f[b] \in Nat  BY <1>2
    <2> HIDE DEF T, f
    <2> QED BY <2>1, LeastValue
  <1>4. a \in X /\ ~Counted(w, u, h, r, a)  BY <1>3
  <1> HIDE DEF T, f, X
  <1>5. /\ IsFiniteSet(WayTo(u, r, a)) /\ IsFiniteSet(BlacksTo(w, u, r, a))
    <2>1. WayTo(u, r, a) \subseteq TreeElem /\ BlacksTo(w, u, r, a) \subseteq TreeElem
      BY <1>1 DEF WayTo, BlacksTo, X
    <2> QED BY <1>1, <2>1, FS_Subset
  <1>6. CASE a = r
    <2>1. WayTo(u, r, a) = {r}
      <3>1. r \in X  BY <1>4, <1>6
      <3>2. \A x \in X : r \in u[x] => x = r
        <4> SUFFICES ASSUME NEW x \in X, r \in u[x], x # r PROVE FALSE
          OBVIOUS
        <4>1. PICK g \in X : \E s \in Sides : c[g][s] = x
          BY <1>1, HasParent DEF X
        <4>2. PICK s \in Sides : c[g][s] = x  BY <4>1
        <4>3. u[x] \subseteq u[g] /\ g \notin u[x] /\ g \in u[r]  BY <1>1, <4>1, <4>2, ChildSmaller DEF X
        <4>4. u[r] \subseteq u[x]  BY <1>1, <3>1 DEF IsTree, X
        <4> QED BY <4>3, <4>4
      <3> QED BY <1>2, <1>6, <3>1, <3>2 DEF WayTo, X
    <2>2. w[r] = "black" /\ r \in TreeElem  BY <1>1, <1>2, <1>4, <1>6 DEF IsRed
    <2>3. BlacksTo(w, u, r, a) = {r}  BY <2>1, <2>2 DEF BlacksTo
    <2>4. Cardinality({r}) = 1  BY FS_Singleton
    <2>5. h[r] \in Nat  BY <1>1, <1>2, <1>4, <1>6
    <2>6. Counted(w, u, h, r, a)
      BY <1>6, <2>1, <2>2, <2>3, <2>4, <2>5 DEF Counted, Weight
    <2> QED BY <1>4, <2>6
  <1>7. CASE a # r
    <2>1. PICK p \in X : \E s \in Sides : c[p][s] = a
      BY <1>1, <1>4, <1>7, HasParent DEF X
    <2>2. PICK s \in Sides : c[p][s] = a  BY <2>1
    <2>3. p \in X /\ p \in TreeElem /\ p # a /\ a \in u[p] /\ u[a] \subseteq u[p] /\ p \notin u[a] /\ p \in u[p]
      BY <1>1, <1>2, <1>4, <2>1, <2>2, ChildSmaller DEF X
    <2>4. Counted(w, u, h, r, p)
      <3>1. X \ u[p] \subseteq X \ u[a] /\ p \in X \ u[a] /\ p \notin X \ u[p]  BY <2>3
      <3>2. Cardinality(X \ u[p]) < Cardinality(X \ u[a])
        <4>1. X \ u[p] # X \ u[a]  BY <3>1
        <4>2. Cardinality(X \ u[p]) <= Cardinality(X \ u[a]) /\ Cardinality(X \ u[p]) # Cardinality(X \ u[a])
          BY <1>2, <1>4, <3>1, <4>1, FS_Subset
        <4>3. Cardinality(X \ u[p]) \in Nat /\ Cardinality(X \ u[a]) \in Nat  BY <1>2, <1>4, <2>3
        <4> QED BY <4>2, <4>3
      <3>3. ~(f[a] <= f[p])  BY <1>2, <1>4, <2>3, <3>2
      <3>4. p \notin T  BY <1>3, <3>3
      <3> QED BY <2>3, <3>4 DEF T
    <2>5. WayTo(u, r, a) = WayTo(u, r, p) \cup {a} /\ a \notin WayTo(u, r, p)
      <3>1. ASSUME NEW x \in X PROVE a \in u[x] <=> p \in u[x] \/ x = a
        <4>1. x = a => a \in u[x]  BY <1>2, <1>4
        <4>2. p \in u[x] => a \in u[x]
          <5>1. p \in u[x] => u[p] \subseteq u[x]  BY <1>1 DEF IsTree, X
          <5> QED BY <2>3, <5>1
        <4>3. a \in u[x] /\ x # a => p \in u[x]
          <5>1. a # Null  BY <1>2, <1>4
          <5> QED BY <1>1, <2>2, <2>3, <5>1, ParentBelow DEF X
        <4> QED BY <4>1, <4>2, <4>3
      <3> QED BY <1>4, <2>3, <3>1 DEF WayTo, X
    <2>6. BlacksTo(w, u, r, a) = IF w[a] = "black" THEN BlacksTo(w, u, r, p) \cup {a} ELSE BlacksTo(w, u, r, p)
      BY <2>5 DEF BlacksTo
    <2>7. a \notin BlacksTo(w, u, r, p)  BY <2>5 DEF BlacksTo
    <2>8. /\ IsFiniteSet(WayTo(u, r, p)) /\ IsFiniteSet(BlacksTo(w, u, r, p))
          /\ Cardinality(WayTo(u, r, p)) \in Nat /\ Cardinality(BlacksTo(w, u, r, p)) \in Nat
      <3>1. WayTo(u, r, p) \subseteq TreeElem /\ BlacksTo(w, u, r, p) \subseteq TreeElem
        BY <1>1 DEF WayTo, BlacksTo, X
      <3> QED BY <1>1, <3>1, FS_Subset, FS_CardinalityType
    <2>9. Cardinality(WayTo(u, r, a)) = Cardinality(WayTo(u, r, p)) + 1
      BY <2>5, <2>8, FS_AddElement
    <2>10. Cardinality(BlacksTo(w, u, r, a)) = Cardinality(BlacksTo(w, u, r, p)) + Weight(w, a)
      <3>1. CASE w[a] = "black"
        BY <2>6, <2>7, <2>8, <3>1, FS_AddElement DEF Weight
      <3>2. CASE w[a] # "black"
        BY <2>6, <2>8, <3>2 DEF Weight
      <3> QED BY <3>1, <3>2
    <2>11. /\ h[p] = h[a] + Weight(w, p) /\ h[p] \in Nat /\ h[a] \in Nat /\ h[r] \in Nat
           /\ Weight(w, p) \in {0, 1} /\ Weight(w, a) \in {0, 1}
      <3>1. Lack(p, s, Null, "left") = 0  BY <1>1, <2>3 DEF Lack
      <3>2. h[p] \in Nat /\ h[a] \in Nat /\ h[r] \in Nat  BY <1>1, <1>2, <1>4, <2>3 DEF IsTree
      <3>3. h[p] = h[c[p][s]] + Weight(w, p) + Lack(p, s, Null, "left")  BY <1>1, <2>2, <2>3
      <3>4. Weight(w, p) \in {0, 1} /\ Weight(w, a) \in {0, 1}  BY DEF Weight
      <3> QED BY <2>2, <3>1, <3>2, <3>3, <3>4
    <2>12. Weight(w, p) = 1 \/ Weight(w, a) = 1
      <3>1. ~(IsRed(w, p) /\ IsRed(w, a))  BY <1>1, <2>2, <2>3
      <3> QED BY <1>1, <1>2, <1>4, <2>3, <3>1 DEF IsRed, Weight
    <2>13. /\ Cardinality(BlacksTo(w, u, r, p)) = h[r] - h[p] + Weight(w, p)
           /\ Cardinality(WayTo(u, r, p)) + Weight(w, p) <= 2 * Cardinality(BlacksTo(w, u, r, p))
      BY <2>4 DEF Counted
    <2>14. Cardinality(BlacksTo(w, u, r, a)) = h[r] - h[a] + Weight(w, a)
      BY <2>10, <2>11, <2>13
    <2>15. Cardinality(WayTo(u, r, a)) + Weight(w, a) <= 2 * Cardinality(BlacksTo(w, u, r, a))
      BY <2>8, <2>9, <2>10, <2>11, <2>12, <2>13
    <2> QED BY <1>4, <2>14, <2>15 DEF Counted
  <1> QED BY <1>6, <1>7

-----------------------------------------------------------------------------
(***************************************************************************)
(* The height.                                                             *)
(***************************************************************************)
\* The ways of a sound tree are those to the elements of its family.
LEMMA WaysAre ==
  ASSUME ElementsFit, NEW u, Shape(tree, u), NEW e \in u[tree.root]
  PROVE  Way(e) = WayTo(u, tree.root, e) /\ Blacks(e) = BlacksTo(tree.color, u, tree.root, e)
  <1>1. Set = u[tree.root]  BY SetIs DEF Set
  <1>2. \A x \in u[tree.root] : Below(tree, x) = u[x]  BY BelowShape
  <1>3. Way(e) = WayTo(u, tree.root, e)  BY <1>1, <1>2 DEF Way, WayTo
  <1> QED BY <1>3 DEF Blacks, BlacksTo

\* On every way to a leaf there are as many black elements as the root is high.
LEMMA LeavesLevel ==
  ASSUME ElementsFit, NEW u, NEW h, Shape(tree, u), Even(tree.child, tree.root, tree.color, u, h)
  PROVE  \E n \in 0 .. Cardinality(TreeElem) : \A e \in Set : HasLeaf(e) => Cardinality(Blacks(e)) = n
  <1> DEFINE c == tree.child
             r == tree.root
             w == tree.color
             m == Outermost(tree, r, "left")
  <1>1. Set = u[r] /\ u[r] \subseteq TreeElem  BY SetIs DEF Set
  <1>2. /\ h \in [Link -> Nat] /\ h[Null] = 0 /\ IsTree(c, r, u) /\ r \in Link
        /\ \A a \in u[r] : \A x \in Sides : h[a] = h[c[a][x]] + Weight(w, a) + Lack(a, x, Null, "left")
    BY DEF Even, Level, IsTree
  <1>3. ASSUME NEW e \in u[r], HasLeaf(e) PROVE Cardinality(Blacks(e)) = h[r]
    <2>1. PICK s \in Sides : c[e][s] = Null  BY <1>3 DEF HasLeaf
    <2>2. e \in TreeElem /\ e # Null /\ e \in Link  BY <1>1, ElementsFit DEF ElementsFit, Link
    <2>3. Lack(e, s, Null, "left") = 0  BY <2>2 DEF Lack
    <2>4. Weight(w, e) \in Nat  BY DEF Weight
    <2>5. h[e] = Weight(w, e)
      <3>1. h[e] = h[c[e][s]] + Weight(w, e) + Lack(e, s, Null, "left")  BY <1>2
      <3> HIDE DEF c, w, r
      <3> QED BY <1>2, <2>1, <2>3, <2>4, <3>1
    <2>6. Counted(w, u, h, r, e)  BY WayIs
    <2>7. h[r] \in Nat  BY <1>2
    <2>8. Blacks(e) = BlacksTo(w, u, r, e)  BY WaysAre
    <2>9. Cardinality(BlacksTo(w, u, r, e)) = h[r] - h[e] + Weight(w, e)  BY <2>6 DEF Counted
    <2> HIDE DEF c, w, r
    <2> QED BY <2>4, <2>5, <2>7, <2>8, <2>9
  <1>4. h[r] \in 0 .. Cardinality(TreeElem)
    <2>1. Cardinality(TreeElem) \in Nat /\ IsFiniteSet(TreeElem)  BY FS_CardinalityType DEF ElementsFit
    <2>2. CASE r = Null  BY <1>2, <2>1, <2>2
    <2>3. CASE r # Null
      <3>1. r \in u[r] /\ "left" \in Sides  BY <1>2, <2>3, SidesAre DEF IsTree
      <3>2. m \in u[r] /\ c[m]["left"] = Null
        <4>1. IsTree(tree.child, tree.root, u) /\ tree.root \in u[tree.root]  BY <1>2, <3>1
        <4>2. \A x, v : IsTree(tree.child, x, v) =>
                \A a \in v[x] : \A s \in Sides :
                  Outermost(tree, a, s) \in v[a] /\ tree.child[Outermost(tree, a, s)][s] = Null
          BY OutermostIs
        <4> QED BY ONLY <3>1, <4>1, <4>2 DEF m, c, r
      <3>3. HasLeaf(m)  BY <3>1, <3>2 DEF HasLeaf
      <3>4. Cardinality(Blacks(m)) = h[r]  BY <1>3, <3>2, <3>3
      <3>5. Blacks(m) \subseteq TreeElem  BY <1>1 DEF Blacks, Way
      <3>6. Cardinality(Blacks(m)) <= Cardinality(TreeElem)  BY <2>1, <3>5, FS_Subset
      <3>7. h[r] \in Nat  BY <1>2
      <3> HIDE DEF c, w, r, m
      <3> QED BY <2>1, <3>4, <3>6, <3>7
    <2> QED BY <2>2, <2>3
  <1> HIDE DEF c, r, w, m
  <1>5. \A e \in Set : HasLeaf(e) => Cardinality(Blacks(e)) = h[r]  BY <1>1, <1>3
  <1> QED BY <1>4, <1>5

\* A red element has a black parent.
LEMMA RedsApart ==
  ASSUME ElementsFit, NEW u, NEW h, Shape(tree, u), Even(tree.child, tree.root, tree.color, u, h),
         NEW e \in Set, Red(tree, e)
  PROVE  tree.parent[e] # Null /\ ~Red(tree, tree.parent[e])
  <1>1. e \in u[tree.root]  BY SetIs DEF Set
  <1>2. IsRed(tree.color, e)  BY DEF Red, IsRed
  <1>3. /\ ~IsRed(tree.color, tree.root)
        /\ \A a \in u[tree.root] : \A x \in Sides :
             ~(IsRed(tree.color, a) /\ IsRed(tree.color, tree.child[a][x]))
    BY DEF Even
  <1>4. e # tree.root  BY <1>2, <1>3
  <1> DEFINE p == tree.parent[e]
             s == SideOf(tree, e, p)
  <1>5. p \in u[tree.root] /\ s \in Sides /\ tree.child[p][s] = e /\ p # Null
    BY <1>1, <1>4, ParentIs
  <1>6. ~IsRed(tree.color, p)  BY <1>2, <1>3, <1>5
  <1> QED BY <1>5, <1>6 DEF Red, IsRed

\* No way is longer than 2 lg (n + 1).
LEMMA WaysShort ==
  ASSUME ElementsFit, NEW u, NEW h, Shape(tree, u), Even(tree.child, tree.root, tree.color, u, h),
         NEW e \in Set
  PROVE  TwoTo[Cardinality(Way(e))] <= (Cardinality(Set) + 1) * (Cardinality(Set) + 1)
  <1> DEFINE r == tree.root
             w == tree.color
             c == tree.child
             l == Cardinality(Way(e))
             n == Cardinality(Set)
             b == Cardinality(Blacks(e))
  <1>1. Set = u[r] /\ u[r] \subseteq TreeElem /\ e \in u[r] /\ IsFiniteSet(TreeElem)
    BY SetIs DEF Set, ElementsFit
  <1>2. l \in Nat /\ n \in Nat /\ b \in Nat
    <2>1. Way(e) \subseteq TreeElem /\ Blacks(e) \subseteq TreeElem  BY <1>1 DEF Way, Blacks
    <2> QED BY <1>1, <2>1, FS_Subset, FS_CardinalityType
  <1>3. /\ h \in [Link -> Nat] /\ IsTree(c, r, u) /\ r \in Link
        /\ \A a \in u[r] : \A x \in Sides : h[a] = h[c[a][x]] + Weight(w, a) + Lack(a, x, Null, "left")
    BY DEF Even, Level, IsTree
  <1>4. h[r] \in Nat /\ h[e] \in Nat /\ Weight(w, e) \in Nat
    BY <1>1, <1>3 DEF Weight, Link
  <1>5. h[e] >= Weight(w, e)
    <2>1. "left" \in Sides  BY SidesAre
    <2>2. c[e]["left"] \in Link  BY <1>1, <1>3, <2>1 DEF IsTree
    <2>3. h[c[e]["left"]] \in Nat  BY <1>3, <2>2
    <2>4. h[e] = h[c[e]["left"]] + Weight(w, e) + Lack(e, "left", Null, "left")  BY <1>1, <1>3, <2>1
    <2>5. Lack(e, "left", Null, "left") \in Nat  BY DEF Lack
    <2> HIDE DEF c, r, w
    <2> QED BY <1>4, <2>3, <2>4, <2>5
  <1>6. b = h[r] - h[e] + Weight(w, e) /\ l + Weight(w, e) <= 2 * b
    <2>1. Counted(w, u, h, r, e)  BY <1>1, WayIs
    <2>2. Way(e) = WayTo(u, r, e) /\ Blacks(e) = BlacksTo(w, u, r, e)  BY <1>1, WaysAre
    <2> QED BY <2>1, <2>2 DEF Counted
  <1>7. r \in u[r]
    <2>1. r # Null  BY <1>1, <1>3 DEF IsTree
    <2> QED BY <1>3, <2>1 DEF IsTree
  <1>8. TwoTo[h[r]] <= n + 1  BY <1>1, <1>7, ManyBelow
  <1> HIDE DEF r, w, c, l, n, b
  <1>9. l <= 2 * h[r] /\ 2 * h[r] \in Nat /\ l \in 0 .. 2 * h[r]
    <2>1. b <= h[r]  BY <1>2, <1>4, <1>5, <1>6
    <2>2. l <= 2 * b  BY <1>2, <1>4, <1>6
    <2> QED BY <1>2, <1>4, <2>1, <2>2
  <1>10. TwoTo[l] <= TwoTo[2 * h[r]] /\ TwoTo[2 * h[r]] = TwoTo[h[r]] * TwoTo[h[r]]
    BY <1>4, <1>9, TwoToGrows
  <1>11. TwoTo[h[r]] * TwoTo[h[r]] <= (n + 1) * (n + 1)
    <2>1. \A x, y \in Nat : x <= y => x * x <= y * y
      <3> SUFFICES ASSUME NEW x \in Nat, NEW y \in Nat, x <= y PROVE x * x <= y * y
        OBVIOUS
      <3>1. x * x <= x * y  OBVIOUS
      <3>2. x * y <= y * y  OBVIOUS
      <3>3. x * x \in Nat /\ x * y \in Nat /\ y * y \in Nat  OBVIOUS
      <3> QED BY ONLY <3>1, <3>2, <3>3
    <2>2. TwoTo[h[r]] \in Nat /\ n + 1 \in Nat  BY <1>2, <1>4, TwoToIs
    <2> QED BY <1>8, <2>1, <2>2
  <1>12. TwoTo[l] \in Nat /\ TwoTo[2 * h[r]] \in Nat /\ (n + 1) * (n + 1) \in Nat
    BY <1>2, <1>9, TwoToIs
  <1>13. TwoTo[l] <= (n + 1) * (n + 1)
    <2> DEFINE x == TwoTo[l]
               y == TwoTo[2 * h[r]]
               z == (n + 1) * (n + 1)
    <2>1. x \in Nat /\ y \in Nat /\ z \in Nat /\ x <= y /\ y <= z  BY <1>10, <1>11, <1>12
    <2> HIDE DEF x, y, z
    <2>2. x <= z  BY ONLY <2>1
    <2> QED BY <2>2 DEF x, z
  <1> QED BY <1>13 DEF l, n

\* The conditions of the comment at 51-59 of tree.h: after every call the ways to the leaves
\* have equally many black elements, no red element has a red parent, and the height is at
\* most 2 lg (n + 1), so that a search takes no more steps.
THEOREM RulesHold ==
  ASSUME ElementsFit
  PROVE  RbSpec => []RedBlackRules
  <1>1. Sound(tree) => RedBlackRules
    <2> SUFFICES ASSUME NEW u, NEW h, Shape(tree, u), Even(tree.child, tree.root, tree.color, u, h)
                 PROVE  RedBlackRules
      BY DEF Sound
    <2>1. \E n \in 0 .. Cardinality(TreeElem) : \A e \in Set : HasLeaf(e) => Cardinality(Blacks(e)) = n
      BY LeavesLevel
    <2>2. \A e \in Set : Red(tree, e) => tree.parent[e] # Null /\ ~Red(tree, tree.parent[e])
      BY RedsApart
    <2>3. \A e \in Set : TwoTo[Cardinality(Way(e))] <= (Cardinality(Set) + 1) * (Cardinality(Set) + 1)
      BY WaysShort
    <2> QED BY <2>1, <2>2, <2>3 DEF RedBlackRules
  <1> QED BY <1>1, SoundAlways, PTL
=============================================================================
