------------------------------- MODULE RedBlack -------------------------------
(***************************************************************************)
(* RB of sys/tree.h: red-black trees.  Beside the pointers, the record has *)
(* the colours.                                                            *)
(***************************************************************************)
EXTENDS Trees

VARIABLES
  tree,    \* rbh_root, and of each element rbe_left and rbe_right, rbe_parent, rbe_color
  answer   \* the result of the last call

rbVars == <<tree, answer>>

Tree == [root : Link, child : [TreeElem -> [Sides -> Link]], parent : [TreeElem -> Link],
         color : [TreeElem -> {"red", "black"}]]

Empty ==
  [root |-> Null, child |-> [e \in TreeElem |-> NoChild],
   parent |-> [e \in TreeElem |-> Null], color |-> [e \in TreeElem |-> "black"]]

\* Writes to a field; where the code checks for NULL first, a write to Null is none.
SetChild(t, e, s, c) == [t EXCEPT !.child[e][s] = c]
SetParent(t, e, p)   == IF e = Null THEN t ELSE [t EXCEPT !.parent[e] = p]
Paint(t, e, c)       == IF e = Null THEN t ELSE [t EXCEPT !.color[e] = c]

Red(t, e)         == e # Null /\ t.color[e] = "red"
SideOf(t, e, p)   == IF t.child[p]["left"] = e THEN "left" ELSE "right"
BlackRed(t, b, r) == Paint(Paint(t, b, "black"), r, "red")

\* Below p, or as the root, new replaces old.
Hang(t, p, old, new) ==
  IF p = Null THEN [t EXCEPT !.root = new] ELSE SetChild(t, p, SideOf(t, old, p), new)

\* up takes the place of its parent e, which becomes its child on side s.
Raise(t, up, e, s) ==
  LET t1 == Hang(SetParent(t, up, t.parent[e]), t.parent[e], e, up)
  IN  SetParent(SetChild(t1, up, s, e), e, up)

\* Mutant: the inner subtree keeps its parent.
RotateKeepParent(t, e, s) ==
  LET up == t.child[e][Other(s)] IN
  Raise(SetChild(t, e, Other(s), t.child[up][s]), up, e, s)

\* RB_ROTATE_LEFT, RB_ROTATE_RIGHT: e moves down to side s, its other child takes its place.
Rotate(t, e, s) ==
  LET up    == t.child[e][Other(s)]
      inner == t.child[up][s]
  IN  Raise(SetParent(SetChild(t, e, Other(s), inner), inner, e), up, e, s)

-----------------------------------------------------------------------------
\* One round of RB_INSERT_COLOR: the parent of the red element e is red as well.
InsertRound(t, e) ==
  LET p == t.parent[e]
      g == t.parent[p]
      s == SideOf(t, p, g)
      u == t.child[g][Other(s)]
      inside == t.child[p][Other(s)] = e
      t1 == IF inside THEN Rotate(t, p, s) ELSE t
      p1 == IF inside THEN e ELSE p
      e1 == IF inside THEN p ELSE e
  IN  IF Red(t, u) THEN [t |-> BlackRed(Paint(t, u, "black"), p, g), e |-> g]
                   ELSE [t |-> Rotate(BlackRed(t1, p1, g), g, Other(s)), e |-> e1]

\* The red element e has a new parent, which must be black.
InsertColor(t, e) ==
  LET step == [z \in [t : Tree, e : TreeElem] |->
                 IF Red(z.t, z.t.parent[z.e]) THEN InsertRound(z.t, z.e) ELSE z]
      end  == Repeat(step, [t |-> t, e |-> e]).t
  IN  Paint(end, end.root, "black")

\* One round of RB_REMOVE_COLOR: e is black, and so is w after the first rotation.
RemoveRound(t, p, e) ==
  LET s  == SideOf(t, e, p)
      o  == Other(s)
      w  == t.child[p][o]
      t1 == IF Red(t, w) THEN Rotate(BlackRed(t, w, p), p, s) ELSE t
      w1 == t1.child[p][o]
      t2 == IF Red(t1, t1.child[w1][o]) THEN t1
              ELSE Rotate(BlackRed(t1, t1.child[w1][s], w1), w1, o)
      w2 == t2.child[p][o]
      t3 == Paint(Paint(t2, w2, t2.color[p]), p, "black")
      t4 == Rotate(Paint(t3, t3.child[w2][o], "black"), p, s)
  IN  IF \A x \in Sides : ~Red(t1, t1.child[w1][x])
        THEN [t |-> Paint(t1, w1, "red"), p |-> t1.parent[p], e |-> p]
        ELSE [t |-> t4, p |-> p, e |-> t4.root]

\* Mutant: only a red child makes up for the missing black element.
RemoveColorChildOnly(t, p, e) == Paint(t, e, "black")

\* Below p on the side of e, a black element is missing.
RemoveColor(t, p, e) ==
  LET step == [z \in [t : Tree, p : Link, e : Link] |->
                 IF Red(z.t, z.e) \/ z.e = z.t.root THEN z ELSE RemoveRound(z.t, z.p, z.e)]
      end  == Repeat(step, [t |-> t, p |-> p, e |-> e])
  IN  Paint(end.t, end.e, "black")

\* Mutant: a child on the right is forgotten.
UnlinkLeftOnly(t, e) ==
  LET c == t.child[e]["left"]
  IN  Hang(SetParent(t, c, t.parent[e]), t.parent[e], e, c)

\* Takes e, which has at most one child, out of the tree.
Unlink(t, e) ==
  LET c == IF t.child[e]["left"] = Null THEN t.child[e]["right"] ELSE t.child[e]["left"]
  IN  Hang(SetParent(t, c, t.parent[e]), t.parent[e], e, c)

\* The place, the children and the colour of e become those of m.
TakePlace(t, e, m) ==
  LET t1 == [t EXCEPT !.child[m] = t.child[e], !.parent[m] = t.parent[e],
                      !.color[m] = t.color[e]]
      t2 == Hang(t1, t1.parent[e], e, m)
  IN  SetParent(SetParent(t2, t2.child[e]["left"], m), t2.child[e]["right"], m)

\* The element that is unlinked: e itself, or its successor, which then takes its place.
Removed(t, e) ==
  LET m  == IF \E s \in Sides : t.child[e][s] = Null THEN e
              ELSE Outermost(t, t.child[e]["right"], "left")
      c  == IF t.child[m]["left"] = Null THEN t.child[m]["right"] ELSE t.child[m]["left"]
      p  == IF t.parent[m] = e THEN m ELSE t.parent[m]
      t1 == Unlink(t, m)
      t2 == IF m = e THEN t1 ELSE TakePlace(t1, e, m)
  IN  IF t.color[m] = "red" THEN t2
                            ELSE RemoveColor(t2, p, c)

\* Where the search for a key ends: the element that has it, or the last one on the way.
Search(t, x, k) ==
  Repeat([y \in TreeElem |-> LET c == t.child[y][Toward(k, y)] IN
                             IF k = Key[y] \/ c = Null THEN y ELSE c], x)

\* The search for a key or the next greater one: tmp and res of the code.
NSearch(t, k) ==
  LET step == [z \in Link \X Link |->
                 IF z[1] = Null \/ k = Key[z[1]] THEN z
                 ELSE LET s == Toward(k, z[1]) IN
                      <<t.child[z[1]][s], IF s = "left" THEN z[1] ELSE z[2]>>]
      end  == Repeat(step, <<t.root, Null>>)
  IN  IF end[1] = Null THEN end[2] ELSE end[1]

\* Up from e as long as it lies on side s of the parent.
Climb(t, e, s) ==
  t.parent[Repeat([x \in TreeElem |-> LET p == t.parent[x] IN
                                      IF p # Null /\ x = t.child[p][s] THEN p ELSE x], e)]

\* Mutant: the way up is one step.
NeighbourOneStep(t, e, s) ==
  IF t.child[e][s] # Null THEN Outermost(t, t.child[e][s], Other(s)) ELSE t.parent[e]

Neighbour(t, e, s) ==
  IF t.child[e][s] # Null THEN Outermost(t, t.child[e][s], Other(s)) ELSE Climb(t, e, s)

-----------------------------------------------------------------------------
Set == Below(tree, tree.root)

RbInit == tree = Empty /\ answer = Null

\* RB_SET, the link from the parent, and the new colours.
RbInsert(e) ==
  /\ e \notin Set
  /\ LET x == IF tree.root = Null THEN Null ELSE Search(tree, tree.root, Key[e])
         t == SetParent(Paint([tree EXCEPT !.child[e] = NoChild], e, "red"), e, x)
     IN  IF x # Null /\ Key[x] = Key[e]
           THEN answer' = x /\ UNCHANGED tree
           ELSE /\ answer' = Null
                /\ tree' = InsertColor(
                     IF x = Null THEN [t EXCEPT !.root = e]
                       ELSE SetChild(t, x, Toward(Key[e], x), e), e)

\* The caller frees the element, and its fields are lost.
RbRemove(e) ==
  /\ e \in Set
  /\ tree' = [Removed(tree, e) EXCEPT !.child[e] = NoChild, !.parent[e] = Null, !.color[e] = "black"]
  /\ answer' = e

\* The answers of RB_FIND, RB_NFIND, RB_MIN and RB_MAX; those of RB_NEXT and RB_PREV are
\* the neighbours.
RbFind(e) ==
  LET x == IF tree.root = Null THEN Null ELSE Search(tree, tree.root, Key[e]) IN
  IF x # Null /\ Key[x] = Key[e] THEN x ELSE Null

RbNFind(e)  == NSearch(tree, Key[e])
RbMinMax(s) == IF tree.root = Null THEN Null ELSE Outermost(tree, tree.root, s)

RbNext == \E e \in TreeElem : RbInsert(e) \/ RbRemove(e)

RbSpec == RbInit /\ [][RbNext]_rbVars

-----------------------------------------------------------------------------
(***************************************************************************)
(* Properties.                                                             *)
(***************************************************************************)
\* The way from the root to e, and the black elements on it.
Way(e)    == {x \in Set : e \in Below(tree, x)}
Blacks(e) == {x \in Way(e) : tree.color[x] = "black"}

\* A leaf of the comment is a child that is not there.
HasLeaf(e) == \E s \in Sides : tree.child[e][s] = Null

\* 2 ^ n
TwoTo[n \in Nat] == IF n = 0 THEN 1 ELSE 2 * TwoTo[n - 1]

\* The conditions of the comment at 51-59: as many black elements on every way to a leaf, a
\* red element has a black parent (here the root is black too), and the height is at most
\* 2 lg (n + 1).
RedBlackRules ==
  /\ \E n \in 0 .. Cardinality(TreeElem) : \A e \in Set : HasLeaf(e) => Cardinality(Blacks(e)) = n
  /\ \A e \in Set : Red(tree, e) => tree.parent[e] # Null /\ ~Red(tree, tree.parent[e])
  /\ \A e \in Set : TwoTo[Cardinality(Way(e))] <= (Cardinality(Set) + 1) * (Cardinality(Set) + 1)

\* Children and parents point to each other.  RB_NEXT goes up, and RB_REMOVE hangs the
\* child below the parent that the element names.
ParentsKnowChildren ==
  /\ tree.root # Null => tree.parent[tree.root] = Null
  /\ \A e \in Set, s \in Sides :
       tree.child[e][s] # Null => tree.parent[tree.child[e][s]] = e

RbOrder == INSTANCE OrderedSet WITH Elem <- TreeElem, set <- Set

\* A step is one on the set of the elements.
RedBlackActsOnSet ==
  [][\A e \in TreeElem : /\ RbInsert(e) => RbOrder!Insert(e)
                        /\ RbRemove(e) => RbOrder!Remove(e)]_rbVars

\* The questions have the answers that the set gives; so the tree is in order.
AnswersFromSet ==
  /\ \A e \in TreeElem : RbFind(e) = RbOrder!FindOf(e) /\ RbNFind(e) = RbOrder!NFindOf(e)
  /\ \A e \in Set : /\ Neighbour(tree, e, "right") = RbOrder!NextOf(e)
                     /\ Neighbour(tree, e, "left") = RbOrder!PrevOf(e)
  /\ RbMinMax("left") = RbOrder!MinOf /\ RbMinMax("right") = RbOrder!MaxOf
=============================================================================
