--------------------------------- MODULE Splay ---------------------------------
(***************************************************************************)
(* SPLAY of sys/tree.h: trees that move the element asked for to the root. *)
(* The search takes the tree apart into elements to the left and to the    *)
(* right of the key, which hang on an element on the stack, __node, until  *)
(* they are put together again.                                            *)
(***************************************************************************)
EXTENDS Trees

CONSTANT Node

NodeIsNoElement == Node \notin Link

VARIABLES
  splay,         \* sph_root, and of each element and of __node spe_left and spe_right
  splayAnswer    \* the result of the last call

splayVars == <<splay, splayAnswer>>

SplayCell  == TreeElem \cup {Node}
SplayTree  == [root : Link, child : [SplayCell -> [Sides -> Link]]]
SplayEmpty == [root |-> Null, child |-> [e \in SplayCell |-> NoChild]]

\* The results of the comparisons: with the key of e, or the constant of MINMAX.
Compare(e) == [x \in TreeElem |-> IF Key[e] < Key[x] THEN "left"
                                   ELSE IF Key[e] > Key[x] THEN "right" ELSE "here"]
Always(s)  == [x \in TreeElem |-> s]

\* SPLAY_ROTATE_RIGHT, SPLAY_ROTATE_LEFT: the child on side s becomes the root.
SplayRotate(t, s) ==
  LET up == t.child[t.root][s] IN
  [t EXCEPT !.child[t.root][s] = t.child[up][Other(s)],
            !.child[up][Other(s)] = t.root, !.root = up]

\* SPLAY_LINKLEFT, SPLAY_LINKRIGHT: the root is hung on c, its child on side s is the root.
Hook(t, c, s) == [t EXCEPT !.child[c][s] = t.root, !.root = t.child[t.root][s]]

\* SPLAY_ASSEMBLE; afterwards __node is gone.
Assemble(t, l, r) ==
  LET t1 == [t EXCEPT !.child[l]["right"] = t.child[t.root]["left"],
                      !.child[r]["left"]  = t.child[t.root]["right"]]
  IN  [t1 EXCEPT !.child[t.root]["left"]  = t1.child[Node]["right"],
                 !.child[t.root]["right"] = t1.child[Node]["left"],
                 !.child[Node] = NoChild]

\* One round of the loop of SPLAY and SPLAY_MINMAX; l and r are __left and __right, and the
\* loop ends where nothing is on the side to which the comparison points.
SplayRound(z, cmp) ==
  LET s   == cmp[z.t.root]
      tmp == z.t.child[z.t.root][s]
      t1  == IF cmp[tmp] = s THEN SplayRotate(z.t, s) ELSE z.t
  IN  IF s = "here" \/ tmp = Null THEN z
      ELSE IF t1.child[t1.root][s] = Null THEN [z EXCEPT !.t = t1]
      ELSE IF s = "left" THEN [z EXCEPT !.t = Hook(t1, z.r, s), !.r = t1.root]
      ELSE [z EXCEPT !.t = Hook(t1, z.l, s), !.l = t1.root]

Descend(t, cmp) ==
  Repeat([z \in [t : SplayTree, l : SplayCell, r : SplayCell] |-> SplayRound(z, cmp)],
         [t |-> t, l |-> Node, r |-> Node])

SplayTo(t, cmp) == LET end == Descend(t, cmp) IN Assemble(end.t, end.l, end.r)

SplaySet == Below(splay, splay.root)

-----------------------------------------------------------------------------
SplayInit == splay = SplayEmpty /\ splayAnswer = Null

\* The root goes to one side of the new element, and one subtree of it to the other.
SplayInsert(e) ==
  /\ e \notin SplaySet
  /\ IF splay.root = Null THEN
       splay' = [splay EXCEPT !.root = e, !.child[e] = NoChild] /\ splayAnswer' = Null ELSE
     LET t == SplayTo(splay, Compare(e))
         s == Compare(e)[t.root]
     IN  IF s = "here" THEN splay' = t /\ splayAnswer' = t.root ELSE
           /\ splay' = [t EXCEPT !.child[e][s] = t.child[t.root][s],
                                 !.child[e][Other(s)] = t.root,
                                 !.child[t.root][s] = Null, !.root = e]
           /\ splayAnswer' = Null

\* Mutant: the search for the predecessor is left out.
RemoveNoSplay(e) ==
  IF splay.root = Null THEN splayAnswer' = Null /\ UNCHANGED splay ELSE
  LET t == SplayTo(splay, Compare(e))
      k == t.child[t.root]
      u == [t EXCEPT !.root = k["left"]]
  IN  IF Key[t.root] # Key[e] THEN splayAnswer' = Null /\ splay' = t ELSE
        /\ splayAnswer' = e
        /\ splay' = [IF k["left"] = Null THEN [t EXCEPT !.root = k["right"]]
                       ELSE [u EXCEPT !.child[u.root]["right"] = k["right"]]
                     EXCEPT !.child[t.root] = NoChild]

\* The answer is the argument; the element with its key leaves, and is freed.
SplayRemove(e) ==
  IF splay.root = Null THEN splayAnswer' = Null /\ UNCHANGED splay ELSE
  LET t == SplayTo(splay, Compare(e))
      k == t.child[t.root]
      u == SplayTo([t EXCEPT !.root = k["left"]], Compare(e))
  IN  IF Key[t.root] # Key[e] THEN splayAnswer' = Null /\ splay' = t ELSE
        /\ splayAnswer' = e
        /\ splay' = [IF k["left"] = Null THEN [t EXCEPT !.root = k["right"]]
                       ELSE [u EXCEPT !.child[u.root]["right"] = k["right"]]
                     EXCEPT !.child[t.root] = NoChild]

SplayFind(e) ==
  IF splay.root = Null THEN splayAnswer' = Null /\ UNCHANGED splay ELSE
  LET t == SplayTo(splay, Compare(e)) IN
    splay' = t /\ splayAnswer' = IF Key[t.root] = Key[e] THEN t.root ELSE Null

\* SPLAY_NEXT takes e to the root and looks below it.
SplayAfter(e) ==
  /\ e \in SplaySet
  /\ LET t == SplayTo(splay, Compare(e))
         c == t.child[e]["right"]
     IN  splay' = t /\ splayAnswer' = IF c = Null THEN Null ELSE Outermost(t, c, "left")

SplayMinMax(s) ==
  IF splay.root = Null THEN splayAnswer' = Null /\ UNCHANGED splay ELSE
  LET t == SplayTo(splay, Always(s)) IN splay' = t /\ splayAnswer' = t.root

SplayNext ==
  \/ \E e \in TreeElem : SplayInsert(e) \/ SplayRemove(e) \/ SplayFind(e) \/ SplayAfter(e)
  \/ \E s \in Sides : SplayMinMax(s)

SplaySpec == SplayInit /\ [][SplayNext]_splayVars

-----------------------------------------------------------------------------
(***************************************************************************)
(* Properties.                                                             *)
(***************************************************************************)
SplayOrder == INSTANCE OrderedSet WITH Elem <- TreeElem, set <- SplaySet, answer <- splayAnswer

\* A step is one on the set of the elements: also a question, which takes the tree apart,
\* keeps them all, and has the answer that the set gives.
SplayActsOnSet ==
  [][/\ \A e \in TreeElem :
          /\ SplayInsert(e) => SplayOrder!Insert(e)
          /\ SplayRemove(e) => SplayOrder!Remove(e)
          /\ SplayFind(e)   => SplayOrder!Ask(SplayOrder!FindOf(e))
          /\ SplayAfter(e)  => SplayOrder!Ask(SplayOrder!NextOf(e))
     /\ SplayMinMax("left")  => SplayOrder!Ask(SplayOrder!MinOf)
     /\ SplayMinMax("right") => SplayOrder!Ask(SplayOrder!MaxOf)]_splayVars
=============================================================================
