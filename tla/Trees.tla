--------------------------------- MODULE Trees ---------------------------------
(***************************************************************************)
(* What the two trees of sys/tree.h have in common.  A tree is a record of *)
(* the pointers, and a macro of the header is an operator on such records; *)
(* its left and right halves are one operator with the side as argument.   *)
(* The elements are compared by their keys.                                *)
(***************************************************************************)
EXTENDS Integers, FiniteSets, Pointers

CONSTANTS TreeElem, Key

\* A pointer, to an element or to none.
Link == TreeElem \cup {Null}

ElementsFit == IsFiniteSet(TreeElem) /\ Null \notin TreeElem /\ \A e \in TreeElem : Key[e] \in Int

Sides    == {"left", "right"}
Other(s) == IF s = "left" THEN "right" ELSE "left"
NoChild  == [s \in Sides |-> Null]

\* Where the search for the key k goes on from x, which has another key.
Toward(k, x) == IF k < Key[x] THEN "left" ELSE "right"

\* A loop: the function step is the body, and leaves a state alone at which the loop ends.
\* A loop down or up a tree meets each element once at most.
Repeat(step, x) ==
  LET after[n \in 0 .. Cardinality(TreeElem)] == IF n = 0 THEN x ELSE step[after[n - 1]]
  IN  after[Cardinality(TreeElem)]

\* The outermost element on side s below e.
Outermost(t, e, s) ==
  Repeat([x \in TreeElem |-> IF t.child[x][s] = Null THEN x ELSE t.child[x][s]], e)

\* The elements that can be reached from e.
Below(t, e) ==
  Repeat([X \in SUBSET TreeElem |->
            X \cup ({t.child[x][s] : x \in X, s \in Sides} \ {Null})], {e} \ {Null})
=============================================================================
