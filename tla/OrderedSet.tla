------------------------------ MODULE OrderedSet ------------------------------
(***************************************************************************)
(* What both trees of sys/tree.h promise: a set of elements with different *)
(* keys, kept in the order of their keys.                                  *)
(***************************************************************************)
EXTENDS Integers

CONSTANTS Elem, Key, Null

VARIABLES
  set,     \* the elements of the tree
  answer   \* the result of the last call

Equal(k)   == {x \in set : Key[x] = k}
AtLeast(k) == {x \in set : Key[x] >= k}

\* The element of S with the smallest key, or the greatest.
Smallest(S) == IF S = {} THEN Null ELSE CHOOSE x \in S : \A y \in S : Key[x] <= Key[y]
Greatest(S) == IF S = {} THEN Null ELSE CHOOSE x \in S : \A y \in S : Key[x] >= Key[y]

\* An element with the same key keeps its place and is the answer.
Insert(e) ==
  /\ e \notin set
  /\ set' = IF Equal(Key[e]) = {} THEN set \cup {e} ELSE set
  /\ answer' = Smallest(Equal(Key[e]))

\* The element with the key of e leaves; the answer is e.
Remove(e) ==
  /\ set' = set \ Equal(Key[e])
  /\ answer' = IF Equal(Key[e]) = {} THEN Null ELSE e

\* The answers of FIND, NFIND, NEXT, PREV, MIN and MAX.
FindOf(e)  == Smallest(Equal(Key[e]))
NFindOf(e) == Smallest(AtLeast(Key[e]))
NextOf(e)  == Smallest(AtLeast(Key[e] + 1))
PrevOf(e)  == Greatest({x \in set : Key[x] < Key[e]})
MinOf      == Smallest(set)
MaxOf      == Greatest(set)

\* A question changes nothing.
Ask(x) == answer' = x /\ UNCHANGED set
=============================================================================
