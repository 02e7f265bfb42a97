------------------------------- MODULE LinkedList -------------------------------
(***************************************************************************)
(* LIST of sys/queue.h: doubly linked lists that do not know their end.    *)
(* LIST_REMOVE and LIST_INSERT_BEFORE know no head either, they go by the  *)
(* pointer back to the cell that points to the element.                    *)
(***************************************************************************)
EXTENDS Cells

VARIABLE prev   \* le_prev: the cell that points to an element

vars == <<next, prev>>

Init == next = [c \in Cell |-> Null] /\ prev = [e \in Elem |-> Null]

-----------------------------------------------------------------------------
\* Mutant: the old first element still points back to the head.
InsertBehindHalf(c, e) ==
  /\ next' = [next EXCEPT ![e] = next[c], ![c] = e]
  /\ prev' = [prev EXCEPT ![e] = c]

InsertBehind(c, e) ==
  /\ next' = [next EXCEPT ![e] = next[c], ![c] = e]
  /\ prev' = [x \in Elem |-> CASE x = e       -> c
                               [] x = next[c] -> e
                               [] OTHER       -> prev[x]]

\* LIST_INSERT_HEAD, LIST_INSERT_AFTER
InsertHead(h, e)  == e \in Free /\ InsertBehind(h, e)
InsertAfter(l, e) == l \notin Free /\ e \in Free /\ InsertBehind(l, e)

\* LIST_INSERT_BEFORE
InsertBefore(l, e) ==
  /\ l \notin Free /\ e \in Free
  /\ next' = [next EXCEPT ![e] = l, ![prev[l]] = e]
  /\ prev' = [prev EXCEPT ![e] = prev[l], ![l] = e]

\* LIST_REMOVE; the caller then frees the element.
Remove(e) ==
  /\ e \notin Free
  /\ next' = [next EXCEPT ![prev[e]] = next[e], ![e] = Null]
  /\ prev' = [x \in Elem |-> CASE x = e       -> Null
                               [] x = next[e] -> prev[e]
                               [] OTHER       -> prev[x]]

\* LIST_CONCAT walks to the end of the first list.
Concat(h, g) ==
  IF next[g] = Null THEN UNCHANGED vars ELSE
    /\ next' = [next EXCEPT ![Final(h)] = next[g], ![g] = Null]
    /\ prev' = [prev EXCEPT ![next[g]] = Final(h)]

\* LIST_SWAP
Swap(h, g) ==
  /\ next' = [next EXCEPT ![h] = next[g], ![g] = next[h]]
  /\ prev' = [x \in Elem |-> CASE x = next[g] -> h
                               [] x = next[h] -> g
                               [] OTHER       -> prev[x]]

\* LIST_PREV is given the head, and takes any other cell for an element.
PrevElem(h, e) == IF prev[e] = h THEN Null ELSE prev[e]

Next ==
  \/ \E h \in Heads :
       \/ \E e \in Elem : InsertHead(h, e)
       \/ \E g \in Heads \ {h} : Concat(h, g) \/ Swap(h, g)
  \/ \E e \in Elem :
       \/ Remove(e)
       \/ \E l \in Elem : InsertAfter(l, e) \/ InsertBefore(l, e)

-----------------------------------------------------------------------------
(***************************************************************************)
(* Properties.                                                             *)
(***************************************************************************)
\* What QMD_LIST_CHECK_HEAD, _NEXT and _PREV verify at single elements (488-518): whatever a
\* cell points to points back to it.
Linked ==
  \A h \in Heads :
    LET cells == <<h>> \o Walk(h) IN
      \A i \in 1 .. Len(Walk(h)) : prev[cells[i + 1]] = cells[i]

L == INSTANCE Lists WITH lists <- [h \in Heads |-> Walk(h)]

\* A step is one on the sequence that the element is in, though no head is given.
ActsOnLists ==
  \A h \in Heads :
    /\ \A e \in Elem :
         /\ InsertHead(h, e) => L!InsertHead(h, e)
         /\ e \in In(h) /\ Remove(e) => L!RemoveElem(h, e)
         /\ \A l \in In(h) : /\ InsertAfter(l, e) => L!InsertAfter(h, l, e)
                             /\ InsertBefore(l, e) => L!InsertBefore(l, e)
    /\ \A g \in Heads \ {h} :
         (Concat(h, g) => L!Concat(h, g)) /\ (Swap(h, g) => L!Swap(h, g))

\* LIST_PREV finds the right element.
AnswersFromLists == \A h \in Heads : \A e \in In(h) : PrevElem(h, e) = L!PrevOf(h, e)
=============================================================================
