------------------------------ MODULE ForwardList ------------------------------
(***************************************************************************)
(* SLIST of sys/queue.h: singly linked lists that do not know their end.   *)
(***************************************************************************)
EXTENDS Cells

vars == next

Init == next = [c \in Cell |-> Null]

-----------------------------------------------------------------------------
InsertBehind(c, e) == next' = [next EXCEPT ![e] = next[c], ![c] = e]

\* SLIST_INSERT_HEAD, SLIST_INSERT_AFTER
InsertHead(h, e)  == e \in Free /\ InsertBehind(h, e)
InsertAfter(l, e) == l \notin Free /\ e \in Free /\ InsertBehind(l, e)

\* The element behind c is removed, and freed.
RemoveBehind(c) == next' = [next EXCEPT ![c] = next[next[c]], ![next[c]] = Null]

\* SLIST_REMOVE_HEAD, SLIST_REMOVE_AFTER
RemoveHead(h)  == next[h] # Null /\ RemoveBehind(h)
RemoveAfter(l) == l \notin Free /\ next[l] # Null /\ RemoveBehind(l)

\* SLIST_REMOVE looks for the element before; SLIST_REMOVE_PREVPTR is told, by FOREACH_PREVPTR.
Remove(h, e) == e \in In(h) /\ \E c \in {h} \cup In(h) : next[c] = e /\ RemoveBehind(c)

\* Mutant: the second list keeps its elements.
ConcatKeep(h, g) ==
  IF next[g] = Null THEN UNCHANGED next ELSE next' = [next EXCEPT ![Final(h)] = next[g]]

\* SLIST_CONCAT
Concat(h, g) ==
  IF next[g] = Null THEN UNCHANGED next
                    ELSE next' = [next EXCEPT ![Final(h)] = next[g], ![g] = Null]

\* SLIST_SWAP
Swap(h, g) == next' = [next EXCEPT ![h] = next[g], ![g] = next[h]]

Next ==
  \/ \E h \in Heads :
       \/ RemoveHead(h)
       \/ \E e \in Elem : InsertHead(h, e) \/ Remove(h, e)
       \/ \E g \in Heads \ {h} : Concat(h, g) \/ Swap(h, g)
  \/ \E l \in Elem :
       \/ RemoveAfter(l)
       \/ \E e \in Elem : InsertAfter(l, e)

-----------------------------------------------------------------------------
L == INSTANCE Lists WITH lists <- [h \in Heads |-> Walk(h)]

\* A step is one on the sequences; no element is lost or in two lists after it.
ActsOnLists ==
  \A h \in Heads :
    /\ RemoveHead(h) => L!RemoveHead(h)
    /\ \A e \in Elem :
         /\ InsertHead(h, e) => L!InsertHead(h, e)
         /\ Remove(h, e) => L!RemoveElem(h, e)
         /\ \A l \in In(h) : /\ InsertAfter(l, e) => L!InsertAfter(h, l, e)
                             /\ RemoveAfter(l) => L!RemoveAfter(h, l)
    /\ \A g \in Heads \ {h} :
         (Concat(h, g) => L!Concat(h, g)) /\ (Swap(h, g) => L!Swap(h, g))
=============================================================================
