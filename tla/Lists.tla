--------------------------------- MODULE Lists ---------------------------------
(***************************************************************************)
(* What the queues of sys/queue.h promise: each head has a sequence, no    *)
(* element is in two places, and the operations do what their names say.   *)
(***************************************************************************)
EXTENDS Naturals, Sequences

CONSTANTS Heads, Elem, Null

VARIABLE lists   \* the sequence of each head

Pos(h, e) == CHOOSE i \in DOMAIN lists[h] : lists[h][i] = e
In(h)     == {lists[h][i] : i \in DOMAIN lists[h]}

\* The element e, which is in no list, becomes the i-th one of h.
Put(h, i, e) ==
  /\ \A g \in Heads : e \notin In(g)
  /\ lists' = [lists EXCEPT ![h] = SubSeq(@, 1, i - 1) \o <<e>> \o SubSeq(@, i, Len(@))]

InsertHead(h, e)     == Put(h, 1, e)
InsertTail(h, e)     == Put(h, Len(lists[h]) + 1, e)
InsertAfter(h, l, e) == Put(h, Pos(h, l) + 1, e)
InsertBefore(l, e)   == \E h \in Heads : l \in In(h) /\ Put(h, Pos(h, l), e)

\* Without the elements i to j.
Cut(h, i, j) == lists' = [lists EXCEPT ![h] = SubSeq(@, 1, i - 1) \o SubSeq(@, j + 1, Len(@))]

RemoveElem(h, e)      == Cut(h, Pos(h, e), Pos(h, e))
RemoveHead(h)         == Cut(h, 1, 1)
RemoveAfter(h, l)     == Cut(h, Pos(h, l) + 1, Pos(h, l) + 1)
RemoveHeadUntil(h, e) == Cut(h, 1, Pos(h, e))

Concat(h, g) == lists' = [lists EXCEPT ![h] = lists[h] \o lists[g], ![g] = <<>>]
Swap(h, g)   == lists' = [lists EXCEPT ![h] = lists[g], ![g] = lists[h]]

\* The answers to LAST and PREV.
LastOf(h)    == IF lists[h] = <<>> THEN Null ELSE lists[h][Len(lists[h])]
PrevOf(h, e) == IF Pos(h, e) = 1 THEN Null ELSE lists[h][Pos(h, e) - 1]
=============================================================================
