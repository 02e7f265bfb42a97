------------------------------ MODULE SingleQueue ------------------------------
(***************************************************************************)
(* STAILQ of sys/queue.h: singly linked queues that know their last cell.  *)
(***************************************************************************)
EXTENDS Cells

VARIABLE last   \* stqh_last: the cell at the end of a queue

vars == <<next, last>>

Init ==
  /\ next = [c \in Cell |-> Null]
  /\ last = [h \in Heads |-> h]

-----------------------------------------------------------------------------
InsertBehind(h, c, e) ==
  /\ next' = [next EXCEPT ![e] = next[c], ![c] = e]
  /\ last' = IF next[c] = Null THEN [last EXCEPT ![h] = e] ELSE last

\* STAILQ_INSERT_HEAD, STAILQ_INSERT_AFTER, STAILQ_INSERT_TAIL
InsertHead(h, e)     == e \in Free /\ InsertBehind(h, h, e)
InsertAfter(h, l, e) == l \in In(h) /\ e \in Free /\ InsertBehind(h, l, e)
InsertTail(h, e) ==
  /\ e \in Free
  /\ next' = [next EXCEPT ![e] = Null, ![last[h]] = e]
  /\ last' = [last EXCEPT ![h] = e]

\* The element behind the cell c is removed, and freed.
RemoveBehind(h, c) ==
  LET e == next[c] IN
    /\ next' = [next EXCEPT ![c] = next[e], ![e] = Null]
    /\ last' = IF next[e] = Null THEN [last EXCEPT ![h] = c] ELSE last

\* STAILQ_REMOVE_HEAD, STAILQ_REMOVE_AFTER
RemoveHead(h)     == next[h] # Null /\ RemoveBehind(h, h)
RemoveAfter(h, l) == l \in In(h) /\ next[l] # Null /\ RemoveBehind(h, l)

\* STAILQ_REMOVE: the first, or the one behind the element that the loop finds
Remove(h, e) ==
  /\ e \in In(h)
  /\ \E c \in {h} \cup In(h) : next[c] = e /\ RemoveBehind(h, c)

\* STAILQ_REMOVE_HEAD_UNTIL: everything to e and e
RemoveHeadUntil(h, e) ==
  /\ e \in In(h)
  /\ \E i \in DOMAIN Walk(h) :
       /\ Walk(h)[i] = e
       /\ next' = [c \in Cell |-> CASE c = h                                -> next[e]
                                    [] \E k \in 1 .. i : Walk(h)[k] = c -> Null
                                    [] OTHER                                -> next[c]]
  /\ last' = IF next[e] = Null THEN [last EXCEPT ![h] = h] ELSE last

\* STAILQ_CONCAT
Concat(h, g) ==
  /\ IF next[g] = Null THEN UNCHANGED <<next, last>> ELSE
       /\ next' = [next EXCEPT ![last[h]] = next[g], ![g] = Null]
       /\ last' = [last EXCEPT ![h] = last[g], ![g] = g]

\* STAILQ_SWAP
Swap(h, g) ==
  /\ next' = [next EXCEPT ![h] = next[g], ![g] = next[h]]
  /\ last' = [last EXCEPT ![h] = IF next[g] = Null THEN h ELSE last[g],
                          ![g] = IF next[h] = Null THEN g ELSE last[h]]

\* STAILQ_LAST: the element that the last cell belongs to
LastElem(h) == IF next[h] = Null THEN Null ELSE last[h]

-----------------------------------------------------------------------------
Next ==
  \E h \in Heads :
    \/ \E e \in Elem :
         \/ InsertHead(h, e) \/ InsertTail(h, e)
         \/ \E l \in Elem : InsertAfter(h, l, e)
         \/ Remove(h, e) \/ RemoveAfter(h, e) \/ RemoveHeadUntil(h, e)
    \/ RemoveHead(h)
    \/ \E g \in Heads \ {h} : Concat(h, g) \/ Swap(h, g)

Spec == Init /\ [][Next]_vars

-----------------------------------------------------------------------------
(***************************************************************************)
(* Properties.                                                             *)
(***************************************************************************)
\* A queue ends where its head says; a stale last cell would let the next INSERT_TAIL write
\* into an element that is gone.
EndsAtLast ==
  \A h \in Heads :
    /\ last[h] = Final(h)
    /\ next[last[h]] = Null

L == INSTANCE Lists WITH lists <- [h \in Heads |-> Walk(h)]

\* A step is one on the sequences, the one with the name of the operation.
ActsOnLists ==
  \A h \in Heads :
    /\ \A e \in Elem :
         /\ InsertHead(h, e) => L!InsertHead(h, e)
         /\ InsertTail(h, e) => L!InsertTail(h, e)
         /\ Remove(h, e) => L!RemoveElem(h, e)
         /\ RemoveAfter(h, e) => L!RemoveAfter(h, e)
         /\ RemoveHeadUntil(h, e) => L!RemoveHeadUntil(h, e)
         /\ \A l \in Elem : InsertAfter(h, l, e) => L!InsertAfter(h, l, e)
    /\ RemoveHead(h) => L!RemoveHead(h)
    /\ \A g \in Heads \ {h} :
         (Concat(h, g) => L!Concat(h, g)) /\ (Swap(h, g) => L!Swap(h, g))

\* STAILQ_LAST finds the right element.
AnswersFromLists == \A h \in Heads : LastElem(h) = L!LastOf(h)
=============================================================================
