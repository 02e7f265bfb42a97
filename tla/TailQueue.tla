------------------------------- MODULE TailQueue -------------------------------
(***************************************************************************)
(* TAILQ of sys/queue.h: doubly linked queues whose back pointers do not   *)
(* point to the element before, but to the pointer in it that points here. *)
(* The field behind a cell is tqh_last or tqe_prev.                        *)
(***************************************************************************)
EXTENDS Cells

VARIABLES
  last,    \* tqh_last: the cell at the end of a queue
  prev     \* tqe_prev: the cell that points to an element

vars == <<next, last, prev>>

Init ==
  /\ next = [c \in Cell |-> Null]
  /\ last = [h \in Heads |-> h]
  /\ prev = [e \in Elem |-> Null]

-----------------------------------------------------------------------------
\* The element e goes behind the cell c.
InsertBehind(h, c, e) ==
  /\ next' = [next EXCEPT ![e] = next[c], ![c] = e]
  /\ prev' = [x \in Elem |-> CASE x = e       -> c
                               [] x = next[c] -> e
                               [] OTHER       -> prev[x]]
  /\ last' = IF next[c] = Null THEN [last EXCEPT ![h] = e] ELSE last

\* TAILQ_INSERT_HEAD
InsertHead(h, e) == e \in Free /\ InsertBehind(h, h, e)

\* TAILQ_INSERT_AFTER
InsertAfter(h, l, e) == l \in In(h) /\ e \in Free /\ InsertBehind(h, l, e)

\* TAILQ_INSERT_BEFORE needs no head.
InsertBefore(l, e) ==
  /\ l \notin Free /\ e \in Free
  /\ next' = [next EXCEPT ![e] = l, ![prev[l]] = e]
  /\ prev' = [prev EXCEPT ![e] = prev[l], ![l] = e]
  /\ UNCHANGED last

\* TAILQ_INSERT_TAIL
InsertTail(h, e) ==
  /\ e \in Free
  /\ next' = [next EXCEPT ![e] = Null, ![last[h]] = e]
  /\ prev' = [prev EXCEPT ![e] = last[h]]
  /\ last' = [last EXCEPT ![h] = e]

\* Mutant: last stays where it was.
RemoveKeepLast(h, e) ==
  /\ e \in In(h)
  /\ next' = [next EXCEPT ![prev[e]] = next[e], ![e] = Null]
  /\ prev' = [x \in Elem |-> CASE x = e       -> Null
                               [] x = next[e] -> prev[e]
                               [] OTHER       -> prev[x]]
  /\ UNCHANGED last

\* TAILQ_REMOVE; the caller then frees the element, and its fields are lost.
Remove(h, e) ==
  /\ e \in In(h)
  /\ next' = [next EXCEPT ![prev[e]] = next[e], ![e] = Null]
  /\ prev' = [x \in Elem |-> CASE x = e       -> Null
                               [] x = next[e] -> prev[e]
                               [] OTHER       -> prev[x]]
  /\ last' = IF next[e] = Null THEN [last EXCEPT ![h] = prev[e]] ELSE last

\* TAILQ_CONCAT; the second queue is empty afterwards (TAILQ_INIT).
Concat(h, g) ==
  /\ IF next[g] = Null THEN UNCHANGED <<next, last, prev>> ELSE
       /\ next' = [next EXCEPT ![last[h]] = next[g], ![g] = Null]
       /\ prev' = [prev EXCEPT ![next[g]] = last[h]]
       /\ last' = [last EXCEPT ![h] = last[g], ![g] = g]

\* Mutant: the first elements still point back to the other heads.
SwapFirst(h, g) ==
  /\ next' = [next EXCEPT ![h] = next[g], ![g] = next[h]]
  /\ last' = [last EXCEPT ![h] = IF next[g] = Null THEN h ELSE last[g],
                          ![g] = IF next[h] = Null THEN g ELSE last[h]]
  /\ UNCHANGED prev

\* TAILQ_SWAP; an empty queue ends in its own head.
Swap(h, g) ==
  /\ next' = [next EXCEPT ![h] = next[g], ![g] = next[h]]
  /\ last' = [last EXCEPT ![h] = IF next[g] = Null THEN h ELSE last[g],
                          ![g] = IF next[h] = Null THEN g ELSE last[h]]
  /\ prev' = [x \in Elem |-> CASE x = next[g] -> h
                               [] x = next[h] -> g
                               [] OTHER       -> prev[x]]

\* TAILQ_LAST and TAILQ_PREV take a cell for a whole head: ((struct headname *)c)->tqh_last.
Behind(c) == IF c \in Heads THEN last[c] ELSE prev[c]

LastElem(h) == next[Behind(last[h])]

\* Mutant: the pointer back is taken for the element before.
PrevElemDirect(e) == prev[e]

PrevElem(e) == next[Behind(prev[e])]

-----------------------------------------------------------------------------
Next ==
  \/ \E h \in Heads :
       \/ \E e \in Elem :
            \/ InsertHead(h, e) \/ InsertTail(h, e) \/ Remove(h, e)
            \/ \E l \in Elem : InsertAfter(h, l, e)
       \/ \E g \in Heads \ {h} : Concat(h, g) \/ Swap(h, g)
  \/ \E e, l \in Elem : InsertBefore(l, e)

Spec == Init /\ [][Next]_vars

-----------------------------------------------------------------------------
(***************************************************************************)
(* Properties.                                                             *)
(***************************************************************************)
\* What the checks of the kernel verify at the elements that they touch (665-703), for all
\* of them at once: whatever a cell points to points back to it, and queues end where
\* their heads say.
Linked ==
  \A h \in Heads :
    LET cells == <<h>> \o Walk(h) IN
      /\ \A i \in 1 .. Len(Walk(h)) : prev[cells[i + 1]] = cells[i]
      /\ last[h] = cells[Len(cells)] /\ next[last[h]] = Null

L == INSTANCE Lists WITH lists <- [h \in Heads |-> Walk(h)]

\* A step is one on the sequences, the one with the name of the operation; its effect does
\* not depend on which of the two pointers at an element the operation uses.
ActsOnLists ==
  /\ \A h \in Heads :
       /\ \A e \in Elem :
            /\ InsertHead(h, e) => L!InsertHead(h, e)
            /\ InsertTail(h, e) => L!InsertTail(h, e)
            /\ Remove(h, e) => L!RemoveElem(h, e)
            /\ \A l \in Elem : InsertAfter(h, l, e) => L!InsertAfter(h, l, e)
       /\ \A g \in Heads \ {h} :
            (Concat(h, g) => L!Concat(h, g)) /\ (Swap(h, g) => L!Swap(h, g))
  /\ \A e, l \in Elem : InsertBefore(l, e) => L!InsertBefore(l, e)

\* TAILQ_LAST and TAILQ_PREV, which read the field behind a cell, find the right elements.
AnswersFromLists ==
  \A h \in Heads : LastElem(h) = L!LastOf(h) /\ \A e \in In(h) : PrevElem(e) = L!PrevOf(h, e)
=============================================================================
