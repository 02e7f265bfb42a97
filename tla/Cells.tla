--------------------------------- MODULE Cells ---------------------------------
(***************************************************************************)
(* What the four queues of sys/queue.h have in common.  A cell is a pointer*)
(* to an element: the first one of a head, the next one of an element; the *)
(* head or the element stands for its address.                             *)
(***************************************************************************)
EXTENDS Naturals, Sequences, FiniteSets, Pointers

CONSTANTS Heads, Elem

VARIABLE next   \* what a cell points to: the xx_first of a head, the xxe_next of an element

Cell == Heads \cup Elem

\* The cell at which a walk from h over the elements w has arrived.
EndOf(h, w) == IF w = <<>> THEN h ELSE w[Len(w)]

\* The elements that a loop from the cell h on finds, one after the other.
WalkFrom(nx, h) ==
  LET walk[k \in 0 .. Cardinality(Elem)] ==
        IF k = 0 THEN <<>>
        ELSE LET w == walk[k - 1] IN
             IF nx[EndOf(h, w)] = Null THEN w ELSE Append(w, nx[EndOf(h, w)])
  IN  walk[Cardinality(Elem)]

\* The elements of a queue, from the first on.
Walk(h) == WalkFrom(next, h)

In(h) == {Walk(h)[i] : i \in DOMAIN Walk(h)}
Free  == Elem \ UNION {In(h) : h \in Heads}

\* The end of a queue, as a loop over the elements finds it.
Final(h) == EndOf(h, Walk(h))
=============================================================================
