-------------------------------- MODULE Queues --------------------------------
(***************************************************************************)
(* The four kinds of queues in sys/queue.h.  Init chooses one of them, and *)
(* the fields that this kind does not have stand still.                    *)
(***************************************************************************)
EXTENDS Cells

VARIABLES
  kind,    \* which of the queues; the program may use something else
  last,    \* the cell at the end of a queue
  prev     \* the cell that points to an element

queueVars == <<kind, next, last, prev>>

\* A head, an element and the null pointer have different addresses.
ASSUME CellsDiffer ==
  /\ Heads \cap Elem = {} /\ Null \notin Heads \cup Elem
  /\ IsFiniteSet(Elem)

Forward == INSTANCE ForwardList
Single  == INSTANCE SingleQueue
Double  == INSTANCE LinkedList
TailQ   == INSTANCE TailQueue

QueueKind == {"forward", "single", "double", "tail"}

QueuesInit == kind \in QueueKind /\ TailQ!Init

QueueStep ==
  \/ kind = "forward" /\ Forward!Next /\ UNCHANGED <<last, prev>>
  \/ kind = "single" /\ Single!Next /\ UNCHANGED prev
  \/ kind = "double" /\ Double!Next /\ UNCHANGED last
  \/ kind = "tail" /\ TailQ!Next

QueuesNext == QueueStep /\ UNCHANGED kind

QueuesSpec == QueuesInit /\ [][QueuesNext]_queueVars

-----------------------------------------------------------------------------
(***************************************************************************)
(* Properties.                                                             *)
(***************************************************************************)
\* Every operation on a queue does what it does to a sequence.
QueuesActOnLists ==
  [][CASE kind = "forward" -> Forward!ActsOnLists
       [] kind = "single"  -> Single!ActsOnLists
       [] kind = "double"  -> Double!ActsOnLists
       [] kind = "tail"    -> TailQ!ActsOnLists
       [] OTHER            -> TRUE]_queueVars

\* LAST and PREV, which no kind of queue has as fields, have the answers that the sequence
\* gives.
AnswersOfQueues ==
  CASE kind = "single" -> Single!AnswersFromLists
    [] kind = "double" -> Double!AnswersFromLists
    [] kind = "tail"   -> TailQ!AnswersFromLists
    [] OTHER           -> TRUE

\* Whatever a cell of a doubly linked queue points to points back, and a singly linked queue
\* ends where its head says.
Linked ==
  CASE kind = "single" -> Single!EndsAtLast
    [] kind = "double" -> Double!Linked
    [] kind = "tail"   -> TailQ!Linked
    [] OTHER           -> TRUE
=============================================================================
