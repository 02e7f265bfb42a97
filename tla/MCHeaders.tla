------------------------------- MODULE MCHeaders -------------------------------
(***************************************************************************)
(* The code in sys/queue.h, sys/tree.h and sys/time.h.  Init chooses one   *)
(* data structure, and the variables of the others stand still.            *)
(***************************************************************************)
EXTENDS Queues, RedBlack, Splay, Bintime

CONSTANT MaxKey   \* bound on the keys

\* The elements of the trees, two of which have the same key.
ElementsOfTrees == 1 .. MaxKey + 1
KeyOf           == [e \in ElementsOfTrees |-> IF e > MaxKey THEN MaxKey \div 2 ELSE e]

ASSUME TreesAssumption == ElementsFit /\ NodeIsNoElement

allVars == <<queueVars, rbVars, splayVars, bt>>

HeadersInit ==
  /\ kind \in QueueKind \cup {"red-black", "splay", "time"}
  /\ TailQ!Init
  /\ RbInit
  /\ SplayInit
  /\ Init

\* A splay tree can have any shape, and gets one element less than the red-black tree.
HeadersNext ==
  /\ \/ QueueStep /\ UNCHANGED <<rbVars, splayVars, bt>>
     \/ kind = "red-black" /\ RbNext /\ UNCHANGED <<next, last, prev, splayVars, bt>>
     \/ /\ kind = "splay" /\ SplayNext /\ MaxKey \notin SplaySet'
        /\ UNCHANGED <<next, last, prev, rbVars, bt>>
     \/ kind = "time" /\ Next /\ UNCHANGED <<next, last, prev, rbVars, splayVars>>
  /\ UNCHANGED kind

HeadersSpec == HeadersInit /\ [][HeadersNext]_allVars
=============================================================================
