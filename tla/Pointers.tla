------------------------------- MODULE Pointers -------------------------------
(***************************************************************************)
(* What the queues and the trees of the headers have in common.            *)
(***************************************************************************)
CONSTANT Null   \* the pointer to nothing
=============================================================================
