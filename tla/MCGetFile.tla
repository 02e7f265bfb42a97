------------------------------ MODULE MCGetFile ------------------------------
(***************************************************************************)
(* What "make update" does over the network: it fetches archives again and *)
(* pulls clones.  The two share no file, so that Init chooses one of them  *)
(* and the other stands still.                                             *)
(***************************************************************************)
EXTENDS GetFile, Deepen

VARIABLE part

\* Integers of the shell that are wide enough for the history.
ASSUME WideEnough == DepthsFit

UpdateInit == part \in {"archive", "clone"} /\ Init /\ CloneInit

UpdateNext ==
  /\ \/ part = "archive" /\ Next /\ UNCHANGED cloneVars
     \/ part = "clone" /\ CloneNext /\ UNCHANGED vars
  /\ UNCHANGED part

\* git, and the loop around it, go on.
UpdateSpec ==
  /\ UpdateInit /\ [][UpdateNext]_<<part, vars, cloneVars>>
  /\ WF_cloneVars(part = "clone" /\ CloneStep)
=============================================================================
