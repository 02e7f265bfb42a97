------------------------------- MODULE RepoTable -------------------------------
(***************************************************************************)
(* What .repos promises: a table with at most one line for each module, of *)
(* which "make branch" changes one.  That is the line of the module; but   *)
(* when the table has none, the line of another module can be taken for it.*)
(* If make may be killed, a line can be lost, or all of them, or the table *)
(* can fall back to default-repos.                                         *)
(***************************************************************************)
CONSTANTS Module, Url, Branch, Defaults, CanKill

VARIABLE table

Init == table = Defaults

\* README: make branch mod=binutils branch=devel1
SetBranch ==
  \E l \in table, b \in Branch :
    table' = (table \ {l}) \cup {[l EXCEPT !.branch = b]}

\* A name that has no line, but occurs in the line of another module, gets the URL of that
\* module, which loses its line.
TakeOver ==
  \E l \in table, m \in Module, b \in Branch :
    /\ \A k \in table : k.module # m
    /\ table' = (table \ {l}) \cup {[module |-> m, url |-> l.url, branch |-> b]}

\* The user edits a line.
SetUrl ==
  \E l \in table, u \in Url : table' = (table \ {l}) \cup {[l EXCEPT !.url = u]}

LoseLine  == CanKill /\ \E l \in table : table' = table \ {l}
LoseTable == CanKill /\ table' \in {{}, Defaults}

Next == SetBranch \/ TakeOver \/ SetUrl \/ LoseLine \/ LoseTable

Spec == Init /\ [][Next]_table
=============================================================================
