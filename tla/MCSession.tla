------------------------------ MODULE MCSession ------------------------------
(***************************************************************************)
(* Two state machines beside the rules, .state and .repos.  They do not    *)
(* touch each other's files, so that Init chooses one of them and the other*)
(* stands still: the states are those of both, not their product.          *)
(***************************************************************************)
EXTENDS Repos, JobLog

VARIABLE part

\* Three jobs, the second of which has the name of the first in its own (418 and 435).
Names == [a |-> "install binutils", b |-> "install binutils gdb", c |-> "make vasm"]
Jobs  == DOMAIN Names
Containing == [i \in Jobs |-> IF i = "a" THEN {"b"} ELSE {}]

Lists == {[module |-> "gcc", url |-> "gcc.git", branch |-> "amiga6"],
          [module |-> "libnix", url |-> "libnix.git", branch |-> "master"]}

\* A word occurs in the name and in the URL of its module, as in default-repos, and in a
\* branch that is named after it.  A word that is typed may be part of a name.
Words == [gcc |-> {"gcc", "gcc.git"},
          libnix |-> {"libnix", "libnix.git", "libnix-next"},
          nix |-> {"nix", "libnix", "libnix.git", "libnix-next"}]

SessionInit == part \in {"log", "repos"} /\ LogInit /\ Init

SessionNext ==
  /\ \/ part = "log" /\ LogNext /\ UNCHANGED vars
     \/ part = "repos" /\ Next /\ UNCHANGED logVars
  /\ UNCHANGED part

SessionSpec == SessionInit /\ [][SessionNext]_<<part, logVars, vars>>
=============================================================================
