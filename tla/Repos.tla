--------------------------------- MODULE Repos ---------------------------------
(***************************************************************************)
(* .repos, the list of the repositories and branches of the projects: how  *)
(* a starting make reads it, "make branch" rewrites it, "make update-repos"*)
(* and "make v" apply it to the projects, and a rule clones from it.       *)
(*                                                                         *)
(* Lines are found by grep, with a word that may occur anywhere in a line. *)
(* One make at a time; it may be killed between any two commands.          *)
(***************************************************************************)
EXTENDS FiniteSets, Naturals

CONSTANTS
  Module,     \* the words that are typed as names of modules, the modules among them
  Url, Branch,
  Holds,      \* Holds[m]: the module names, URLs and branches that the word m occurs in
  Defaults,   \* the lines of default-repos
  CanKill,
  None        \* no file, no project, no remote

Line == [module : Module, url : Url, branch : Branch]

ASSUME ReposAssumption ==
  /\ \A m \in Module : m \in Holds[m]
  /\ Defaults \subseteq Line /\ IsFiniteSet(Defaults)
  /\ \A l1, l2 \in Defaults : l1.module = l2.module => l1 = l2
  /\ CanKill \in BOOLEAN
  /\ None \notin Url /\ None \notin Branch /\ \A S \in SUBSET Line : S # None

VARIABLES
  repos, bak,     \* the lines of .repos and of .repos.bak; repos may be None
  origin, head,   \* the remote and the checked out branch of each project, None when not cloned
  pc,             \* what make does next
  new,            \* the line that "make branch" will append
  todo            \* the modules that the loop of update-repos or v has still to visit

vars == <<repos, bak, origin, head, pc, new, todo>>
projects == <<origin, head>>

\* The projects that some rule clones.
Project == {l.module : l \in Defaults}

NoLine == [module |-> None, url |-> None, branch |-> None]

Init ==
  /\ repos = None /\ bak = {}
  /\ origin = [m \in Module |-> None] /\ head = [m \in Module |-> None]
  /\ pc = "stopped" /\ new = NoLine /\ todo = {}

-----------------------------------------------------------------------------
At(p)   == pc = p
Goto(p) == pc' = p

\* grep m
Match(m, l) == {l.module, l.url, l.branch} \cap Holds[m] # {}
Found(m, S) == {l \in S : Match(m, l)}
Cloned(m)   == head[m] # None

\* A make starts: [ ! -f .repos ] && cp default-repos .repos, and modules is the first column.
Start(target) ==
  /\ At("stopped")
  /\ repos' = IF repos = None THEN Defaults ELSE repos
  /\ Goto(target)
  /\ todo' = {l.module : l \in repos'}
  /\ UNCHANGED <<bak, projects, new>>

Exit == Goto("stopped") /\ new' = NoLine /\ todo' = {}

\* Mutant: the columns of the line are taken in the wrong order.
CloneSwapped ==
  /\ At("build")
  /\ \E m \in Module, l \in repos :
       /\ m \in Project /\ ~Cloned(m) /\ Found(m, repos) = {l}
       /\ origin' = [origin EXCEPT ![m] = l.branch]
       /\ head' = [head EXCEPT ![m] = l.url]
  /\ Exit
  /\ UNCHANGED <<repos, bak>>

\* A rule clones a project when it is missing, from what grep finds in .repos.  When it
\* finds several lines, the words of all of them are handed to git, which fails.
Clone ==
  /\ At("build")
  /\ \/ \E m \in Module :
          /\ m \in Project /\ ~Cloned(m)
          /\ \E l \in Found(m, repos) :
               /\ Found(m, repos) = {l}
               /\ origin' = [origin EXCEPT ![m] = l.url]
               /\ head' = [head EXCEPT ![m] = l.branch]
     \/ UNCHANGED projects
  /\ Exit
  /\ UNCHANGED <<repos, bak>>

-----------------------------------------------------------------------------
(***************************************************************************)
(* make branch mod=m branch=b                                              *)
(***************************************************************************)
\* Mutant: the lines are not counted.
MoveAsideUncounted ==
  /\ At("branch")
  /\ \E m \in Module, b \in Branch, l \in repos :
       l \in Found(m, repos) /\ new' = [module |-> m, url |-> l.url, branch |-> b]
  /\ bak' = repos /\ repos' = None
  /\ Goto("open")
  /\ UNCHANGED <<projects, todo>>

\* [ "1" == "$(grep -c $(mod) .repos)" ]; the URL is looked up, and .repos moved away.  The
\* one line that is counted need not be the line of m.
MoveAside ==
  /\ At("branch")
  /\ \E m \in Module, b \in Branch, l \in repos :
       /\ l \in Found(m, repos) /\ Cardinality(Found(m, repos)) = 1
       /\ new' = [module |-> m, url |-> l.url, branch |-> b]
  /\ bak' = repos /\ repos' = None
  /\ Goto("open")
  /\ UNCHANGED <<projects, todo>>

Refuse ==
  /\ At("branch") /\ \E m \in Module : Cardinality(Found(m, repos)) # 1
  /\ Exit
  /\ UNCHANGED <<repos, bak, projects>>

\* Mutant: all lines are copied.
CopyAll ==
  /\ At("grep") /\ repos' = bak /\ Goto("echo")
  /\ UNCHANGED <<bak, projects, new, todo>>

\* grep -v $(mod) .repos.bak > .repos: the shell makes the file, grep fills it.
Open ==
  /\ At("open") /\ repos' = {} /\ Goto("grep")
  /\ UNCHANGED <<bak, projects, new, todo>>

Others ==
  /\ At("grep") /\ repos' = bak \ Found(new.module, bak) /\ Goto("echo")
  /\ UNCHANGED <<bak, projects, new, todo>>

\* echo "$(mod) $$url $(branch)" >> .repos
Append ==
  /\ At("echo") /\ repos' = repos \cup {new} /\ Goto("checkout")
  /\ UNCHANGED <<bak, projects, new, todo>>

\* git fetch and git checkout of the branch, if there is such a project and such a branch
Checkout ==
  /\ At("checkout")
  /\ \/ Cloned(new.module) /\ head' = [head EXCEPT ![new.module] = new.branch]
     \/ UNCHANGED head
  /\ Exit
  /\ UNCHANGED <<repos, bak, origin>>

-----------------------------------------------------------------------------
(***************************************************************************)
(* make update-repos, make v: a loop over the modules                      *)
(***************************************************************************)
Visit(m) == m \in todo /\ todo' = todo \ {m} /\ UNCHANGED <<repos, bak, pc, new>>

\* Mutant: git remote add without git remote remove; git keeps the remote that it has.
KeepOrigin(m) ==
  /\ At("update") /\ m \in todo /\ Cloned(m)
  /\ todo' = todo \ {m}
  /\ UNCHANGED <<repos, bak, projects, pc, new>>

\* git remote remove origin
RemoveOrigin(m) ==
  /\ At("update") /\ m \in todo /\ Cloned(m)
  /\ origin' = [origin EXCEPT ![m] = None]
  /\ Goto("add")
  /\ new' = [NoLine EXCEPT !.module = m]
  /\ UNCHANGED <<repos, bak, head, todo>>

\* git remote add origin $$url; git pull; git checkout $$bra: git refuses the lines of two
\* modules in one, and the branch may not exist.
AddOrigin ==
  /\ At("add")
  /\ LET m == new.module IN
       /\ \/ \E l \in Found(m, repos) :
               /\ Found(m, repos) = {l}
               /\ origin' = [origin EXCEPT ![m] = l.url]
               /\ head' \in {head, [head EXCEPT ![m] = l.branch]}
          \/ Cardinality(Found(m, repos)) # 1 /\ UNCHANGED projects
       /\ todo' = todo \ {m}
  /\ Goto("update") /\ new' = NoLine
  /\ UNCHANGED <<repos, bak>>

\* if [ -e projects/$$i ]
PassBy(m) ==
  /\ pc \in {"update", "v"} /\ ~Cloned(m) /\ Visit(m) /\ UNCHANGED projects

\* make v: git checkout $$bra, with a date or without
CheckoutAgain(m) ==
  /\ At("v") /\ Cloned(m) /\ Visit(m)
  /\ \/ \E l \in Found(m, repos) :
          Found(m, repos) = {l} /\ head' = [head EXCEPT ![m] = l.branch]
     \/ UNCHANGED head
  /\ UNCHANGED origin

LoopEnds ==
  /\ pc \in {"update", "v"} /\ todo = {}
  /\ Goto(IF At("update") THEN "updated" ELSE "stopped")
  /\ UNCHANGED <<repos, bak, projects, new, todo>>

\* make exits after update-repos
Return == At("updated") /\ Exit /\ UNCHANGED <<repos, bak, projects>>

-----------------------------------------------------------------------------
\* The user edits the URL of a module, and takes none that the name of another occurs in.
Edit ==
  /\ At("stopped") /\ repos # None
  /\ \E l \in repos, u \in Url :
       /\ \A m \in Module \ {l.module} : u \notin Holds[m]
       /\ repos' = (repos \ {l}) \cup {[l EXCEPT !.url = u]}
  /\ UNCHANGED <<bak, projects, pc, new, todo>>

Kill ==
  /\ CanKill /\ ~At("stopped") /\ Exit
  /\ UNCHANGED <<repos, bak, projects>>

Next ==
  \/ \E t \in {"build", "branch", "update", "v"} : Start(t)
  \/ Clone
  \/ MoveAside \/ Refuse \/ Open \/ Others \/ Append \/ Checkout
  \/ \E m \in Module : RemoveOrigin(m) \/ PassBy(m) \/ CheckoutAgain(m)
  \/ AddOrigin \/ LoopEnds \/ Return
  \/ Edit \/ Kill

Spec == Init /\ [][Next]_vars

-----------------------------------------------------------------------------
(***************************************************************************)
(* Properties.                                                             *)
(***************************************************************************)
\* Every variable holds what its comment says.
TypeOK ==
  /\ repos \in (SUBSET Line) \cup {None} /\ bak \in SUBSET Line
  /\ origin \in [Module -> Url \cup {None}] /\ head \in [Module -> Branch \cup {None}]
  /\ new \in Line \cup {[NoLine EXCEPT !.module = m] : m \in Module \cup {None}}
  /\ todo \in SUBSET Module

\* The table as the next make, or the running "make branch", sees it.
Rewriting == pc \in {"open", "grep", "echo"}
table == IF Rewriting THEN bak ELSE IF repos = None THEN Defaults ELSE repos

\* Every change of the list is one that RepoTable allows.  "make branch" changes one line and
\* keeps its URL; a kill in the middle of it loses that line or the whole list.  No module
\* gets two lines; one that has no line may get the line of another, under its own name.
Table == INSTANCE RepoTable
TableChangesAsPromised == Table!Spec

\* If m has a line, "make branch mod=m" changes the branch in that line and nothing else,
\* though it removes every line that the word m occurs in, whoever has typed or lost what
\* before.
BranchChangesItsLine ==
  [][pc = "echo" /\ pc' = "checkout" =>
       \A l \in table : l.module = new.module =>
         table' = (table \ {l}) \cup {[l EXCEPT !.branch = new.branch]}]_vars

\* When update-repos has ended, every project whose line grep finds, and no other line with
\* it, has the remote of that line, even if an earlier update-repos was killed between git
\* remote remove and git remote add.
UpdateRepairs ==
  At("updated") => \A l \in repos :
    Cloned(l.module) /\ Found(l.module, repos) = {l} => origin[l.module] = l.url
=============================================================================
