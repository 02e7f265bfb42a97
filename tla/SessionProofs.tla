----------------------------- MODULE SessionProofs -----------------------------
(***************************************************************************)
(* Proofs about the two files that one make leaves to the next: .repos,    *)
(* the list of repositories, and .state, the list of running jobs.         *)
(***************************************************************************)
EXTENDS Repos, JobLog, FiniteSetTheorems, TLAPS

-----------------------------------------------------------------------------
(***************************************************************************)
(* update-repos repairs what a kill has left, and .repos is the table that *)
(* RepoTable promises, whatever words occur where and whenever make is     *)
(* killed.  If the name of a module occurs in the lines of no other module,*)
(* grep is as good as a lookup.                                            *)
(***************************************************************************)

\* grep finds a line for no other module than its own.
Own(S) == \A l \in S : \A m \in Module : Match(m, l) => m = l.module

\* That is so in default-repos, and no branch is called like a module.
OwnWords == Own(Defaults) /\ \A m \in Module : Branch \cap Holds[m] = {}

\* grep m finds at most one line.
OneEach(S) == \A l1, l2 \in S : l1.module = l2.module => l1 = l2
Orderly(S) == OneEach(S) /\ Own(S)

\* The file is there while make runs, except at the moment when it has been moved away.
FileIsThere == pc \notin {"stopped", "open"} => repos # None

FilesOrderly == (repos # None => Orderly(repos)) /\ Orderly(bak)

\* The line that "make branch" will write, or has written.
NewIsLine == Rewriting \/ pc = "checkout" => new \in Line

\* update-repos has visited what is not in todo.
Visited ==
  pc \in {"update", "add", "updated"} => \A l \in repos :
    l.module \notin todo /\ Cloned(l.module) /\ Found(l.module, repos) = {l}
      => origin[l.module] = l.url

\* While the remote of a project is away, the project is still to be visited.
AddKnows == pc = "add" => new.module \in todo

UpdateEnds == pc = "updated" => todo = {}

\* What holds of any words, apart from the table.
AnyWordsInv == TypeOK /\ FileIsThere /\ NewIsLine /\ Visited /\ AddKnows /\ UpdateEnds

\* What "make branch" knows of the list that it has moved away, and of the new one.
BranchKnows ==
  /\ Rewriting => \E l \in bak : Found(new.module, bak) = {l} /\ new.url = l.url
  /\ pc = "open" => repos = None
  /\ pc = "grep" => repos = {}
  /\ pc = "echo" => repos = bak \ Found(new.module, bak)

\* grep -c counts lines.
FilesFinite == (repos # None => IsFiniteSet(repos)) /\ IsFiniteSet(bak)

TableInv == AnyWordsInv /\ FilesFinite /\ BranchKnows

ReposInv == TableInv /\ FilesOrderly

-----------------------------------------------------------------------------
\* grep of a module finds the one line that it has.
LEMMA FoundIs ==
  ASSUME NEW S \in SUBSET Line, Own(S), NEW m \in Module
  PROVE  Found(m, S) = {l \in S : l.module = m}
  BY ReposAssumption DEF Own, Found, Match

LEMMA NoLineIs == NoLine \in {[NoLine EXCEPT !.module = m] : m \in Module \cup {None}}
  <1>1. NoLine = [NoLine EXCEPT !.module = None]
    BY DEF NoLine
  <1> QED BY <1>1

LEMMA FoundOne ==
  ASSUME NEW S \in SUBSET Line, Own(S), OneEach(S), NEW l \in S
  PROVE  Found(l.module, S) = {l}
  BY FoundIs DEF OneEach, Line

LEMMA FoundCount ==
  ASSUME NEW S, IsFiniteSet(S), NEW m, NEW l \in Found(m, S), Cardinality(Found(m, S)) = 1
  PROVE  Found(m, S) = {l}
  <1>1. IsFiniteSet(Found(m, S))
    BY FS_Subset DEF Found
  <1> QED BY <1>1, FS_Singleton

-----------------------------------------------------------------------------
(***************************************************************************)
(* Whatever words occur in whatever lines.                                 *)
(***************************************************************************)
\* A make that ends leaves the lists; it knows and has to do nothing more.
LEMMA ExitKeeps ==
  ASSUME AnyWordsInv, Exit, UNCHANGED <<repos, bak>>,
         origin' \in [Module -> Url \cup {None}], head' \in [Module -> Branch \cup {None}]
  PROVE  AnyWordsInv'
  <1> USE DEF AnyWordsInv, Exit, Goto
  <1>1. TypeOK'  BY NoLineIs DEF TypeOK
  <1>2. FileIsThere' /\ NewIsLine' /\ Visited' /\ AddKnows' /\ UpdateEnds'
    BY DEF FileIsThere, NewIsLine, Rewriting, Visited, AddKnows, UpdateEnds
  <1> QED BY <1>1, <1>2

LEMMA AnyStart ==
  ASSUME AnyWordsInv, NEW t \in {"build", "branch", "update", "v"}, Start(t)
  PROVE  AnyWordsInv'
  <1> USE DEF AnyWordsInv, Start, At, Goto, projects
  <1>1. repos' \in SUBSET Line /\ repos' # None
    BY ReposAssumption DEF TypeOK
  <1>2. todo' \in SUBSET Module /\ \A l \in repos' : l.module \in todo'
    BY <1>1 DEF Line
  <1>3. TypeOK'  BY <1>1, <1>2 DEF TypeOK
  <1>4. FileIsThere' /\ NewIsLine' /\ AddKnows' /\ UpdateEnds'
    BY <1>1 DEF FileIsThere, NewIsLine, Rewriting, AddKnows, UpdateEnds
  <1>5. Visited'  BY <1>2 DEF Visited
  <1> QED BY <1>3, <1>4, <1>5

\* The steps of "make branch".
LEMMA AnyBranch ==
  ASSUME AnyWordsInv, MoveAside \/ Open \/ Others \/ Append
  PROVE  AnyWordsInv'
  <1> USE DEF AnyWordsInv, At, Goto, projects
  <1>1. pc' \in {"open", "grep", "echo", "checkout"} /\ origin' = origin /\ head' = head
        /\ todo' = todo
    BY DEF MoveAside, Open, Others, Append
  <1>2. bak' \in SUBSET Line /\ new' \in Line
    <2>1. CASE MoveAside
      BY <2>1 DEF MoveAside, FileIsThere, TypeOK, Line
    <2>2. CASE Open \/ Others \/ Append
      BY <2>2 DEF Open, Others, Append, TypeOK, NewIsLine, Rewriting
    <2> QED BY <2>1, <2>2
  <1>3. /\ repos' \in (SUBSET Line) \cup {None}
        /\ pc' # "open" => repos' \in SUBSET Line
    <2>1. CASE MoveAside  BY <2>1 DEF MoveAside
    <2>2. CASE Open  BY <2>2 DEF Open
    <2>3. CASE Others  BY <2>3 DEF Others, TypeOK
    <2>4. CASE Append  BY <2>4 DEF Append, TypeOK, FileIsThere, NewIsLine, Rewriting
    <2> QED BY <2>1, <2>2, <2>3, <2>4
  <1>4. TypeOK'  BY <1>1, <1>2, <1>3 DEF TypeOK
  <1>5. FileIsThere'  BY <1>1, <1>3, ReposAssumption DEF FileIsThere
  <1>6. NewIsLine' /\ Visited' /\ AddKnows' /\ UpdateEnds'
    BY <1>1, <1>2 DEF NewIsLine, Visited, AddKnows, UpdateEnds
  <1> QED BY <1>4, <1>5, <1>6

\* The steps of "make update-repos" and of "make v".
LEMMA AnyRemove ==
  ASSUME AnyWordsInv, NEW m \in Module, RemoveOrigin(m) PROVE AnyWordsInv'
  <1> USE DEF AnyWordsInv, RemoveOrigin, At, Goto
  <1>1. TypeOK' /\ new'.module = m  BY DEF TypeOK, NoLine
  <1>2. FileIsThere' /\ NewIsLine' /\ AddKnows' /\ UpdateEnds'
    BY <1>1 DEF FileIsThere, NewIsLine, Rewriting, AddKnows, UpdateEnds
  <1>3. Visited'
    BY DEF Visited, Cloned, Found, TypeOK, Line
  <1> QED BY <1>1, <1>2, <1>3

LEMMA AnyAdd == ASSUME AnyWordsInv, AddOrigin PROVE AnyWordsInv'
  <1> DEFINE m == new.module
  <1> USE DEF AnyWordsInv, At, Goto
  <1>1. /\ pc = "add" /\ pc' = "update" /\ new' = NoLine /\ todo' = todo \ {m}
        /\ repos' = repos /\ bak' = bak
    BY DEF AddOrigin
  <1>2. m \in Module /\ m \in todo /\ repos \in SUBSET Line
    BY <1>1 DEF AddKnows, TypeOK, FileIsThere
  <1>3. /\ origin' \in [Module -> Url \cup {None}] /\ head' \in [Module -> Branch \cup {None}]
        /\ \A k \in Module : k # m => origin'[k] = origin[k]
        /\ \A k \in Module : Cloned(k)' => Cloned(k) \/ k = m
        /\ \A l \in repos : Found(m, repos) = {l} => origin'[m] = l.url
    <2>1. CASE \E l \in Found(m, repos) :
                 /\ Found(m, repos) = {l}
                 /\ origin' = [origin EXCEPT ![m] = l.url]
                 /\ head' \in {head, [head EXCEPT ![m] = l.branch]}
      BY <1>2, <2>1 DEF TypeOK, Line, Found, Cloned
    <2>2. CASE Cardinality(Found(m, repos)) # 1 /\ UNCHANGED projects
      BY <1>2, <2>2, FS_Singleton DEF TypeOK, projects, Cloned
    <2> QED BY <2>1, <2>2 DEF AddOrigin
  <1>4. TypeOK'  BY <1>1, <1>2, <1>3, NoLineIs DEF TypeOK
  <1>5. FileIsThere' /\ NewIsLine' /\ AddKnows' /\ UpdateEnds'
    BY <1>1 DEF FileIsThere, NewIsLine, Rewriting, AddKnows, UpdateEnds
  <1>6. Visited'
    <2> SUFFICES ASSUME NEW l \in repos, l.module \notin todo \ {m}, Cloned(l.module)',
                        Found(l.module, repos) = {l}
                 PROVE  origin'[l.module] = l.url
      BY <1>1 DEF Visited, Found, Match
    <2>1. l.module \in Module  BY <1>2 DEF Line
    <2> QED BY <1>1, <1>3, <2>1 DEF Visited
  <1> QED BY <1>4, <1>5, <1>6

LEMMA AnyLoop ==
  ASSUME AnyWordsInv, (\E m \in Module : PassBy(m) \/ CheckoutAgain(m)) \/ LoopEnds
  PROVE  AnyWordsInv'
  <1> USE DEF AnyWordsInv, At, Goto
  <1>1. ASSUME NEW m \in Module, PassBy(m) PROVE AnyWordsInv'
    <2> USE <1>1 DEF PassBy, Visit, projects
    <2>1. TypeOK'  BY DEF TypeOK
    <2>2. Visited'  BY DEF Visited, Cloned, Found
    <2>3. FileIsThere' /\ NewIsLine' /\ AddKnows' /\ UpdateEnds'
      BY DEF FileIsThere, NewIsLine, Rewriting, AddKnows, UpdateEnds
    <2> QED BY <2>1, <2>2, <2>3
  <1>2. ASSUME NEW m \in Module, CheckoutAgain(m) PROVE AnyWordsInv'
    <2> USE <1>2 DEF CheckoutAgain, Visit
    <2>0. repos \in SUBSET Line  BY DEF TypeOK, FileIsThere
    <2>1. TypeOK'
      <3>1. head' \in [Module -> Branch \cup {None}]
        BY <2>0 DEF TypeOK, Found, Line
      <3> QED BY <3>1 DEF TypeOK
    <2>2. FileIsThere' /\ NewIsLine' /\ Visited' /\ AddKnows' /\ UpdateEnds'
      BY DEF FileIsThere, NewIsLine, Rewriting, Visited, AddKnows, UpdateEnds
    <2> QED BY <2>1, <2>2
  <1>3. CASE LoopEnds
    <2> USE <1>3 DEF LoopEnds, projects
    <2>1. TypeOK'  BY DEF TypeOK
    <2>2. Visited'  BY DEF Visited, Cloned, Found
    <2>3. FileIsThere' /\ NewIsLine' /\ AddKnows' /\ UpdateEnds'
      BY DEF FileIsThere, NewIsLine, Rewriting, AddKnows, UpdateEnds
    <2> QED BY <2>1, <2>2, <2>3
  <1> QED BY <1>1, <1>2, <1>3

LEMMA AnyEdit == ASSUME AnyWordsInv, Edit PROVE AnyWordsInv'
  <1> USE DEF AnyWordsInv, Edit, At, projects
  <1>1. repos' \in SUBSET Line /\ repos' # None
    <2>1. PICK l \in repos, u \in Url : repos' = (repos \ {l}) \cup {[l EXCEPT !.url = u]}
      OBVIOUS
    <2>2. repos \in SUBSET Line /\ [l EXCEPT !.url = u] \in Line
      BY DEF TypeOK, Line
    <2> QED BY <2>1, <2>2, ReposAssumption
  <1>2. TypeOK'  BY <1>1 DEF TypeOK
  <1>3. FileIsThere' /\ NewIsLine' /\ Visited' /\ AddKnows' /\ UpdateEnds'
    BY DEF FileIsThere, NewIsLine, Rewriting, Visited, AddKnows, UpdateEnds
  <1> QED BY <1>2, <1>3

LEMMA AnyInit == Init => AnyWordsInv
  <1> SUFFICES ASSUME Init PROVE AnyWordsInv
    OBVIOUS
  <1>1. TypeOK  BY NoLineIs DEF Init, TypeOK
  <1>2. FileIsThere /\ NewIsLine /\ Visited /\ AddKnows /\ UpdateEnds
    BY DEF Init, FileIsThere, NewIsLine, Rewriting, Visited, AddKnows, UpdateEnds
  <1> QED BY <1>1, <1>2 DEF AnyWordsInv

LEMMA AnyStep == ASSUME AnyWordsInv, [Next]_vars PROVE AnyWordsInv'
  <1>1. ASSUME NEW t \in {"build", "branch", "update", "v"}, Start(t) PROVE AnyWordsInv'
    BY <1>1, AnyStart
  <1>2. CASE Clone
    <2>1. repos \in SUBSET Line  BY <1>2 DEF Clone, At, AnyWordsInv, TypeOK, FileIsThere
    <2>2. origin' \in [Module -> Url \cup {None}] /\ head' \in [Module -> Branch \cup {None}]
      BY <1>2, <2>1 DEF Clone, projects, Found, AnyWordsInv, TypeOK, Line
    <2> QED BY <1>2, <2>2, ExitKeeps DEF Clone
  <1>3. CASE Refuse \/ Return \/ Kill
    BY <1>3, ExitKeeps DEF Refuse, Return, Kill, projects, AnyWordsInv, TypeOK
  <1>4. CASE Checkout
    <2>1. new \in Line  BY <1>4 DEF Checkout, At, AnyWordsInv, NewIsLine
    <2>2. origin' \in [Module -> Url \cup {None}] /\ head' \in [Module -> Branch \cup {None}]
      BY <1>4, <2>1 DEF Checkout, AnyWordsInv, TypeOK, Line
    <2> QED BY <1>4, <2>2, ExitKeeps DEF Checkout
  <1>5. CASE UNCHANGED vars
    BY <1>5 DEF vars, AnyWordsInv, TypeOK, FileIsThere, NewIsLine, Rewriting, Visited, Cloned,
                AddKnows, UpdateEnds, Found, Match
  <1> QED BY <1>1, <1>2, <1>3, <1>4, <1>5, AnyBranch, AnyRemove, AnyAdd, AnyLoop, AnyEdit DEF Next

-----------------------------------------------------------------------------
(***************************************************************************)
(* What a running "make branch" knows.                                     *)
(***************************************************************************)
LEMMA StartKnows ==
  ASSUME TableInv, NEW t \in {"build", "branch", "update", "v"}, Start(t)
  PROVE  FilesFinite' /\ BranchKnows'
  <1> USE DEF TableInv, Start, At, Goto, projects
  <1>1. FilesFinite'  BY ReposAssumption DEF FilesFinite
  <1>2. BranchKnows'  BY DEF BranchKnows, Rewriting
  <1> QED BY <1>1, <1>2

LEMMA MoveAsideKnows == ASSUME TableInv, MoveAside PROVE FilesFinite' /\ BranchKnows'
  <1> USE DEF TableInv, AnyWordsInv, MoveAside, At, Goto, projects
  <1>1. repos \in SUBSET Line /\ IsFiniteSet(repos)
    BY DEF TypeOK, FileIsThere, FilesFinite
  <1>2. PICK m \in Module, b \in Branch, l \in repos :
          /\ l \in Found(m, repos) /\ Cardinality(Found(m, repos)) = 1
          /\ new' = [module |-> m, url |-> l.url, branch |-> b]
    OBVIOUS
  <1>3. Found(m, repos) = {l}
    BY <1>1, <1>2, FoundCount
  <1>4. bak' = repos /\ repos' = None /\ pc' = "open" /\ new'.module = m /\ new'.url = l.url
    BY <1>2
  <1>5. BranchKnows'
    <2>1. \E k \in bak' : Found(new'.module, bak') = {k} /\ new'.url = k.url
      BY <1>3, <1>4
    <2> QED BY <2>1, <1>4 DEF BranchKnows, Found, Match
  <1>6. FilesFinite'  BY <1>1, <1>4 DEF FilesFinite
  <1> QED BY <1>5, <1>6

LEMMA OpenKnows == ASSUME TableInv, Open PROVE FilesFinite' /\ BranchKnows'
  <1> USE DEF TableInv, Open, At, Goto, projects
  <1>1. repos' = {} /\ IsFiniteSet(repos')  BY FS_EmptySet
  <1>2. FilesFinite'  BY <1>1 DEF FilesFinite
  <1>3. BranchKnows'  BY <1>1 DEF BranchKnows, Rewriting, Found, Match
  <1> QED BY <1>2, <1>3

LEMMA OthersKnows == ASSUME TableInv, Others PROVE FilesFinite' /\ BranchKnows'
  <1> USE DEF TableInv, Others, At, Goto, projects
  <1>1. IsFiniteSet(repos')  BY FS_Subset DEF FilesFinite
  <1>2. FilesFinite'  BY <1>1 DEF FilesFinite
  <1>3. BranchKnows'  BY DEF BranchKnows, Rewriting, Found, Match
  <1> QED BY <1>2, <1>3

\* What "make branch" has written when it is through.
LEMMA AppendIs ==
  ASSUME TableInv, Append
  PROVE  \E l \in bak : /\ Found(new.module, bak) = {l}
                        /\ new.url = l.url /\ new \in Line
                        /\ repos' = (bak \ {l}) \cup {new}
  <1>1. new \in Line
    BY DEF TableInv, AnyWordsInv, NewIsLine, Rewriting, Append, At
  <1>2. PICK l \in bak : /\ Found(new.module, bak) = {l}
                         /\ new.url = l.url
                         /\ repos = bak \ Found(new.module, bak)
    BY DEF TableInv, BranchKnows, Rewriting, Append, At
  <1> QED BY <1>1, <1>2 DEF Append

\* A line of m is found by grep m, so that the one line that is found is the line of m, or m
\* has none.
LEMMA FoundFirst ==
  ASSUME NEW S \in SUBSET Line, NEW m \in Module, NEW l, Found(m, S) = {l},
         NEW k \in S, k.module = m
  PROVE  k = l
  BY ReposAssumption DEF Found, Match

LEMMA AppendKnows == ASSUME TableInv, Append PROVE FilesFinite' /\ BranchKnows'
  <1> USE DEF TableInv, Append, At, Goto, projects
  <1>1. IsFiniteSet(repos') /\ IsFiniteSet(bak')
    <2>1. IsFiniteSet(repos) /\ IsFiniteSet(bak)
      BY DEF FilesFinite, AnyWordsInv, FileIsThere
    <2> QED BY <2>1, FS_AddElement
  <1>2. FilesFinite'  BY <1>1 DEF FilesFinite
  <1>3. BranchKnows'  BY DEF BranchKnows, Rewriting
  <1> QED BY <1>2, <1>3

LEMMA EditKnows == ASSUME TableInv, Edit PROVE FilesFinite' /\ BranchKnows'
  <1> USE DEF TableInv, Edit, At, projects
  <1>1. PICK l \in repos, u \in Url : repos' = (repos \ {l}) \cup {[l EXCEPT !.url = u]}
    OBVIOUS
  <1>2. IsFiniteSet(repos \ {l})  BY FS_RemoveElement DEF FilesFinite
  <1>3. IsFiniteSet(repos')  BY <1>1, <1>2, FS_AddElement
  <1>4. FilesFinite'  BY <1>3 DEF FilesFinite
  <1>5. BranchKnows'  BY DEF BranchKnows, Rewriting
  <1> QED BY <1>4, <1>5

LEMMA TableInvInit == Init => TableInv
  <1> SUFFICES ASSUME Init PROVE TableInv
    OBVIOUS
  <1>1. FilesFinite  BY FS_EmptySet DEF Init, FilesFinite
  <1>2. BranchKnows  BY DEF Init, BranchKnows, Rewriting
  <1> QED BY <1>1, <1>2, AnyInit DEF TableInv

LEMMA TableInvStep == ASSUME TableInv, [Next]_vars PROVE TableInv'
  <1>1. AnyWordsInv'  BY AnyStep DEF TableInv
  <1>2. ASSUME NEW t \in {"build", "branch", "update", "v"}, Start(t)
        PROVE  FilesFinite' /\ BranchKnows'
    BY <1>2, StartKnows
  <1>3. CASE Clone \/ Refuse \/ Checkout \/ Return \/ Kill
    BY <1>1, <1>3 DEF Clone, Refuse, Checkout, Return, Kill, Exit, Goto, TableInv, FilesFinite,
                BranchKnows, Rewriting
  <1>4. CASE (\E m \in Module : RemoveOrigin(m) \/ PassBy(m) \/ CheckoutAgain(m))
             \/ AddOrigin \/ LoopEnds
    <2>1. repos' = repos /\ bak' = bak /\ pc' \in {"add", "update", "updated", "v", "stopped"}
      BY <1>4 DEF RemoveOrigin, PassBy, CheckoutAgain, Visit, AddOrigin, LoopEnds, Goto, At
    <2> QED BY <1>1, <2>1 DEF TableInv, FilesFinite, BranchKnows, Rewriting
  <1>5. CASE UNCHANGED vars
    BY <1>1, <1>5 DEF vars, TableInv, FilesFinite, BranchKnows, Rewriting, Found, Match
  <1> QED BY <1>1, <1>2, <1>3, <1>4, <1>5, MoveAsideKnows, OpenKnows, OthersKnows, AppendKnows,
             EditKnows DEF Next, TableInv

-----------------------------------------------------------------------------
(***************************************************************************)
(* When no name occurs in the line of another module.                      *)
(***************************************************************************)
\* A line with another URL or branch is as unique.
LEMMA OtherLine ==
  ASSUME NEW S \in SUBSET Line, Orderly(S), NEW l \in S, NEW k \in Line,
         k.module = l.module, Own({k})
  PROVE  Orderly((S \ {l}) \cup {k})
  BY DEF Orderly, OneEach, Own

LEMMA StartKeeps ==
  ASSUME OwnWords, ReposInv, NEW t \in {"build", "branch", "update", "v"}, Start(t)
  PROVE  FilesOrderly'
  <1> USE DEF ReposInv, Start, projects
  <1>1. Orderly(repos') /\ bak' = bak
    BY ReposAssumption DEF FilesOrderly, Orderly, OneEach, OwnWords
  <1> QED BY <1>1 DEF FilesOrderly

LEMMA AppendKeeps == ASSUME OwnWords, ReposInv, Append PROVE FilesOrderly'
  <1> USE DEF ReposInv, TableInv, AnyWordsInv
  <1>1. PICK l \in bak : /\ Found(new.module, bak) = {l}
                         /\ new.url = l.url /\ new \in Line
                         /\ repos' = (bak \ {l}) \cup {new}
    BY AppendIs
  <1>2. bak \in SUBSET Line /\ Orderly(bak) /\ new.module \in Module
    BY <1>1 DEF TypeOK, FilesOrderly, Line
  <1>3. l.module = new.module
    BY <1>1, <1>2, FoundIs DEF Orderly
  <1>4. Own({new})
    BY <1>1, <1>2, <1>3 DEF Orderly, Own, OwnWords, Match, Line
  <1>5. Orderly(repos')
    BY <1>1, <1>2, <1>3, <1>4, OtherLine
  <1> QED BY <1>5, <1>2 DEF FilesOrderly, Append

LEMMA EditKeeps == ASSUME ReposInv, Edit PROVE FilesOrderly'
  <1> USE DEF ReposInv, TableInv, AnyWordsInv, Edit
  <1>1. PICK l \in repos, u \in Url :
          /\ \A m \in Module \ {l.module} : u \notin Holds[m]
          /\ repos' = (repos \ {l}) \cup {[l EXCEPT !.url = u]}
    OBVIOUS
  <1>2. repos \in SUBSET Line /\ Orderly(repos) /\ l \in Line
    BY DEF TypeOK, FilesOrderly
  <1> DEFINE k == [l EXCEPT !.url = u]
  <1>3. k \in Line /\ k.module = l.module /\ k.url = u /\ k.branch = l.branch
    BY <1>2 DEF Line
  <1>4. repos' = (repos \ {l}) \cup {k}  BY <1>1
  <1> HIDE DEF k
  <1>5. Own({k})  BY <1>1, <1>2, <1>3 DEF Orderly, Own, Match
  <1>6. Orderly(repos')
    BY <1>2, <1>3, <1>4, <1>5, OtherLine
  <1> QED BY <1>6 DEF FilesOrderly

LEMMA ReposInit == Init => ReposInv
  <1> SUFFICES ASSUME Init PROVE ReposInv
    OBVIOUS
  <1>1. FilesOrderly  BY DEF Init, FilesOrderly, Orderly, OneEach, Own
  <1> QED BY <1>1, TableInvInit DEF ReposInv

LEMMA ReposStep == ASSUME OwnWords, ReposInv, [Next]_vars PROVE ReposInv'
  <1>1. SUFFICES FilesOrderly'
    BY TableInvStep DEF ReposInv
  <1>2. ASSUME NEW t \in {"build", "branch", "update", "v"}, Start(t) PROVE FilesOrderly'
    BY <1>2, StartKeeps
  <1>3. CASE MoveAside
    BY <1>3 DEF MoveAside, ReposInv, TableInv, AnyWordsInv, FileIsThere, FilesOrderly, At
  <1>4. CASE Open
    BY <1>4 DEF Open, ReposInv, FilesOrderly, Orderly, OneEach, Own
  <1>5. CASE Others
    BY <1>5 DEF Others, Found, ReposInv, FilesOrderly, Orderly, OneEach, Own
  <1>6. CASE Clone \/ Refuse \/ Checkout \/ Return \/ Kill
    BY <1>6 DEF Clone, Refuse, Checkout, Return, Kill, ReposInv, FilesOrderly
  <1>7. ASSUME NEW m \in Module, RemoveOrigin(m) \/ PassBy(m) \/ CheckoutAgain(m)
        PROVE  FilesOrderly'
    BY <1>7 DEF RemoveOrigin, PassBy, CheckoutAgain, Visit, ReposInv, FilesOrderly
  <1>8. CASE AddOrigin \/ LoopEnds
    BY <1>8 DEF AddOrigin, LoopEnds, ReposInv, FilesOrderly
  <1>9. CASE UNCHANGED vars
    BY <1>9 DEF vars, ReposInv, FilesOrderly
  <1> QED BY <1>2, <1>3, <1>4, <1>5, <1>6, <1>7, <1>8, <1>9, AppendKeeps, EditKeeps DEF Next

-----------------------------------------------------------------------------
\* Makefile 37-42, 1046-1062, 1110-1152: the files hold lines and nothing else at any time, and
\* what update-repos has visited it has repaired, whatever words occur where.
THEOREM AnyWordsSafe == Spec => []AnyWordsInv
  <1>1. AnyWordsInv /\ [Next]_vars => AnyWordsInv'
    BY AnyStep
  <1> QED BY <1>1, AnyInit, PTL DEF Spec

\* The files, the remotes, the branches and the line to be written are of their types.
THEOREM Typed == Spec => []TypeOK
  <1>1. AnyWordsInv => TypeOK  BY DEF AnyWordsInv
  <1> QED BY <1>1, AnyWordsSafe, PTL

\* Makefile 1046-1062: update-repos gives every project the remote that its line says, also
\* after a kill between git remote remove and git remote add.
THEOREM Repairs == Spec => []UpdateRepairs
  <1>1. AnyWordsInv => UpdateRepairs
    BY DEF AnyWordsInv, Visited, UpdateEnds, UpdateRepairs, At
  <1> QED BY <1>1, AnyWordsSafe, PTL

\* "make branch" has moved away a list with one line that grep finds, and will write the URL
\* of that line, whatever words occur where.
THEOREM TableSafe == Spec => []TableInv
  <1>1. TableInv /\ [Next]_vars => TableInv'
    BY TableInvStep
  <1> QED BY <1>1, TableInvInit, PTL DEF Spec

\* If names occur in their own lines only: one line for each module, found by no other name,
\* in every file, at any time.
THEOREM ReposSafe == ASSUME OwnWords PROVE Spec => []ReposInv
  <1>1. ReposInv /\ [Next]_vars => ReposInv'
    BY ReposStep, OwnWords
  <1> QED BY <1>1, ReposInit, PTL DEF Spec

\* Makefile 1046-1062: if names occur in their own lines only, update-repos leaves no project
\* with another remote than its line says.
THEOREM RepairsAll ==
  ASSUME OwnWords
  PROVE  Spec => [](At("updated") => \A l \in repos : Cloned(l.module)
                                                        => origin[l.module] = l.url)
  <1>1. ReposInv => (At("updated") => \A l \in repos : Cloned(l.module)
                                                         => origin[l.module] = l.url)
    <2> SUFFICES ASSUME ReposInv, At("updated"), NEW l \in repos, Cloned(l.module)
                 PROVE  origin[l.module] = l.url
      OBVIOUS
    <2>1. repos \in SUBSET Line /\ Own(repos) /\ OneEach(repos)
      BY DEF ReposInv, TableInv, AnyWordsInv, FilesOrderly, Orderly, FileIsThere, TypeOK, At
    <2>2. Found(l.module, repos) = {l}  BY <2>1, FoundOne
    <2> QED BY <2>2 DEF ReposInv, TableInv, AnyWordsInv, Visited, UpdateEnds, At
  <1> QED BY <1>1, ReposSafe, OwnWords, PTL

\* Makefile 1136-1152: of a module that has a line "make branch" changes the branch in that
\* line and no other line, whatever words occur in whatever lines and whatever a kill has lost.
THEOREM BranchChanges == Spec => BranchChangesItsLine
  <1>1. TableInv /\ [Next]_vars =>
          [pc = "echo" /\ pc' = "checkout" =>
             \A l \in table : l.module = new.module =>
               table' = (table \ {l}) \cup {[l EXCEPT !.branch = new.branch]}]_vars
    <2> SUFFICES ASSUME TableInv, Next, pc = "echo", pc' = "checkout",
                        NEW l \in table, l.module = new.module
                 PROVE  table' = (table \ {l}) \cup {[l EXCEPT !.branch = new.branch]}
      OBVIOUS
    <2>1. Append
      BY DEF Next, Start, Clone, MoveAside, Refuse, Open, Others, Checkout, RemoveOrigin, PassBy,
             CheckoutAgain, AddOrigin, LoopEnds, Return, Edit, Kill, Exit, Visit, At, Goto
    <2>2. PICK k \in bak : /\ Found(new.module, bak) = {k}
                           /\ new.url = k.url /\ new \in Line
                           /\ repos' = (bak \ {k}) \cup {new}
      BY <2>1, AppendIs
    <2>3. bak \in SUBSET Line /\ new.module \in Module
      BY <2>2 DEF TableInv, AnyWordsInv, TypeOK, Line
    <2>4. repos' \in SUBSET Line /\ repos' # None
      BY <2>2, <2>3, ReposAssumption
    <2>5. table = bak /\ table' = repos'
      BY <2>4 DEF table, Rewriting
    <2>6. l = k
      BY <2>2, <2>3, <2>5, FoundFirst
    <2>7. new = [l EXCEPT !.branch = new.branch]
      BY <2>2, <2>3, <2>6 DEF Line
    <2> QED BY <2>2, <2>5, <2>6, <2>7
  <1> QED BY <1>1, TableSafe, PTL DEF Spec, BranchChangesItsLine

-----------------------------------------------------------------------------
(***************************************************************************)
(* Each step of Repos is one of RepoTable, or leaves the table as it is.   *)
(***************************************************************************)
LEMMA TableInit == Init => Table!Init
  BY DEF Init, Table!Init, table, Rewriting

LEMMA TableStep ==
  ASSUME TableInv, [Next]_vars
  PROVE  [Table!Next]_table
  <1> USE DEF TableInv, AnyWordsInv, At, Goto, projects
  <1>1. ASSUME NEW t \in {"build", "branch", "update", "v"}, Start(t) PROVE table' = table
    <2>1. repos' # None
      BY <1>1, ReposAssumption DEF Start
    <2> QED BY <1>1, <2>1 DEF Start, table, Rewriting
  <1>2. CASE Clone \/ Refuse \/ Checkout \/ Return
    BY <1>2 DEF Clone, Refuse, Checkout, Return, Exit, table, Rewriting
  <1>3. CASE MoveAside
    <2>1. repos # None /\ pc = "branch" /\ pc' = "open" /\ bak' = repos
      BY <1>3 DEF MoveAside, FileIsThere
    <2> QED BY <2>1 DEF table, Rewriting
  <1>4. CASE Open \/ Others
    BY <1>4 DEF Open, Others, table, Rewriting
  <1>5. CASE Append
    <2>1. PICK l \in bak : /\ Found(new.module, bak) = {l}
                           /\ new.url = l.url /\ new \in Line
                           /\ repos' = (bak \ {l}) \cup {new}
      BY <1>5, AppendIs
    <2>2. bak \in SUBSET Line /\ l \in Line /\ new.module \in Module /\ new.branch \in Branch
      BY <2>1 DEF TypeOK, Line
    <2>3. repos' \in SUBSET Line /\ repos' # None
      BY <2>1, <2>2, ReposAssumption
    <2>4. table = bak /\ table' = repos'
      BY <1>5, <2>3 DEF Append, table, Rewriting
    <2>5. CASE l.module = new.module
      <3>1. new = [l EXCEPT !.branch = new.branch]
        BY <2>1, <2>2, <2>5 DEF Line
      <3>2. Table!SetBranch
        BY <2>1, <2>2, <2>4, <3>1 DEF Table!SetBranch
      <3> QED BY <3>2 DEF Table!Next
    <2>6. CASE l.module # new.module
      <3>1. new = [module |-> new.module, url |-> l.url, branch |-> new.branch]
        BY <2>1 DEF Line
      <3>2. \A k \in table : k.module # new.module
        BY <2>1, <2>2, <2>4, <2>6, FoundFirst
      <3>3. Table!TakeOver
        BY <2>1, <2>2, <2>4, <3>1, <3>2 DEF Table!TakeOver
      <3> QED BY <3>3 DEF Table!Next
    <2> QED BY <2>5, <2>6
  <1>6. ASSUME NEW m \in Module, RemoveOrigin(m) \/ PassBy(m) \/ CheckoutAgain(m)
        PROVE  table' = table
    BY <1>6 DEF RemoveOrigin, PassBy, CheckoutAgain, Visit, table, Rewriting
  <1>7. CASE AddOrigin \/ LoopEnds
    BY <1>7 DEF AddOrigin, LoopEnds, table, Rewriting
  <1>8. CASE Edit
    <2>1. PICK l \in repos, u \in Url : repos' = (repos \ {l}) \cup {[l EXCEPT !.url = u]}
      BY <1>8 DEF Edit
    <2>2. repos \in SUBSET Line /\ repos # None /\ l \in Line
      BY <1>8 DEF Edit, TypeOK
    <2>3. repos' \in SUBSET Line
      BY <2>1, <2>2 DEF Line
    <2>4. table = repos /\ table' = repos'
      BY <1>8, <2>2, <2>3, ReposAssumption DEF Edit, table, Rewriting
    <2>5. Table!SetUrl
      BY <2>1, <2>4 DEF Table!SetUrl
    <2> QED BY <2>5 DEF Table!Next
  <1>9. CASE Kill
    <2>1. CanKill /\ pc # "stopped" /\ pc' = "stopped" /\ repos' = repos /\ bak' = bak
      BY <1>9 DEF Kill, Exit
    <2>2. CASE ~Rewriting
      BY <2>1, <2>2 DEF table, Rewriting
    <2>3. CASE pc = "open"
      <3>1. table' = Defaults
        BY <2>1, <2>3 DEF BranchKnows, table, Rewriting
      <3> QED BY <2>1, <3>1 DEF Table!Next, Table!LoseTable
    <2>4. CASE pc = "grep"
      <3>1. table' = {}
        BY <2>1, <2>4, ReposAssumption DEF BranchKnows, table, Rewriting
      <3> QED BY <2>1, <3>1 DEF Table!Next, Table!LoseTable
    <2>5. CASE pc = "echo"
      <3>1. PICK l \in bak : Found(new.module, bak) = {l} /\ repos = bak \ {l}
        BY <2>5 DEF BranchKnows, Rewriting
      <3>2. repos # None
        BY <2>5 DEF FileIsThere
      <3>3. table = bak /\ table' = repos
        BY <2>1, <2>5, <3>2 DEF table, Rewriting
      <3>4. Table!LoseLine
        BY <2>1, <3>1, <3>3 DEF Table!LoseLine
      <3> QED BY <3>4 DEF Table!Next
    <2> QED BY <2>2, <2>3, <2>4, <2>5 DEF Rewriting
  <1>10. CASE UNCHANGED vars
    BY <1>10 DEF vars, table, Rewriting
  <1> QED BY <1>1, <1>2, <1>3, <1>4, <1>5, <1>6, <1>7, <1>8, <1>9, <1>10 DEF Next

\* .repos is what RepoTable promises, whatever words occur in whatever lines: "make branch"
\* changes one line at once, as far as the next make can see; a kill loses lines; a module that
\* has no line may take the line of another.
THEOREM TableChanges == Spec => TableChangesAsPromised
  <1>1. TableInv /\ [Next]_vars => [Table!Next]_table
    BY TableStep
  <1> QED BY <1>1, TableInit, TableSafe, PTL DEF Spec, TableChangesAsPromised, Table!Spec

-----------------------------------------------------------------------------
(***************************************************************************)
(* With flock the list of jobs in .state is right for any number of jobs   *)
(* and any names.  The lock alone does not say so: what is needed is what  *)
(* a job that has called grep knows of the list that it will move back.    *)
(***************************************************************************)

\* The jobs between flock and the end of its subshell.
Inside == {"list", "grep", "mv"}

\* One job holds the lock at a time.
Locked ==
  /\ \A i \in Job : i \in holders <=> job[i] \in Inside
  /\ \A i, j \in holders : i = j

Lives(i) == job[i] \in {"work", "grep", "mv"} \/ i \in killed

\* What is about to be moved back lacks nothing but the lines that grep has removed, and
\* lists jobs that run.
CopyIsGood ==
  \A i \in Job : job[i] = "mv" =>
    /\ state \ state0 \subseteq Matching(i)
    /\ i \notin state0 /\ \A j \in state0 : Lives(j)

LogInv == LogTypeOK /\ Locked /\ ListedJobsRun /\ CopyIsGood

-----------------------------------------------------------------------------
LEMMA LogStarts == LogInit => LogInv
  BY DEF LogInit, LogInv, LogTypeOK, Locked, ListedJobsRun, CopyIsGood, Inside, Phase

LEMMA LogStep ==
  ASSUME HasFlock, LogInv, [LogNext]_logVars
  PROVE  LogInv'
  <1> USE DEF LogInv
  <1>1. CASE StartMake
    BY <1>1 DEF StartMake, LogTypeOK, Locked, ListedJobsRun, CopyIsGood, Lives, Inside
  <1>2. ASSUME NEW i \in Job, LockToList(i) PROVE LogInv'
    <2> USE <1>2 DEF LockToList, Take, JobAt, JobGoto
    <2>1. LogTypeOK'  BY DEF LogTypeOK, Phase
    <2>2. Locked'  BY DEF Locked, LogTypeOK, Inside
    <2>3. ListedJobsRun'  BY DEF ListedJobsRun, LogTypeOK
    <2>4. CopyIsGood'
      <3>1. \A j \in Job : job'[j] # "mv"  BY DEF Locked, LogTypeOK, Inside
      <3> QED BY <3>1 DEF CopyIsGood
    <2> QED BY <2>1, <2>2, <2>3, <2>4
  <1>3. ASSUME NEW i \in Job, List(i) PROVE LogInv'
    <2> USE <1>3 DEF List, Drop, JobAt, JobGoto
    <2>1. LogTypeOK'  BY DEF LogTypeOK, Phase
    <2>2. Locked'  BY DEF Locked, LogTypeOK, Inside
    <2>3. ListedJobsRun'  BY DEF ListedJobsRun, LogTypeOK
    <2>4. CopyIsGood'
      <3>1. \A j \in Job : job'[j] # "mv"  BY DEF Locked, LogTypeOK, Inside
      <3> QED BY <3>1 DEF CopyIsGood
    <2> QED BY <2>1, <2>2, <2>3, <2>4
  <1>4. ASSUME NEW i \in Job, LockToUnlist(i) PROVE LogInv'
    <2> USE <1>4 DEF LockToUnlist, Take, JobAt, JobGoto
    <2>1. LogTypeOK'  BY DEF LogTypeOK, Phase
    <2>2. Locked'  BY DEF Locked, LogTypeOK, Inside
    <2>3. ListedJobsRun'  BY DEF ListedJobsRun, LogTypeOK
    <2>4. CopyIsGood'
      <3>1. \A j \in Job : job'[j] # "mv"  BY DEF Locked, LogTypeOK, Inside
      <3> QED BY <3>1 DEF CopyIsGood
    <2> QED BY <2>1, <2>2, <2>3, <2>4
  <1>5. ASSUME NEW i \in Job, Grep(i) PROVE LogInv'
    <2> USE <1>5 DEF Grep, JobAt, JobGoto
    <2>1. LogTypeOK'  BY DEF LogTypeOK, Phase
    <2>2. Locked'  BY DEF Locked, LogTypeOK, Inside
    <2>3. ListedJobsRun'  BY DEF ListedJobsRun, LogTypeOK
    <2>4. CopyIsGood'
      <3>1. \A j \in Job : job'[j] = "mv" => j = i  BY DEF Locked, LogTypeOK, Inside
      <3>2. state \ state0' \subseteq Matching(i) /\ i \notin state0'  BY DEF Matching
      <3>3. \A j \in state0' : Lives(j)'  BY DEF ListedJobsRun, LogTypeOK, Lives
      <3> QED BY <3>1, <3>2, <3>3 DEF CopyIsGood, Matching
    <2> QED BY <2>1, <2>2, <2>3, <2>4
  <1>6. ASSUME NEW i \in Job, Move(i) PROVE LogInv'
    <2> USE <1>6 DEF Move, Drop, JobAt, JobGoto
    <2>1. LogTypeOK'  BY DEF LogTypeOK, Phase
    <2>2. Locked'  BY DEF Locked, LogTypeOK, Inside
    <2>3. ListedJobsRun'  BY DEF ListedJobsRun, CopyIsGood, Lives, LogTypeOK
    <2>4. CopyIsGood'
      <3>1. \A j \in Job : job'[j] # "mv"  BY DEF Locked, LogTypeOK, Inside
      <3> QED BY <3>1 DEF CopyIsGood
    <2> QED BY <2>1, <2>2, <2>3, <2>4
  <1>7. ASSUME NEW i \in Job, KillJob(i) PROVE LogInv'
    <2> USE <1>7 DEF KillJob, Drop, JobAt, JobGoto
    <2>1. LogTypeOK'  BY DEF LogTypeOK, Phase
    <2>2. Locked'  BY DEF Locked, LogTypeOK, Inside
    <2>3. ListedJobsRun'  BY DEF ListedJobsRun, LogTypeOK
    <2>4. CopyIsGood'
      BY DEF CopyIsGood, Lives, LogTypeOK, Matching
    <2> QED BY <2>1, <2>2, <2>3, <2>4
  <1>8. CASE UNCHANGED logVars
    BY <1>8 DEF logVars, LogTypeOK, Locked, ListedJobsRun, CopyIsGood, Lives, Matching
  <1> QED BY <1>1, <1>2, <1>3, <1>4, <1>5, <1>6, <1>7, <1>8 DEF LogNext

-----------------------------------------------------------------------------
\* Makefile 88-121: .state, .state0 and the lock hold jobs, one of which may rewrite the list.
THEOREM LogSafe == ASSUME HasFlock PROVE LogSpec => []LogInv
  <1>1. LogInv /\ [LogNext]_logVars => LogInv'
    BY LogStep, HasFlock
  <1> QED BY <1>1, LogStarts, PTL DEF LogSpec

\* Makefile 110-117: the list names jobs that run, and what was killed.
THEOREM Listed == ASSUME HasFlock PROVE LogSpec => []ListedJobsRun
  BY LogSafe, HasFlock, PTL DEF LogInv

\* Makefile 116-117: the line of a job that starts while another one rewrites the list stays.
THEOREM LinesLeave == ASSUME HasFlock PROVE LogSpec => LinesLeaveRightly
  <1>1. LogInv /\ [LogNext]_logVars =>
          [\A j \in state \ state' :
             StartMake \/ \E i \in Job : Move(i) /\ j \in Matching(i)]_logVars
    <2> SUFFICES ASSUME LogInv, LogNext, NEW j \in state \ state', ~StartMake
                 PROVE  \E i \in Job : Move(i) /\ j \in Matching(i)
      OBVIOUS
    <2>1. \A i \in Job : ~LockToList(i) /\ ~List(i) /\ ~LockToUnlist(i) /\ ~Grep(i) /\ ~KillJob(i)
      BY DEF LockToList, List, LockToUnlist, Grep, KillJob
    <2>2. PICK i \in Job : Move(i)
      BY <2>1 DEF LogNext
    <2>3. state \ state0 \subseteq Matching(i)
      BY <2>2 DEF Move, JobAt, LogInv, CopyIsGood
    <2> QED BY <2>2, <2>3 DEF Move
  <1> QED BY <1>1, LogSafe, HasFlock, PTL DEF LogSpec, LinesLeaveRightly
================================================================================
