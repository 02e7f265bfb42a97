--------------------------------- MODULE Make ---------------------------------
(***************************************************************************)
(* How GNU make carries out the rules of the Makefile, and what that makes *)
(* of the files the rules are really about.                                *)
(*                                                                         *)
(* make knows a rule by its target, its prerequisites and its recipe, and  *)
(* decides by modification times.  What the commands of the recipe read    *)
(* and write, it does not know.  The module keeps both views: newer is     *)
(* what make can see, unsynced is the truth about the files.  The rules    *)
(* are a parameter; the module Rules holds those of the Makefile.          *)
(*                                                                         *)
(* The recipes run in parallel up to Jobs; a command may fail, the machine *)
(* may stop; between two runs of make the sources may change and "make     *)
(* clean-..." may remove files.  Nothing is bounded: the state space of a  *)
(* finite table of rules is finite.                                        *)
(***************************************************************************)
EXTENDS Naturals, Sequences, FiniteSets

CONSTANTS
  Node,       \* files and directories: targets, sources, what recipes leave
  Rules,      \* target |-> [prereqs, recipe]
  Above,      \* target |-> the targets below which it cannot be made
  Given,      \* the nodes that are there at the beginning and have no rule
  Goals,      \* what may be asked of make: sets of targets
  Pulls,      \* the sets of sources that a git pull may change at once
  Removals,   \* the sets of files that one "make clean-..." removes
  Jobs,       \* the argument of -j
  CanFail,    \* commands may fail
  CanCrash    \* make may be killed, the machine may stop

Target     == DOMAIN Rules
Prereqs(t) == Rules[t].prereqs
Recipe(t)  == Rules[t].recipe

(***************************************************************************)
(* A command of a recipe. A "tool" that fails or is stopped may leave any  *)
(* of its outputs half written. An "atomic" command (echo done >$@, touch, *)
(* the mv at the end of configure) leaves all of them or none. A           *)
(* "compiler" removes what it has written when it fails, though not when   *)
(* it is killed; so does a "clone", which besides refuses a directory that *)
(* is there already. The status of an "unchecked" command is lost, the     *)
(* recipe goes on after a failure. A "backdate" (touch -t) makes its       *)
(* outputs older than everything.                                          *)
(***************************************************************************)
Command == [kind : {"tool", "atomic", "compiler", "clone", "unchecked", "backdate"},
            reads : SUBSET Node, writes : SUBSET Node]

ASSUME RulesAssumption ==
  /\ Target \subseteq Node /\ Given \subseteq Node \ Target
  /\ \A t \in Target : Prereqs(t) \subseteq Node /\ Recipe(t) \in Seq(Command)
  /\ \A t \in Target : Recipe(t) # <<>>
ASSUME AboveAssumption ==
  /\ Above \in [Target -> SUBSET Target]
  /\ \A t \in Target : Above[t] = (Prereqs(t) \cap Target)
                                  \cup UNION {Above[p] : p \in Prereqs(t) \cap Target}
  /\ \A t \in Target : \A u \in Above[t] : \E v \in Above[t] \cup {t} : u \in Prereqs(v)
  /\ \A t \in Target : t \notin Above[t]
ASSUME EnvironmentAssumption ==
  /\ Goals \subseteq SUBSET Target /\ {} \notin Goals
  /\ Pulls \subseteq SUBSET (Node \ Target) /\ Removals \subseteq SUBSET (Node \ Given)
  /\ Jobs \in Nat \ {0} /\ CanFail \in BOOLEAN /\ CanCrash \in BOOLEAN

VARIABLES
  content,    \* node |-> "none", "part" or "whole"
  newer,      \* <<t, p>> when the prerequisite p is newer than the target t
  unsynced,   \* the nodes that were made from what has changed since
  goal,       \* the targets make was asked for, {} when no make runs
  status,     \* target |-> what this run of make has done about it
  pc,         \* target |-> the command of its recipe that is running
  built       \* the goal of the last run, if it succeeded and nothing changed since

vars == <<content, newer, unsynced, goal, status, pc, built>>

-----------------------------------------------------------------------------
(***************************************************************************)
(* What the rules say about a node.                                        *)
(***************************************************************************)
Commands(t) == {Recipe(t)[i] : i \in DOMAIN Recipe(t)}

\* Touching a file makes nothing.
Made(c)      == IF c.kind = "backdate" THEN {} ELSE c.writes
Outputs(t)   == UNION {Made(c) : c \in Commands(t)}
Backdated(t) == UNION {c.writes : c \in {d \in Commands(t) : d.kind = "backdate"}}

\* What a node is made from.
Inputs == [n \in Node |->
             UNION {c.reads : c \in {d \in UNION {Commands(t) : t \in Target} :
                                       n \in Made(d)}}]

\* The targets a run for g has to look at.
Wanted(g) == g \cup UNION {Above[t] : t \in g}

Running == {t \in Target : status[t] = "running"}
Cmd(t)  == Recipe(t)[pc[t]]

Init ==
  /\ content = [n \in Node |-> IF n \in Given THEN "whole" ELSE "none"]
  /\ newer = {}
  /\ unsynced = {}
  /\ goal = {}
  /\ status = [t \in Target |-> "ignored"]
  /\ pc = [t \in Target |-> 0]
  /\ built = {}

\* The nodes of W are written, at one time: the targets that depend on them are
\* older now, and what was made from them is made from something else.
Write(W, how) ==
  /\ content'  = [n \in Node |-> IF n \in W THEN how ELSE content[n]]
  /\ newer'    = {x \in newer : x[1] \notin W} \cup
                 {x \in (Target \ W) \X W : content[x[1]] # "none" /\ x[2] \in Prereqs(x[1])}
  /\ unsynced' = (unsynced \ W) \cup
                 {n \in Node \ W : content[n] # "none" /\ Inputs[n] \cap W # {}}

\* The nodes of W are given a modification time long ago.
Backdate(W) ==
  /\ newer' = {x \in newer : x[2] \notin W}
  /\ UNCHANGED <<content, unsynced>>

-----------------------------------------------------------------------------
(***************************************************************************)
(* A run of make.                                                          *)
(***************************************************************************)

\* "make g" is typed.
Invoke(g) ==
  /\ goal = {}
  /\ goal' = g
  /\ status' = [t \in Target |-> IF t \in Wanted(g) THEN "todo" ELSE "ignored"]
  /\ UNCHANGED <<content, newer, unsynced, pc, built>>

\* All prerequisites of t have been dealt with.
Ready(t) == status[t] = "todo" /\ \A p \in Prereqs(t) \cap Target : status[p] = "done"

NeedsMaking(t) == content[t] = "none" \/ \E p \in Prereqs(t) : <<t, p>> \in newer

Stopping == \E t \in Target : status[t] = "failed"

Skip(t) ==
  /\ Ready(t) /\ ~NeedsMaking(t) /\ ~Stopping
  /\ status' = [status EXCEPT ![t] = "done"]
  /\ UNCHANGED <<content, newer, unsynced, goal, pc, built>>

Start(t) ==
  /\ Ready(t) /\ NeedsMaking(t) /\ ~Stopping
  /\ Cardinality(Running) < Jobs
  /\ status' = [status EXCEPT ![t] = "running"]
  /\ pc' = [pc EXCEPT ![t] = 1]
  /\ built' = {}
  /\ UNCHANGED <<content, newer, unsynced, goal>>

\* A command cannot succeed without what it reads, nor a clone into a directory.
Hopeless(c) ==
  \/ \E n \in c.reads : content[n] = "none"
  \/ c.kind = "clone" /\ \E n \in c.writes : content[n] # "none"

\* Mutant: the recipe has one command more than the rule.
AdvanceTooFar(t) ==
  IF pc[t] > Len(Recipe(t))
    THEN status' = [status EXCEPT ![t] = "done"] /\ pc' = [pc EXCEPT ![t] = 0]
    ELSE UNCHANGED status /\ pc' = [pc EXCEPT ![t] = @ + 1]

\* The recipe of t goes on, or has ended.
Advance(t) ==
  IF pc[t] = Len(Recipe(t))
    THEN status' = [status EXCEPT ![t] = "done"] /\ pc' = [pc EXCEPT ![t] = 0]
    ELSE UNCHANGED status /\ pc' = [pc EXCEPT ![t] = @ + 1]

Succeed(t) ==
  /\ status[t] = "running" /\ ~Hopeless(Cmd(t))
  /\ IF Cmd(t).kind = "backdate" THEN Backdate(Cmd(t).writes)
                                 ELSE Write(Cmd(t).writes, "whole")
  /\ Advance(t)
  /\ UNCHANGED <<goal, built>>

\* A command that cannot even begin leaves nothing.
MayFail(t) == status[t] = "running" /\ (CanFail \/ Hopeless(Cmd(t)))

Spoilt(t) == IF Hopeless(Cmd(t)) THEN {} ELSE Cmd(t).writes

\* The command of t fails and the recipe ends.  The target, if it is there, is
\* not removed: there is no .DELETE_ON_ERROR in the Makefile.
Fail(t) ==
  /\ MayFail(t) /\ Cmd(t).kind # "unchecked"
  /\ \E S \in SUBSET Spoilt(t) : (Cmd(t).kind # "tool" => S = {}) /\ Write(S, "part")
  /\ status' = [status EXCEPT ![t] = "failed"]
  /\ pc' = [pc EXCEPT ![t] = 0]
  /\ UNCHANGED <<goal, built>>

\* The command of t fails and nobody notices.
Overlook(t) ==
  /\ MayFail(t) /\ Cmd(t).kind = "unchecked"
  /\ \E S \in SUBSET Spoilt(t) : Write(S, "part")
  /\ Advance(t)
  /\ UNCHANGED <<goal, built>>

AllDone == \A t \in goal : status[t] = "done"

\* Mutant: make does not give up when a command has failed.
ExitIfDone ==
  /\ goal # {} /\ Running = {} /\ AllDone
  /\ built' = goal
  /\ goal' = {}
  /\ status' = [t \in Target |-> "ignored"]
  /\ UNCHANGED <<content, newer, unsynced, pc>>

\* make exits: everything is done, or something has failed and the recipes that
\* were running then have ended.
Exit ==
  /\ goal # {} /\ Running = {} /\ (AllDone \/ Stopping)
  /\ built' = IF AllDone THEN goal ELSE {}
  /\ goal' = {}
  /\ status' = [t \in Target |-> "ignored"]
  /\ UNCHANGED <<content, newer, unsynced, pc>>

\* What the running command of t may leave half written when it is killed.
HalfWritten(t) == IF Cmd(t).kind \in {"atomic", "backdate"} THEN {} ELSE Cmd(t).writes

\* make is killed with all its commands, or the machine stops.
Crash ==
  /\ CanCrash /\ goal # {}
  /\ \E S \in SUBSET UNION {HalfWritten(t) : t \in Running} : Write(S, "part")
  /\ goal' = {} /\ built' = {}
  /\ status' = [t \in Target |-> "ignored"]
  /\ pc' = [t \in Target |-> 0]

-----------------------------------------------------------------------------
(***************************************************************************)
(* Between two runs.                                                       *)
(***************************************************************************)

\* git pull changes some files of a checked out project.
Pull(S) ==
  /\ goal = {}
  /\ \A n \in S : content[n] = "whole"
  /\ Write(S, "whole")
  /\ built' = {}
  /\ UNCHANGED <<goal, status, pc>>

\* "make clean-..." and "make drop-prefix" remove files.
Remove(S) ==
  /\ goal = {}
  /\ \E n \in S : content[n] # "none"
  /\ content' = [n \in Node |-> IF n \in S THEN "none" ELSE content[n]]
  /\ newer' = {x \in newer : x[1] \notin S}
  /\ unsynced' = unsynced \ S
  /\ built' = {}
  /\ UNCHANGED <<goal, status, pc>>

Step == \/ \E t \in Target : Skip(t) \/ Start(t) \/ Succeed(t) \/ Fail(t) \/ Overlook(t)
        \/ Exit

Next ==
  \/ \E g \in Goals : Invoke(g)
  \/ Step
  \/ Crash
  \/ \E S \in Pulls : Pull(S)
  \/ \E S \in Removals : Remove(S)

Spec == Init /\ [][Next]_vars

\* Commands end, one way or the other, and make goes on.
FairSpec == Spec /\ WF_vars(Step)

\* The user types make again whenever it has ended.
RetrySpec == FairSpec /\ WF_vars(\E g \in Goals : Invoke(g))

-----------------------------------------------------------------------------
(***************************************************************************)
(* Tables of rules that make can be trusted with.  The parts are what the  *)
(* rules of the Makefile mostly, but not always, keep to; MakeProofs shows *)
(* that a table that keeps to all of them is built right, and MCRetry says *)
(* which rules break one.                                                  *)
(***************************************************************************)

\* The target of t is a stamp: it is written last, by a command that does nothing else.
StampedLast(t) ==
  \A i \in DOMAIN Recipe(t) :
    IF i = Len(Recipe(t))
      THEN Recipe(t)[i].kind = "atomic" /\ Recipe(t)[i].writes = {t}
      ELSE /\ Recipe(t)[i].kind \in {"tool", "atomic", "compiler", "backdate"}
           /\ Made(Recipe(t)[i]) \cap (Target \cup Given) = {}

\* What t writes is written by one command of t, and by no other rule.
WrittenOnce(t) ==
  \A u \in Target : \A i \in DOMAIN Recipe(t), j \in DOMAIN Recipe(u) :
    Made(Recipe(t)[i]) \cap Made(Recipe(u)[j]) # {} => t = u /\ i = j

\* A command of t uses sources, what the rules above t make, and what the commands
\* before it in the recipe have made.
OrderComplete(t) ==
  \A i \in DOMAIN Recipe(t) : \A n \in Recipe(t)[i].reads :
    \/ n \in Given
    \/ \E u \in Above[t] : n \in Outputs(u)
    \/ \E j \in DOMAIN Recipe(t) : j < i /\ n \in Made(Recipe(t)[j])

\* When sources change that the commands of t use, a prerequisite of t, or of a rule
\* above, has changed with them.
SourcesListed(t) ==
  \A S \in Pulls : \A c \in Commands(t) :
    c.reads \cap S # {} => \E v \in Above[t] \cup {t} : Prereqs(v) \cap S # {}

\* The prerequisites that t does not itself make look old. When sources change, one of
\* these has changed, if any prerequisite has: make still knows when the recipe has failed.
Lasting(t) == Prereqs(t) \ Backdated(t)
PullsNoticed(t) == \A S \in Pulls : Prereqs(t) \cap S # {} => Lasting(t) \cap S # {}

\* The files to which t gives a time long ago are no targets, no prerequisites of other
\* rules, and nothing that a rule reads or backdates which may run at the same time.
BackdatesOwn(t) ==
  \A c \in Commands(t) : c.kind = "backdate" =>
    /\ c.reads = {} /\ c.writes \cap Target = {}
    /\ \A u \in Target \ {t} :
         /\ c.writes \cap Prereqs(u) = {}
         /\ (\E d \in Commands(u) : c.writes \cap (d.reads \cup d.writes) # {})
              => t \in Above[u] \/ u \in Above[t]

\* Whoever removes what t has made removes t or a target above it, too.
CleanedWhole(t) ==
  \A S \in Removals : Outputs(t) \cap S # {} => (Above[t] \cup {t}) \cap S # {}

WellFormed ==
  /\ \A S \in Pulls : S \subseteq Given
  /\ \A t \in Target : Prereqs(t) \subseteq Target \cup Given
  /\ \A t \in Target :
       /\ StampedLast(t) /\ WrittenOnce(t) /\ OrderComplete(t) /\ BackdatesOwn(t)
       /\ SourcesListed(t) /\ PullsNoticed(t) /\ CleanedWhole(t)

-----------------------------------------------------------------------------
(***************************************************************************)
(* Weaker conditions, for a machine on which no command fails and nothing  *)
(* is killed.  The target need not be a stamp: it may be the result, may   *)
(* come before the end of the recipe and may be made twice; a lost status  *)
(* has nothing to hide; projects may be cloned.                            *)
(***************************************************************************)

\* Some command of t makes t, and none makes another target or a source.
MakesTarget(t) ==
  /\ \E c \in Commands(t) : t \in Made(c)
  /\ \A c \in Commands(t) : Made(c) \cap (Target \cup Given) \subseteq {t}

\* A clone comes first, in a rule without prerequisites, and what it makes is removed
\* together with the target.
ClonesFirst(t) ==
  \A i \in DOMAIN Recipe(t) : Recipe(t)[i].kind = "clone" =>
    /\ i = 1 /\ Prereqs(t) = {} /\ t \in Recipe(t)[i].writes
    /\ \A S \in Removals : t \in S => Recipe(t)[i].writes \subseteq S

\* What t writes is written by no other rule.
OwnOutputs(t) == \A u \in Target \ {t} : Outputs(t) \cap Outputs(u) = {}

\* No command of t makes what an earlier one has used, or what it uses itself.
ReadsInOrder(t) ==
  \A i, j \in DOMAIN Recipe(t) : i <= j => Recipe(t)[i].reads \cap Made(Recipe(t)[j]) = {}

\* A prerequisite of t is a source, a target, or comes with a target above t.
PrereqsMade(t) ==
  \A p \in Prereqs(t) : p \in Target \cup Given \/ \E u \in Above[t] : p \in Outputs(u)

WellOrdered ==
  /\ \A S \in Pulls : S \subseteq Given
  /\ \A t \in Target :
       /\ MakesTarget(t) /\ BackdatesOwn(t) /\ ClonesFirst(t)
       /\ OwnOutputs(t) /\ ReadsInOrder(t) /\ PrereqsMade(t)
       /\ OrderComplete(t) /\ SourcesListed(t) /\ CleanedWhole(t)

-----------------------------------------------------------------------------
(***************************************************************************)
(* Properties.                                                             *)
(***************************************************************************)

\* Every variable holds what its comment says.
TypeOK ==
  /\ content \in [Node -> {"none", "part", "whole"}]
  /\ newer \subseteq Target \X Node
  /\ unsynced \subseteq Node
  /\ goal \subseteq Target
  /\ status \in [Target -> {"ignored", "todo", "running", "done", "failed"}]
  /\ pc \in [Target -> Nat]
  /\ \A t \in Target : IF status[t] = "running" THEN pc[t] \in DOMAIN Recipe(t)
                                                ELSE pc[t] = 0
  /\ built \subseteq Target

\* When a command runs, the tools and files it uses are there, whole, and no
\* other command that runs at the same time is writing them.
InputsReady ==
  \A t \in Running : \A n \in Cmd(t).reads :
    content[n] = "whole" /\ \A u \in Running \ {t} : n \notin Cmd(u).writes

\* No two commands write one file at the same time.
OneWriter ==
  \A t, u \in Running : t # u => Cmd(t).writes \cap Cmd(u).writes = {}

\* "make" has succeeded: all that the rules of its goal are to leave is there and
\* was made from the sources as they are now, whatever failures, crashes, pulls
\* and removals came before.
SuccessMeansBuilt ==
  \A t \in Wanted(built) : \A n \in Outputs(t) : content[n] = "whole" /\ n \notin unsynced

\* "make" once more, with nothing changed, runs no recipe.
NothingTwice ==
  [][\A t \in Target : status[t] = "todo" /\ status'[t] = "running"
                         => ~(goal \subseteq built)]_vars

\* Every run of make comes to its end.
EveryRunEnds == goal # {} ~> goal = {}

\* Something happens that need not: not the end of a run, nor a command that cannot
\* but fail.
Mishap ==
  \/ Crash /\ ~Exit
  \/ \E t \in Running : ~Hopeless(Cmd(t)) /\ (Fail(t) \/ (Overlook(t) /\ ~Succeed(t)))
  \/ \E S \in Pulls : Pull(S)
  \/ \E S \in Removals : Remove(S)

\* No mishap leaves the files in a state that make cannot get out of: once they
\* have stopped, make succeeds if it is only tried again.
RetrySucceeds == <>[][~Mishap]_vars => <>[](built # {})
=============================================================================
