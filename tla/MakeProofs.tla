------------------------------ MODULE MakeProofs ------------------------------
(***************************************************************************)
(* What Make promises, for every table of rules, every number of jobs and  *)
(* all sets of goals, pulls and removals.                                  *)
(*                                                                         *)
(* Type correctness holds for every table.  The other theorems assume that *)
(* the table is WellFormed.  They rest on one invariant, in two parts:     *)
(* FilesInv is about the files alone, RunInv about the run of make.        *)
(***************************************************************************)
EXTENDS Make, TLAPS

\* make has no reason to make t.
Clean(t) == content[t] = "whole" /\ \A p \in Prereqs(t) : <<t, p>> \notin newer

\* Nor any target t is made from.  Only then are its outputs sure to be there: what is
\* removed together with a target above t is noticed when that target is made again.
DeepClean(t) == \A u \in Above[t] \cup {t} : Clean(u)

\* make has no reason to make t, but perhaps for the prerequisites that t makes look old:
\* of these it has forgotten what it knew as soon as the command has run.
Kept(t) == content[t] = "whole" /\ \A p \in Lasting(t) : <<t, p>> \notin newer

\* n is made by the i-th command of t.
Writes(t, i, n) == t \in Target /\ i \in DOMAIN Recipe(t) /\ n \in Made(Recipe(t)[i])

FilesInv ==
  /\ \A n \in Given : content[n] = "whole"
  /\ \A t \in Target : content[t] # "part"
  /\ \A t \in Target : DeepClean(t) =>
       \A n \in Outputs(t) : content[n] = "whole" /\ n \notin unsynced
  /\ \A t \in Target : Kept(t) => Clean(t)

\* Between two runs nothing is under way.
Idle == goal = {} => \A t \in Target : status[t] = "ignored"

RunInv ==
  /\ Idle
  /\ \A t \in Target : status[t] # "ignored" => t \in Wanted(goal)
  /\ \A t \in Target : status[t] \in {"running", "done"} =>
       \A u \in Above[t] : status[u] = "done"
  /\ \A t \in Target : status[t] = "done" => Clean(t)
  /\ \A t \in Target : status[t] = "running" => ~Clean(t)
  /\ \A t \in Target : status[t] = "running" => \A i \in DOMAIN Recipe(t) : i < pc[t] =>
       \A n \in Made(Recipe(t)[i]) : content[n] = "whole" /\ n \notin unsynced
  /\ built # {} => Running = {}
  /\ \A t \in Wanted(built) : DeepClean(t)

IInv == TypeOK /\ FilesInv /\ RunInv

-----------------------------------------------------------------------------
(***************************************************************************)
(* The rules.                                                              *)
(***************************************************************************)

\* What the assumptions say of a rule.
LEMMA RuleFacts ==
  ASSUME NEW t \in Target
  PROVE  /\ t \in Node /\ Prereqs(t) \subseteq Node
         /\ Recipe(t) \in Seq(Command) /\ Len(Recipe(t)) \in Nat \ {0}
         /\ DOMAIN Recipe(t) = 1 .. Len(Recipe(t))
         /\ \A i \in DOMAIN Recipe(t) :
              Recipe(t)[i].reads \subseteq Node /\ Recipe(t)[i].writes \subseteq Node
         /\ Above[t] \subseteq Target /\ t \notin Above[t]
         /\ Prereqs(t) \cap Target \subseteq Above[t]
<1>1. t \in Node /\ Prereqs(t) \subseteq Node /\ Recipe(t) \in Seq(Command) /\ Recipe(t) # <<>>
  BY RulesAssumption
<1>2. Len(Recipe(t)) \in Nat \ {0} /\ DOMAIN Recipe(t) = 1 .. Len(Recipe(t))
  BY <1>1
<1>3. ASSUME NEW i \in DOMAIN Recipe(t)
      PROVE  Recipe(t)[i].reads \subseteq Node /\ Recipe(t)[i].writes \subseteq Node
  <2>1. Recipe(t)[i] \in Command
    BY <1>1, <1>2
  <2>2. QED
    BY <2>1 DEF Command
<1>4. Above[t] \subseteq Target /\ t \notin Above[t] /\ Prereqs(t) \cap Target \subseteq Above[t]
  BY AboveAssumption
<1>5. QED
  BY <1>1, <1>2, <1>3, <1>4

\* The outputs of a rule, command by command.
LEMMA OutputsOf ==
  ASSUME NEW t \in Target
  PROVE  \A n : n \in Outputs(t) <=> \E i \in DOMAIN Recipe(t) : Writes(t, i, n)
BY DEF Outputs, Commands, Writes

\* No rule writes a source.
LEMMA SourcesUnwritten ==
  ASSUME WellFormed, NEW t, NEW i, NEW n, Writes(t, i, n)
  PROVE  n \notin Given /\ n \in Node
<1>1. n \in Node
  BY RuleFacts DEF Writes, Made
<1>2. CASE i = Len(Recipe(t))
  BY <1>1, <1>2, RulesAssumption DEF WellFormed, StampedLast, Writes, Made
<1>3. CASE i # Len(Recipe(t))
  BY <1>1, <1>3 DEF WellFormed, StampedLast, Writes
<1>4. QED
  BY <1>1, <1>2, <1>3

\* When n is made from m, the command that writes m comes before the command that
\* writes n: in the recipe of a rule above, or earlier in the same recipe.
LEMMA Dependence ==
  ASSUME WellFormed,
         NEW t, NEW i, NEW n, Writes(t, i, n),
         NEW u, NEW j, NEW m, Writes(u, j, m),
         m \in Inputs[n]
  PROVE  u \in Above[t] \/ (u = t /\ j < i)
<1>1. t \in Target /\ u \in Target /\ n \in Node
  BY SourcesUnwritten DEF Writes
<1>2. PICK v \in Target :
         \E k \in DOMAIN Recipe(v) : n \in Made(Recipe(v)[k]) /\ m \in Recipe(v)[k].reads
  BY <1>1 DEF Inputs, Commands
<1>3. v = t /\ m \in Recipe(t)[i].reads
  BY <1>1, <1>2 DEF WellFormed, WrittenOnce, Writes
<1>4. m \in Recipe(t)[i].reads /\ m \notin Given
  BY <1>3, SourcesUnwritten
<1>5. CASE \E w \in Above[t] : m \in Outputs(w)
  <2>1. PICK w \in Above[t] : m \in Outputs(w)
    BY <1>5
  <2>2. w \in Target
    BY <1>1, <2>1, RuleFacts
  <2>3. PICK l \in DOMAIN Recipe(w) : Writes(w, l, m)
    BY <2>1, <2>2, OutputsOf
  <2>4. w = u
    BY <2>2, <2>3, <1>1 DEF WellFormed, WrittenOnce, Writes
  <2>5. QED
    BY <2>1, <2>4
<1>6. CASE \E l \in DOMAIN Recipe(t) : l < i /\ m \in Made(Recipe(t)[l])
  BY <1>6, <1>1 DEF WellFormed, WrittenOnce, Writes
<1>7. QED
  BY <1>1, <1>4, <1>5, <1>6 DEF WellFormed, OrderComplete, Writes

-----------------------------------------------------------------------------
(***************************************************************************)
(* What writing does, node by node.                                        *)
(***************************************************************************)
LEMMA WriteEffect ==
  ASSUME TypeOK, NEW W \in SUBSET Node, NEW how, Write(W, how)
  PROVE  /\ \A n \in Node : content'[n] = IF n \in W THEN how ELSE content[n]
         /\ \A t \in Target : \A p \in Prereqs(t) :
              <<t, p>> \in newer' <=> /\ t \notin W
                                      /\ \/ <<t, p>> \in newer
                                         \/ p \in W /\ content[t] # "none"
         /\ \A n \in Node : n \in unsynced' <=>
              /\ n \notin W
              /\ n \in unsynced \/ (content[n] # "none" /\ Inputs[n] \cap W # {})
<1>1. \A n \in Node : content'[n] = IF n \in W THEN how ELSE content[n]
  BY DEF Write
<1>2. ASSUME NEW t \in Target, NEW p \in Prereqs(t)
      PROVE  <<t, p>> \in newer' <=> /\ t \notin W
                                     /\ \/ <<t, p>> \in newer
                                        \/ p \in W /\ content[t] # "none"
  BY DEF Write
<1>3. ASSUME NEW n \in Node
      PROVE  n \in unsynced' <=>
              /\ n \notin W
              /\ n \in unsynced \/ (content[n] # "none" /\ Inputs[n] \cap W # {})
  BY DEF Write
<1>4. QED
  BY <1>1, <1>2, <1>3

\* Writing keeps the types.
LEMMA WriteTypes ==
  ASSUME TypeOK, NEW W \in SUBSET Node, NEW how \in {"part", "whole"}, Write(W, how)
  PROVE  /\ content' \in [Node -> {"none", "part", "whole"}]
         /\ newer' \subseteq Target \X Node
         /\ unsynced' \subseteq Node
<1>1. Target \subseteq Node
  BY RulesAssumption
<1>2. content' \in [Node -> {"none", "part", "whole"}]
  BY DEF Write, TypeOK
<1>3. newer' \subseteq Target \X Node
  BY DEF Write, TypeOK
<1>4. unsynced' \subseteq Node
  BY DEF Write, TypeOK
<1>5. QED
  BY <1>2, <1>3, <1>4

-----------------------------------------------------------------------------
(***************************************************************************)
(* Writing what the running recipes write, but not yet their targets:      *)
(* nothing that make looks at changes.                                     *)
(***************************************************************************)
Quiet(W) ==
  \A n \in W : /\ n \notin Target
               /\ \E u \in Running : \E j \in DOMAIN Recipe(u) : Writes(u, j, n)

LEMMA QuietWrite ==
  ASSUME WellFormed, TypeOK, NEW W \in SUBSET Node, Quiet(W), NEW how, Write(W, how)
  PROVE  /\ \A n \in Target \cup Given : content'[n] = content[n]
         /\ \A t \in Target : (Clean(t)' <=> Clean(t)) /\ (Kept(t)' <=> Kept(t))
<1>1. \A n \in W : n \notin Target \cup Given
  BY SourcesUnwritten DEF Quiet
<1>2. Target \cup Given \subseteq Node
  BY RulesAssumption
<1>3. \A n \in Target \cup Given : content'[n] = content[n]
  BY <1>1, <1>2, WriteEffect
<1>4. \A t \in Target : \A p \in Prereqs(t) : <<t, p>> \in newer' <=> <<t, p>> \in newer
  BY <1>1, WriteEffect DEF WellFormed
<1>5. \A t \in Target : Clean(t)' <=> Clean(t)
  BY <1>3, <1>4 DEF Clean
<1>6. \A t \in Target : Kept(t)' <=> Kept(t)
  BY <1>3, <1>4 DEF Kept, Lasting
<1>7. QED
  BY <1>3, <1>5, <1>6

LEMMA QuietKeepsFiles ==
  ASSUME WellFormed, IInv, NEW W \in SUBSET Node, Quiet(W), NEW how, Write(W, how)
  PROVE  FilesInv'
<1>0. TypeOK
  BY DEF IInv
<1>1. \A n \in Target \cup Given : content'[n] = content[n]
  BY <1>0, QuietWrite
<1>2. \A t \in Target : (Clean(t)' <=> Clean(t)) /\ (Kept(t)' <=> Kept(t))
  BY <1>0, QuietWrite
<1>3. \A u \in Running : u \in Target /\ ~Clean(u)
  BY DEF IInv, RunInv, Running
<1>4. ASSUME NEW t \in Target, DeepClean(t)' PROVE DeepClean(t)
  BY <1>2, <1>4, RuleFacts DEF DeepClean
<1>5. ASSUME NEW t \in Target, DeepClean(t)', NEW n \in Outputs(t)
      PROVE  content'[n] = "whole"
  <2>1. PICK i \in DOMAIN Recipe(t) : Writes(t, i, n)
    BY OutputsOf
  <2>2. n \in Node /\ content[n] = "whole"
    BY <1>4, <1>5, <2>1, SourcesUnwritten DEF IInv, FilesInv
  <2>3. n \notin W
    <3>1. SUFFICES ASSUME n \in W PROVE FALSE
      OBVIOUS
    <3>2. PICK u \in Running : \E j \in DOMAIN Recipe(u) : Writes(u, j, n)
      BY <3>1 DEF Quiet
    <3>3. u = t
      BY <2>1, <3>2 DEF WellFormed, WrittenOnce, Writes
    <3>4. QED
      BY <1>3, <1>4, <1>5, <3>3 DEF DeepClean
  <2>4. QED
    BY <1>0, <2>2, <2>3, WriteEffect
<1>6. ASSUME NEW t \in Target, DeepClean(t)', NEW n \in Outputs(t), n \in unsynced'
      PROVE  FALSE
  <2>1. DeepClean(t)
    BY <1>4, <1>6
  <2>2. PICK i \in DOMAIN Recipe(t) : Writes(t, i, n)
    BY OutputsOf
  <2>3. n \in Node /\ n \notin unsynced
    BY <2>1, <2>2, SourcesUnwritten DEF IInv, FilesInv
  <2>4. PICK m \in W : m \in Inputs[n]
    BY <1>0, <1>6, <2>3, WriteEffect
  <2>5. PICK u \in Running : \E j \in DOMAIN Recipe(u) : Writes(u, j, m)
    BY DEF Quiet
  <2>6. u \in Above[t] \cup {t}
    BY <2>2, <2>4, <2>5, Dependence
  <2>7. QED
    BY <1>3, <2>1, <2>6 DEF DeepClean
<1>7. /\ \A n \in Given : content'[n] = "whole"
      /\ \A t \in Target : content'[t] # "part"
      /\ \A t \in Target : Kept(t)' => Clean(t)'
  BY <1>1, <1>2 DEF IInv, FilesInv
<1>8. QED
  BY <1>5, <1>6, <1>7 DEF FilesInv

\* What a running recipe has made so far is not disturbed by the other recipes.
LEMMA OthersProgress ==
  ASSUME WellFormed, IInv, NEW W \in SUBSET Node, NEW how, Write(W, how),
         NEW u \in Running, \A m \in W : \E j \in DOMAIN Recipe(u) : Writes(u, j, m),
         NEW t \in Running, t # u,
         NEW i \in DOMAIN Recipe(t), i < pc[t], NEW n \in Made(Recipe(t)[i])
  PROVE  content'[n] = "whole" /\ n \notin unsynced'
<1>0. TypeOK /\ t \in Target /\ u \in Target
  BY DEF IInv, Running
<1>1. content[n] = "whole" /\ n \notin unsynced
  BY <1>0 DEF IInv, RunInv, Running
<1>2. Writes(t, i, n) /\ n \in Node
  BY <1>0, SourcesUnwritten DEF Writes
<1>3. n \notin W
  BY <1>2 DEF WellFormed, WrittenOnce, Writes
<1>4. ASSUME NEW m \in W, m \in Inputs[n] PROVE FALSE
  <2>1. u \in Above[t]
    BY <1>2, <1>4, Dependence
  <2>2. status[u] = "done" /\ status[u] = "running"
    BY <1>0, <2>1 DEF IInv, RunInv, Running
  <2>3. QED
    BY <2>2
<1>5. content'[n] = content[n]
  BY <1>0, <1>2, <1>3, WriteEffect
<1>6. n \in unsynced' => n \in unsynced
  BY <1>0, <1>2, <1>4, WriteEffect
<1>7. QED
  BY <1>1, <1>5, <1>6

-----------------------------------------------------------------------------
(***************************************************************************)
(* Writing the target, the last command of a recipe.                       *)
(***************************************************************************)
LEMMA FinishClean ==
  ASSUME TypeOK, NEW t \in Target, Write({t}, "whole")
  PROVE  /\ Clean(t)'
         /\ \A v \in Target \ {t} : Clean(v)' <=> Clean(v) /\ t \notin Prereqs(v)
         /\ \A v \in Target \ {t} : Kept(v)' <=> Kept(v) /\ t \notin Lasting(v)
<1>1. t \in Node /\ {t} \in SUBSET Node /\ Target \subseteq Node
  BY RulesAssumption
<1>2. Clean(t)'
  BY <1>1, WriteEffect DEF Clean
<1>3. ASSUME NEW v \in Target \ {t} PROVE Clean(v)' <=> Clean(v) /\ t \notin Prereqs(v)
  <2>1. content'[v] = content[v]
    BY SMTT(30), <1>1, WriteEffect
  <2>2. \A p \in Prereqs(v) :
          <<v, p>> \in newer' <=> <<v, p>> \in newer \/ (p = t /\ content[v] # "none")
    BY SMTT(30), <1>1, WriteEffect
  <2>3. QED
    BY <2>1, <2>2 DEF Clean
<1>4. ASSUME NEW v \in Target \ {t} PROVE Kept(v)' <=> Kept(v) /\ t \notin Lasting(v)
  <2>1. content'[v] = content[v]
    BY SMTT(30), <1>1, WriteEffect
  <2>2. \A p \in Prereqs(v) :
          <<v, p>> \in newer' <=> <<v, p>> \in newer \/ (p = t /\ content[v] # "none")
    BY SMTT(30), <1>1, WriteEffect
  <2>3. Lasting(v) \subseteq Prereqs(v)
    BY DEF Lasting
  <2>4. \A p \in Lasting(v) :
          <<v, p>> \in newer' <=> <<v, p>> \in newer \/ (p = t /\ content[v] # "none")
    BY <2>2, <2>3
  <2>5. QED
    BY <2>1, <2>4 DEF Kept
<1>5. QED
  BY <1>2, <1>3, <1>4

\* A target is not among the files that a rule makes look old.
LEMMA TargetsLast ==
  ASSUME WellFormed, NEW t \in Target, NEW v \in Target, t \in Prereqs(v)
  PROVE  t \in Lasting(v)
<1>1. SUFFICES ASSUME t \in Backdated(v) PROVE FALSE
  BY DEF Lasting
<1>2. PICK c \in Commands(v) : c.kind = "backdate" /\ t \in c.writes
  BY <1>1 DEF Backdated
<1>3. c.writes \cap Target = {}
  BY <1>2 DEF WellFormed, BackdatesOwn
<1>4. QED
  BY <1>2, <1>3

LEMMA FinishKeepsFiles ==
  ASSUME WellFormed, IInv, NEW t \in Running, pc[t] = Len(Recipe(t)), Write({t}, "whole")
  PROVE  FilesInv'
<1>0. TypeOK /\ t \in Target /\ {t} \in SUBSET Node /\ Target \cup Given \subseteq Node
  BY RulesAssumption DEF IInv, Running
<1>1. /\ \A n \in Node : content'[n] = IF n = t THEN "whole" ELSE content[n]
      /\ \A n \in Node : n \in unsynced' => n # t /\ (n \in unsynced \/ t \in Inputs[n])
  BY <1>0 DEF Write
<1>2. /\ Clean(t)'
      /\ \A v \in Target \ {t} : Clean(v)' <=> Clean(v) /\ t \notin Prereqs(v)
      /\ \A v \in Target \ {t} : Kept(v)' <=> Kept(v) /\ t \notin Lasting(v)
  BY <1>0, FinishClean
<1>3. Writes(t, Len(Recipe(t)), t) /\ DOMAIN Recipe(t) = 1 .. Len(Recipe(t))
      /\ Len(Recipe(t)) \in Nat /\ Made(Recipe(t)[Len(Recipe(t))]) = {t}
  <2>1. DOMAIN Recipe(t) = 1 .. Len(Recipe(t)) /\ Len(Recipe(t)) \in Nat \ {0}
    BY <1>0, RuleFacts
  <2>2. Made(Recipe(t)[Len(Recipe(t))]) = {t}
    BY <1>0, <2>1 DEF WellFormed, StampedLast, Made
  <2>3. QED
    BY <1>0, <2>1, <2>2 DEF Writes
<1>4. \A n \in Outputs(t) : n \in Node /\
        (n = t \/ \E i \in DOMAIN Recipe(t) : i < Len(Recipe(t)) /\ Writes(t, i, n))
  <2>1. SUFFICES ASSUME NEW n \in Outputs(t), n # t
                 PROVE  n \in Node /\
                        \E i \in DOMAIN Recipe(t) : i < Len(Recipe(t)) /\ Writes(t, i, n)
    BY <1>0
  <2>2. PICK i \in DOMAIN Recipe(t) : Writes(t, i, n)
    BY <1>0, OutputsOf
  <2>3. i # Len(Recipe(t))
    BY <1>3, <2>1, <2>2 DEF Writes
  <2>4. i < Len(Recipe(t))
    BY <1>3, <2>3
  <2>5. QED
    BY <2>2, <2>4, SourcesUnwritten
<1>5. \A i \in DOMAIN Recipe(t) : i < Len(Recipe(t)) =>
        \A n : Writes(t, i, n) => content[n] = "whole" /\ n \notin unsynced
  BY <1>0 DEF IInv, RunInv, Running, Writes
<1>6. /\ \A n \in Given : content'[n] = "whole"
      /\ \A v \in Target : content'[v] # "part"
      /\ \A v \in Target : Kept(v)' => Clean(v)'
  <2>1. /\ \A n \in Given : content'[n] = "whole"
        /\ \A v \in Target : content'[v] # "part"
    BY <1>0, <1>1 DEF IInv, FilesInv
  <2>2. \A v \in Target : Kept(v) => Clean(v)
    BY DEF IInv, FilesInv
  <2>3. \A v \in Target : t \in Prereqs(v) => t \in Lasting(v)
    BY <1>0, TargetsLast
  <2>4. QED
    BY <1>2, <2>1, <2>2, <2>3
<1>7. ASSUME NEW v \in Target, DeepClean(v)', v # t
      PROVE  t \notin Above[v] /\ DeepClean(v)
  <2>1. t \notin Above[v]
    <3>1. SUFFICES ASSUME t \in Above[v] PROVE FALSE
      OBVIOUS
    <3>2. PICK w \in Above[v] \cup {v} : t \in Prereqs(w)
      BY <1>0, <3>1, AboveAssumption
    <3>3. w \in Target /\ w # t
      BY <1>0, <3>2, RuleFacts
    <3>4. Clean(w)'
      BY <1>7, <3>2 DEF DeepClean
    <3>5. QED
      BY <1>2, <3>2, <3>3, <3>4
  <2>2. QED
    BY <1>2, <1>7, <2>1, RuleFacts DEF DeepClean
<1>8. ASSUME NEW v \in Target, DeepClean(v)', NEW n \in Outputs(v)
      PROVE  content'[n] = "whole" /\ n \notin unsynced'
  <2>1. PICK i \in DOMAIN Recipe(v) : Writes(v, i, n)
    BY OutputsOf
  <2>2. n \in Node
    BY <2>1, SourcesUnwritten
  <2>3. t \in Inputs[n] => t \in Above[v] \/ (t = v /\ Len(Recipe(t)) < i)
    BY <1>3, <2>1, Dependence
  <2>4. CASE v = t
    <3>1. t \notin Above[t]
      BY <1>0, RuleFacts
    <3>2. t \notin Inputs[n]
      BY <1>3, <2>1, <2>3, <2>4, <3>1
    <3>3. n = t \/ (content[n] = "whole" /\ n \notin unsynced)
      BY <1>4, <1>5, <2>4
    <3>4. QED
      BY <1>1, <2>2, <3>2, <3>3
  <2>5. CASE v # t
    <3>1. t \notin Inputs[n]
      BY <1>7, <1>8, <2>3, <2>5
    <3>2. content[n] = "whole" /\ n \notin unsynced
      BY <1>7, <1>8, <2>5 DEF IInv, FilesInv
    <3>3. QED
      BY <1>1, <2>2, <3>1, <3>2
  <2>6. QED
    BY <2>4, <2>5
<1>9. QED
  BY <1>6, <1>8 DEF FilesInv

-----------------------------------------------------------------------------
(***************************************************************************)
(* Type correctness, for every table of rules.                             *)
(***************************************************************************)
LEMMA RunningFacts ==
  ASSUME TypeOK, NEW t \in Target, status[t] = "running"
  PROVE  /\ pc[t] \in DOMAIN Recipe(t) /\ pc[t] \in 1 .. Len(Recipe(t))
         /\ Len(Recipe(t)) \in Nat
         /\ Cmd(t).writes \subseteq Node
<1>1. pc[t] \in DOMAIN Recipe(t)
  BY DEF TypeOK
<1>2. QED
  BY <1>1, RuleFacts DEF Cmd

PcOK == \A t \in Target : IF status[t] = "running" THEN pc[t] \in DOMAIN Recipe(t)
                                                    ELSE pc[t] = 0

\* The recipe goes on within its bounds.
LEMMA AdvanceTypes ==
  ASSUME TypeOK, NEW t \in Target, status[t] = "running", Advance(t)
  PROVE  /\ status' \in [Target -> {"ignored", "todo", "running", "done", "failed"}]
         /\ pc' \in [Target -> Nat]
         /\ PcOK'
<1>0. /\ status \in [Target -> {"ignored", "todo", "running", "done", "failed"}]
      /\ pc \in [Target -> Nat] /\ PcOK
  BY DEF TypeOK, PcOK
<1>1. pc[t] \in 1 .. Len(Recipe(t)) /\ Len(Recipe(t)) \in Nat /\ DOMAIN Recipe(t) = 1 .. Len(Recipe(t))
  BY RunningFacts, RuleFacts
<1>2. CASE pc[t] = Len(Recipe(t))
  <2>1. status' = [status EXCEPT ![t] = "done"] /\ pc' = [pc EXCEPT ![t] = 0]
    BY <1>2 DEF Advance
  <2>2. QED
    BY <1>0, <2>1 DEF PcOK
<1>3. CASE pc[t] # Len(Recipe(t))
  <2>1. status' = status /\ pc' = [pc EXCEPT ![t] = pc[t] + 1]
    BY <1>3 DEF Advance
  <2>2. pc[t] + 1 \in DOMAIN Recipe(t)
    BY <1>1, <1>3
  <2>3. pc' \in [Target -> Nat]
    BY <1>0, <1>1, <2>1
  <2>4. PcOK'
    BY <1>0, <2>1, <2>2 DEF PcOK
  <2>5. QED
    BY <1>0, <2>1, <2>3, <2>4
<1>4. QED
  BY <1>2, <1>3

LEMMA TypeInit == Init => TypeOK /\ Idle
BY RulesAssumption DEF Init, TypeOK, Idle

LEMMA IdleStep == TypeOK /\ Idle /\ [Next]_vars => Idle'
<1> SUFFICES ASSUME TypeOK, Idle, [Next]_vars PROVE Idle'
  OBVIOUS
<1>1. ASSUME NEW g \in Goals, Invoke(g) PROVE Idle'
  BY <1>1, EnvironmentAssumption DEF Invoke, Idle
<1>2. ASSUME NEW t \in Target, status[t] # "ignored", goal' = goal PROVE Idle'
  BY <1>2 DEF Idle
<1>3. ASSUME NEW t \in Target, Skip(t) \/ Start(t) \/ Succeed(t) \/ Fail(t) \/ Overlook(t)
      PROVE  status[t] # "ignored" /\ goal' = goal
  BY <1>3 DEF Skip, Start, Ready, Succeed, Fail, Overlook, MayFail
<1>4. CASE Exit \/ Crash
  BY <1>4 DEF Exit, Crash, Idle
<1>5. ASSUME (\E S \in Pulls : Pull(S)) \/ (\E S \in Removals : Remove(S)) \/ UNCHANGED vars
      PROVE  Idle'
  BY <1>5 DEF Pull, Remove, vars, Idle
<1>6. QED
  BY <1>1, <1>2, <1>3, <1>4, <1>5 DEF Next, Step

\* No action leaves the types.
LEMMA TypeStep == TypeOK /\ Idle /\ [Next]_vars => TypeOK'
<1> SUFFICES ASSUME TypeOK, Idle, [Next]_vars PROVE TypeOK'
  OBVIOUS
<1> USE DEF PcOK
<1>0. Target \subseteq Node
  BY RulesAssumption
<1>1. ASSUME NEW g \in Goals, Invoke(g) PROVE TypeOK'
  <2>1. g \subseteq Target
    BY EnvironmentAssumption
  <2>2. \A t \in Target : status[t] = "ignored"
    BY <1>1 DEF Invoke, Idle
  <2>3. QED
    BY <1>1, <2>1, <2>2 DEF Invoke, TypeOK
<1>2. ASSUME NEW t \in Target, Skip(t) PROVE TypeOK'
  BY <1>2 DEF Skip, Ready, TypeOK
<1>3. ASSUME NEW t \in Target, Start(t) PROVE TypeOK'
  <2>1. 1 \in DOMAIN Recipe(t)
    BY RuleFacts
  <2>2. QED
    BY <1>3, <2>1 DEF Start, Ready, TypeOK
<1>4. ASSUME NEW t \in Target, Succeed(t) PROVE TypeOK'
  <2>1. status[t] = "running" /\ Advance(t) /\ goal' = goal /\ built' = built
    BY <1>4 DEF Succeed
  <2>2. /\ content' \in [Node -> {"none", "part", "whole"}]
        /\ newer' \subseteq Target \X Node
        /\ unsynced' \subseteq Node
    <3>1. CASE Cmd(t).kind = "backdate"
      BY <1>4, <3>1 DEF Succeed, Backdate, TypeOK
    <3>2. CASE Cmd(t).kind # "backdate"
      <4>1. Write(Cmd(t).writes, "whole") /\ Cmd(t).writes \in SUBSET Node
        BY <1>4, <3>2, <2>1, RunningFacts DEF Succeed
      <4>2. QED
        BY <4>1, WriteTypes
    <3>3. QED
      BY <3>1, <3>2
  <2>3. QED
    BY <2>1, <2>2, AdvanceTypes DEF TypeOK
<1>5. ASSUME NEW t \in Target, Fail(t) PROVE TypeOK'
  <2>1. PICK S \in SUBSET Spoilt(t) : Write(S, "part")
    BY <1>5 DEF Fail
  <2>2. S \in SUBSET Node
    BY <1>5, RunningFacts DEF Fail, MayFail, Spoilt
  <2>3. /\ content' \in [Node -> {"none", "part", "whole"}]
        /\ newer' \subseteq Target \X Node
        /\ unsynced' \subseteq Node
    BY <2>1, <2>2, WriteTypes
  <2>4. QED
    BY <1>5, <2>3 DEF Fail, TypeOK
<1>6. ASSUME NEW t \in Target, Overlook(t) PROVE TypeOK'
  <2>1. PICK S \in SUBSET Spoilt(t) : Write(S, "part")
    BY <1>6 DEF Overlook
  <2>2. S \in SUBSET Node
    BY <1>6, RunningFacts DEF Overlook, MayFail, Spoilt
  <2>3. /\ content' \in [Node -> {"none", "part", "whole"}]
        /\ newer' \subseteq Target \X Node
        /\ unsynced' \subseteq Node
    BY <2>1, <2>2, WriteTypes
  <2>4. status[t] = "running" /\ Advance(t) /\ goal' = goal /\ built' = built
    BY <1>6 DEF Overlook, MayFail
  <2>5. QED
    BY <2>3, <2>4, AdvanceTypes DEF TypeOK
<1>7. CASE Exit
  <2>1. \A t \in Target : status[t] # "running"
    BY <1>7 DEF Exit, Running
  <2>2. QED
    BY <1>7, <2>1 DEF Exit, TypeOK
<1>8. CASE Crash
  <2>1. PICK S \in SUBSET UNION {HalfWritten(t) : t \in Running} : Write(S, "part")
    BY <1>8 DEF Crash
  <2>2. \A t \in Running : HalfWritten(t) \subseteq Node
    BY RunningFacts DEF Running, HalfWritten
  <2>3. S \in SUBSET Node
    BY <2>1, <2>2
  <2>4. /\ content' \in [Node -> {"none", "part", "whole"}]
        /\ newer' \subseteq Target \X Node
        /\ unsynced' \subseteq Node
    BY <2>1, <2>3, WriteTypes
  <2>5. QED
    BY <1>8, <2>4 DEF Crash, TypeOK
<1>9. ASSUME NEW S \in Pulls, Pull(S) PROVE TypeOK'
  <2>1. S \in SUBSET Node
    BY EnvironmentAssumption
  <2>2. /\ content' \in [Node -> {"none", "part", "whole"}]
        /\ newer' \subseteq Target \X Node
        /\ unsynced' \subseteq Node
    BY <1>9, <2>1, WriteTypes DEF Pull
  <2>3. QED
    BY <1>9, <2>2 DEF Pull, TypeOK
<1>10. ASSUME NEW S \in Removals, Remove(S) PROVE TypeOK'
  BY <1>10 DEF Remove, TypeOK
<1>11. CASE UNCHANGED vars
  BY <1>11 DEF vars, TypeOK
<1>12. QED
  BY <1>1, <1>2, <1>3, <1>4, <1>5, <1>6, <1>7, <1>8, <1>9, <1>10, <1>11 DEF Next, Step

\* Every variable keeps its type, whatever the rules are.
THEOREM Typed == Spec => []TypeOK
<1>1. Init => TypeOK /\ Idle
  BY TypeInit
<1>2. TypeOK /\ Idle /\ [Next]_vars => (TypeOK /\ Idle)'
  BY TypeStep, IdleStep
<1>3. QED
  BY <1>1, <1>2, PTL DEF Spec

-----------------------------------------------------------------------------
(***************************************************************************)
(* Every step of a well-formed table keeps the invariant.                  *)
(***************************************************************************)

\* Steps that touch no file.
LEMMA SameFiles ==
  ASSUME FilesInv, UNCHANGED <<content, newer, unsynced>>
  PROVE  /\ FilesInv'
         /\ \A t \in Target : Clean(t)' <=> Clean(t)
         /\ \A t \in Target : DeepClean(t)' <=> DeepClean(t)
<1>1. \A t \in Target : Clean(t)' <=> Clean(t)
  BY DEF Clean
<1>2. \A t \in Target : DeepClean(t)' <=> DeepClean(t)
  BY <1>1, RuleFacts DEF DeepClean
<1>3. \A t \in Target : Kept(t)' <=> Kept(t)
  BY DEF Kept
<1>4. QED
  BY <1>1, <1>2, <1>3 DEF FilesInv

LEMMA InvInit == ASSUME Init PROVE IInv
<1>1. TypeOK /\ Idle
  BY TypeInit
<1>2. /\ \A n \in Given : content[n] = "whole"
      /\ \A t \in Target : content[t] = "none"
      /\ Target \cap Given = {}
  BY RulesAssumption DEF Init
<1>3. \A t \in Target : ~Clean(t) /\ ~DeepClean(t) /\ ~Kept(t)
  BY <1>2 DEF Clean, DeepClean, Kept
<1>4. FilesInv
  BY <1>2, <1>3 DEF FilesInv
<1>5. Wanted(built) = {}
  BY DEF Init, Wanted
<1>6. \A t \in Target : status[t] = "ignored"
  BY DEF Init
<1>7. RunInv
  BY <1>1, <1>5, <1>6 DEF RunInv, Init
<1>8. QED
  BY <1>1, <1>4, <1>7 DEF IInv

LEMMA InvInvoke ==
  ASSUME IInv, NEW g \in Goals, Invoke(g), Idle'
  PROVE  FilesInv' /\ RunInv'
<1>1. /\ FilesInv'
      /\ \A t \in Target : Clean(t)' <=> Clean(t)
      /\ \A t \in Target : DeepClean(t)' <=> DeepClean(t)
  BY SameFiles DEF IInv, Invoke
<1>2. \A t \in Target : status'[t] \in {"todo", "ignored"} /\ (status'[t] = "todo" => t \in Wanted(g))
  BY DEF Invoke
<1>3. Wanted(goal)' = Wanted(g) /\ Wanted(built)' = Wanted(built) /\ built' = built
  BY DEF Invoke, Wanted
<1>4. Wanted(built) \subseteq Target
  BY RuleFacts DEF IInv, TypeOK, Wanted
<1>5. \A t \in Wanted(built) : DeepClean(t)'
  BY <1>1, <1>4 DEF IInv, RunInv
<1>6. Running' = {}
  BY <1>2 DEF Running
<1>7. RunInv'
  BY <1>2, <1>3, <1>5, <1>6 DEF RunInv
<1>8. QED
  BY <1>1, <1>7

\* A target whose prerequisites have been dealt with: so have all above it.
LEMMA ReadyAbove ==
  ASSUME IInv, NEW t \in Target, Ready(t)
  PROVE  \A u \in Above[t] : status[u] = "done"
<1>1. \A p \in Prereqs(t) \cap Target : status[p] = "done" /\ \A u \in Above[p] : status[u] = "done"
  BY DEF Ready, IInv, RunInv
<1>2. \A u \in Above[t] : u \in Prereqs(t) \/ \E p \in Prereqs(t) \cap Target : u \in Above[p]
  BY AboveAssumption
<1>3. QED
  BY <1>1, <1>2, RuleFacts

LEMMA InvSkip ==
  ASSUME IInv, NEW t \in Target, Skip(t), Idle'
  PROVE  FilesInv' /\ RunInv'
<1>1. /\ FilesInv'
      /\ \A v \in Target : Clean(v)' <=> Clean(v)
      /\ \A v \in Target : DeepClean(v)' <=> DeepClean(v)
  BY SameFiles DEF IInv, Skip
<1>2. Clean(t)
  BY RulesAssumption DEF Skip, NeedsMaking, Clean, IInv, FilesInv, TypeOK
<1>3. \A v \in Target : status'[v] = IF v = t THEN "done" ELSE status[v]
  BY DEF Skip, IInv, TypeOK
<1>4. status[t] = "todo" /\ \A u \in Above[t] : status[u] = "done"
  BY ReadyAbove DEF Skip, Ready
<1>5. \A v \in Target : Above[v] \subseteq Target
  BY RuleFacts
<1>6. goal' = goal /\ built' = built /\ pc' = pc /\ content' = content /\ unsynced' = unsynced
  BY DEF Skip
<1>7. Running' = Running /\ Wanted(goal)' = Wanted(goal) /\ Wanted(built)' = Wanted(built)
  BY <1>3, <1>4, <1>6 DEF Running, Wanted
<1>8. Wanted(built) \subseteq Target
  BY RuleFacts DEF IInv, TypeOK, Wanted
<1>9. RunInv
  BY DEF IInv
<1>10. /\ \A v \in Target : status'[v] # "ignored" => v \in Wanted(goal)'
       /\ \A v \in Target : status'[v] \in {"running", "done"} =>
            \A u \in Above[v] : status'[u] = "done"
       /\ \A v \in Target : status'[v] = "done" => Clean(v)'
       /\ \A v \in Target : status'[v] = "running" => ~Clean(v)'
  BY <1>1, <1>2, <1>3, <1>4, <1>5, <1>7, <1>9 DEF RunInv
<1>11. \A v \in Target : status'[v] = "running" => \A i \in DOMAIN Recipe(v) : i < pc'[v] =>
         \A n \in Made(Recipe(v)[i]) : content'[n] = "whole" /\ n \notin unsynced'
  BY <1>3, <1>6, <1>9 DEF RunInv
<1>12. /\ built' # {} => Running' = {}
       /\ \A v \in Wanted(built)' : DeepClean(v)'
  BY <1>1, <1>6, <1>7, <1>8, <1>9 DEF RunInv
<1>13. RunInv'
  BY <1>10, <1>11, <1>12 DEF RunInv
<1>14. QED
  BY <1>1, <1>13

LEMMA InvStart ==
  ASSUME IInv, NEW t \in Target, Start(t), Idle'
  PROVE  FilesInv' /\ RunInv'
<1>1. /\ FilesInv'
      /\ \A v \in Target : Clean(v)' <=> Clean(v)
  BY SameFiles DEF IInv, Start
<1>2. ~Clean(t)
  BY DEF Start, NeedsMaking, Clean
<1>3. \A v \in Target : /\ status'[v] = IF v = t THEN "running" ELSE status[v]
                        /\ pc'[v] = IF v = t THEN 1 ELSE pc[v]
  BY DEF Start, IInv, TypeOK
<1>4. status[t] = "todo" /\ \A u \in Above[t] : status[u] = "done"
  BY ReadyAbove DEF Start, Ready
<1>5. \A v \in Target : Above[v] \subseteq Target
  BY RuleFacts
<1>6. goal' = goal /\ built' = {} /\ content' = content /\ unsynced' = unsynced
  BY DEF Start
<1>7. Wanted(goal)' = Wanted(goal) /\ Wanted(built)' = {}
  BY <1>6 DEF Wanted
<1>8. RunInv
  BY DEF IInv
<1>9. /\ \A v \in Target : status'[v] # "ignored" => v \in Wanted(goal)'
      /\ \A v \in Target : status'[v] \in {"running", "done"} =>
           \A u \in Above[v] : status'[u] = "done"
      /\ \A v \in Target : status'[v] = "done" => Clean(v)'
      /\ \A v \in Target : status'[v] = "running" => ~Clean(v)'
  BY <1>1, <1>2, <1>3, <1>4, <1>5, <1>7, <1>8 DEF RunInv
<1>10. \A i \in DOMAIN Recipe(t) : ~(i < 1)
  BY RuleFacts
<1>11. \A v \in Target : status'[v] = "running" => \A i \in DOMAIN Recipe(v) : i < pc'[v] =>
         \A n \in Made(Recipe(v)[i]) : content'[n] = "whole" /\ n \notin unsynced'
  BY <1>3, <1>6, <1>8, <1>10 DEF RunInv
<1>12. RunInv'
  BY <1>6, <1>7, <1>9, <1>11 DEF RunInv
<1>13. QED
  BY <1>1, <1>12

\* Commands of a well-formed recipe.
LEMMA CommandFacts ==
  ASSUME WellFormed, IInv, NEW t \in Running
  PROVE  /\ t \in Target /\ status[t] = "running"
         /\ pc[t] \in DOMAIN Recipe(t) /\ pc[t] \in Nat /\ Len(Recipe(t)) \in Nat
         /\ Cmd(t).writes \in SUBSET Node
         /\ \A n \in Made(Cmd(t)) : n \in Cmd(t).writes /\ Writes(t, pc[t], n)
         /\ Cmd(t).kind \in {"tool", "atomic", "compiler", "backdate"}
         /\ IF pc[t] = Len(Recipe(t))
              THEN Cmd(t).writes = {t} /\ Cmd(t).kind = "atomic"
              ELSE Made(Cmd(t)) \cap Target = {}
<1>1. t \in Target /\ status[t] = "running" /\ pc[t] \in DOMAIN Recipe(t)
      /\ pc[t] \in Nat /\ Len(Recipe(t)) \in Nat /\ Cmd(t).writes \in SUBSET Node
  BY RunningFacts DEF Running, IInv
<1>2. \A n \in Made(Cmd(t)) : n \in Cmd(t).writes /\ Writes(t, pc[t], n)
  BY <1>1 DEF Writes, Cmd, Made
<1>3. /\ Cmd(t).kind \in {"tool", "atomic", "compiler", "backdate"}
      /\ IF pc[t] = Len(Recipe(t))
           THEN Cmd(t).writes = {t} /\ Cmd(t).kind = "atomic"
           ELSE Made(Cmd(t)) \cap Target = {}
  BY <1>1 DEF WellFormed, StampedLast, Cmd
<1>4. QED
  BY <1>1, <1>2, <1>3

\* What the running commands make before the last one, or leave half written, is quiet.
LEMMA UnfinishedIsQuiet ==
  ASSUME WellFormed, IInv, NEW t \in Running, NEW S \in SUBSET Made(Cmd(t)),
         pc[t] # Len(Recipe(t)) \/ S = {}
  PROVE  Quiet(S) /\ S \in SUBSET Node
BY CommandFacts DEF Quiet

LEMMA HalfWrittenIsQuiet ==
  ASSUME WellFormed, IInv, NEW S \in SUBSET UNION {HalfWritten(t) : t \in Running}
  PROVE  Quiet(S) /\ S \in SUBSET Node
<1>1. ASSUME NEW n \in S
      PROVE  /\ n \notin Target /\ n \in Node
             /\ \E u \in Running : \E j \in DOMAIN Recipe(u) : Writes(u, j, n)
  <2>1. PICK u \in Running : n \in HalfWritten(u)
    OBVIOUS
  <2>2. n \in Made(Cmd(u)) /\ Cmd(u).kind # "atomic"
    BY <2>1 DEF HalfWritten, Made
  <2>3. QED
    BY <2>1, <2>2, CommandFacts
<1>2. QED
  BY <1>1 DEF Quiet

\* While a recipe runs, no run has succeeded since the last change.
LEMMA NothingBuilt ==
  ASSUME IInv, NEW t \in Running
  PROVE  built = {}
BY DEF IInv, RunInv

\* A command ends well, and the recipe goes on.
LEMMA InvGoOn ==
  ASSUME WellFormed, IInv, NEW t \in Target, Succeed(t), pc[t] # Len(Recipe(t)), Idle',
         Cmd(t).kind # "backdate"
  PROVE  FilesInv' /\ RunInv'
<1> DEFINE W == Cmd(t).writes
<1> W = Made(Cmd(t))
  BY DEF Made
<1>0. t \in Running /\ TypeOK /\ RunInv
  BY DEF Succeed, Running, IInv
<1>1. Write(W, "whole") /\ W \in SUBSET Node /\ Quiet(W)
  BY <1>0, CommandFacts, UnfinishedIsQuiet DEF Succeed
<1>2. /\ FilesInv'
      /\ \A n \in Node : n \in W => content'[n] = "whole" /\ n \notin unsynced'
      /\ \A n \in Node : n \notin W /\ n \notin unsynced /\ Inputs[n] \cap W = {} =>
                           content'[n] = content[n] /\ n \notin unsynced'
  <2>1. /\ content' = [n \in Node |-> IF n \in W THEN "whole" ELSE content[n]]
        /\ unsynced' = (unsynced \ W) \cup
                       {n \in Node \ W : content[n] # "none" /\ Inputs[n] \cap W # {}}
    BY <1>1 DEF Write
  <2> HIDE DEF W
  <2>2. FilesInv'
    BY <1>1, QuietKeepsFiles
  <2>3. QED
    BY <2>1, <2>2
<1>3. \A v \in Target : Clean(v)' <=> Clean(v)
  BY <1>0, <1>1, QuietWrite
<1>4. /\ status' = status /\ goal' = goal /\ built' = {}
      /\ \A v \in Target : pc'[v] = IF v = t THEN pc[t] + 1 ELSE pc[v]
  BY <1>0, NothingBuilt DEF Succeed, Advance, TypeOK
<1>5. ASSUME NEW v \in Target, status'[v] = "running",
             NEW i \in DOMAIN Recipe(v), i < pc'[v], NEW n \in Made(Recipe(v)[i])
      PROVE  content'[n] = "whole" /\ n \notin unsynced'
  <2>0. v \in Running /\ Writes(v, i, n) /\ n \in Node
    BY <1>4, <1>5, SourcesUnwritten DEF Running, Writes
  <2>1. CASE v # t
    <3>1. i < pc[v]
      BY <1>4, <1>5, <2>1
    <3>2. \A m \in W : \E j \in DOMAIN Recipe(t) : Writes(t, j, m)
      BY <1>0, CommandFacts
    <3>3. QED
      BY <1>0, <1>1, <2>0, <2>1, <3>1, <3>2, OthersProgress
  <2>2. CASE v = t /\ i = pc[t]
    <3>1. n \in W
      BY <2>2 DEF Cmd
    <3>2. QED
      BY <1>2, <2>0, <3>1
  <2>3. CASE v = t /\ i # pc[t]
    <3>1. i < pc[t] /\ i \in Nat
      BY <1>0, <1>4, <1>5, <2>3, CommandFacts, RuleFacts
    <3>2. content[n] = "whole" /\ n \notin unsynced
      BY <1>0, <1>4, <1>5, <2>3, <3>1 DEF RunInv
    <3>3. n \notin W
      BY <1>0, <2>0, <2>3, CommandFacts DEF WellFormed, WrittenOnce, Writes
    <3>4. ASSUME NEW m \in W, m \in Inputs[n] PROVE FALSE
      <4>1. Writes(t, pc[t], m)
        BY <1>0, CommandFacts
      <4>2. t \in Above[t] \/ pc[t] < i
        BY <2>0, <2>3, <3>4, <4>1, Dependence
      <4>3. QED
        BY <1>0, <3>1, <4>2, RuleFacts, CommandFacts
    <3>5. QED
      BY <1>2, <2>0, <3>2, <3>3, <3>4
  <2>4. QED
    BY <2>1, <2>2, <2>3
<1>6. Wanted(goal)' = Wanted(goal) /\ Wanted(built)' = {}
  BY <1>4 DEF Wanted
<1>7. RunInv'
  BY <1>0, <1>3, <1>4, <1>5, <1>6 DEF RunInv
<1>8. QED
  BY <1>2, <1>7

\* A command that makes files look old: nothing that make looks at changes, except for
\* what comes to the same, and it makes nothing.
LEMMA BackdateKeepsFiles ==
  ASSUME WellFormed, IInv, NEW t \in Target, NEW c \in Commands(t), c.kind = "backdate",
         Backdate(c.writes)
  PROVE  /\ FilesInv'
         /\ \A v \in Target : Clean(v)' <=> Clean(v)
         /\ content' = content /\ unsynced' = unsynced
<1>1. /\ newer' = {x \in newer : x[2] \notin c.writes}
      /\ content' = content /\ unsynced' = unsynced
  BY DEF Backdate
<1>2. ASSUME NEW v \in Target PROVE c.writes \cap Lasting(v) = {}
  <2>1. CASE v = t
    BY <2>1 DEF Lasting, Backdated
  <2>2. CASE v # t
    BY <2>2 DEF WellFormed, BackdatesOwn, Lasting
  <2>3. QED
    BY <2>1, <2>2
<1>3. \A v \in Target : \A p \in Lasting(v) : <<v, p>> \in newer' <=> <<v, p>> \in newer
  BY <1>1, <1>2
<1>4. \A v \in Target : Kept(v)' <=> Kept(v)
  BY <1>1, <1>3 DEF Kept
<1>5. \A v \in Target : Clean(v) => Clean(v)'
  BY <1>1 DEF Clean
<1>6. \A v \in Target : Clean(v)' => Kept(v)'
  BY DEF Clean, Kept, Lasting
<1>7. \A v \in Target : Kept(v) => Clean(v)
  BY DEF IInv, FilesInv
<1>8. \A v \in Target : Clean(v)' <=> Clean(v)
  BY <1>4, <1>5, <1>6, <1>7
<1>9. \A v \in Target : DeepClean(v)' <=> DeepClean(v)
  BY <1>8, RuleFacts DEF DeepClean
<1>10. \A v \in Target : Kept(v)' => Clean(v)'
  BY <1>4, <1>5, <1>7
<1>11. FilesInv'
  BY <1>1, <1>9, <1>10 DEF IInv, FilesInv
<1>12. QED
  BY <1>1, <1>8, <1>11

LEMMA InvBackdate ==
  ASSUME WellFormed, IInv, NEW t \in Target, Succeed(t), Cmd(t).kind = "backdate", Idle'
  PROVE  FilesInv' /\ RunInv'
<1>0. t \in Running /\ TypeOK /\ RunInv
  BY DEF Succeed, Running, IInv
<1>1. Cmd(t) \in Commands(t) /\ Backdate(Cmd(t).writes) /\ pc[t] # Len(Recipe(t))
  BY <1>0, CommandFacts DEF Succeed, Commands, Cmd
<1>2. /\ FilesInv'
      /\ \A v \in Target : Clean(v)' <=> Clean(v)
      /\ content' = content /\ unsynced' = unsynced
  BY <1>1, BackdateKeepsFiles
<1>3. /\ status' = status /\ goal' = goal /\ built' = {}
      /\ \A v \in Target : pc'[v] = IF v = t THEN pc[t] + 1 ELSE pc[v]
  BY <1>0, <1>1, NothingBuilt DEF Succeed, Advance, TypeOK
<1>4. ASSUME NEW v \in Target, status'[v] = "running",
             NEW i \in DOMAIN Recipe(v), i < pc'[v], NEW n \in Made(Recipe(v)[i])
      PROVE  content'[n] = "whole" /\ n \notin unsynced'
  <2>1. CASE i < pc[v]
    BY <1>0, <1>2, <1>3, <1>4, <2>1 DEF RunInv
  <2>2. CASE ~(i < pc[v])
    <3>1. v = t
      BY <1>3, <1>4, <2>2
    <3>2. i = pc[t]
      BY <1>0, <1>3, <1>4, <2>2, <3>1, CommandFacts, RuleFacts
    <3>3. QED
      BY <1>4, <3>1, <3>2 DEF Made, Cmd
  <2>3. QED
    BY <2>1, <2>2
<1>5. Wanted(goal)' = Wanted(goal) /\ Wanted(built)' = {}
  BY <1>3 DEF Wanted
<1>6. RunInv'
  BY <1>0, <1>2, <1>3, <1>4, <1>5 DEF RunInv
<1>7. QED
  BY <1>2, <1>6

\* The last command of the recipe writes the target.
LEMMA InvFinish ==
  ASSUME WellFormed, IInv, NEW t \in Target, Succeed(t), pc[t] = Len(Recipe(t)), Idle'
  PROVE  FilesInv' /\ RunInv'
<1>0. t \in Running /\ TypeOK /\ RunInv /\ status[t] = "running"
  BY DEF Succeed, Running, IInv
<1>1. Write({t}, "whole") /\ {t} \in SUBSET Node
  BY <1>0, CommandFacts DEF Succeed
<1>2. FilesInv'
  BY <1>0, <1>1, FinishKeepsFiles
<1>3. /\ Clean(t)'
      /\ \A v \in Target \ {t} : Clean(v)' <=> Clean(v) /\ t \notin Prereqs(v)
  BY <1>0, <1>1, FinishClean
<1>4. /\ goal' = goal /\ built' = {}
      /\ \A v \in Target : /\ status'[v] = IF v = t THEN "done" ELSE status[v]
                           /\ pc'[v] = IF v = t THEN 0 ELSE pc[v]
  BY <1>0, NothingBuilt DEF Succeed, Advance, TypeOK
<1>5. \A v \in Target : /\ Above[v] \subseteq Target
                        /\ t \in Prereqs(v) => t \in Above[v]
  BY RuleFacts
<1>6. /\ \A v \in Target : status'[v] # "ignored" => v \in Wanted(goal)'
      /\ \A v \in Target : status'[v] \in {"running", "done"} =>
           \A u \in Above[v] : status'[u] = "done"
  BY <1>0, <1>4, <1>5 DEF RunInv, Wanted
<1>7. /\ \A v \in Target : status'[v] = "done" => Clean(v)'
      /\ \A v \in Target : status'[v] = "running" => ~Clean(v)'
  <2>1. ASSUME NEW v \in Target \ {t}, status[v] = "done" PROVE t \notin Prereqs(v)
    BY <1>0, <1>5, <2>1 DEF RunInv
  <2>2. QED
    BY <1>0, <1>3, <1>4, <2>1 DEF RunInv
<1>8. ASSUME NEW v \in Target, status'[v] = "running",
             NEW i \in DOMAIN Recipe(v), i < pc'[v], NEW n \in Made(Recipe(v)[i])
      PROVE  content'[n] = "whole" /\ n \notin unsynced'
  <2>1. v \in Running /\ v # t /\ i < pc[v]
    BY <1>4, <1>8 DEF Running
  <2>2. \A m \in {t} : \E j \in DOMAIN Recipe(t) : Writes(t, j, m)
    BY <1>0, CommandFacts DEF Made
  <2>3. QED
    BY <1>0, <1>1, <2>1, <2>2, OthersProgress
<1>9. Wanted(built)' = {}
  BY <1>4 DEF Wanted
<1>10. RunInv'
  BY <1>4, <1>6, <1>7, <1>8, <1>9 DEF RunInv
<1>11. QED
  BY <1>2, <1>10

LEMMA InvFail ==
  ASSUME WellFormed, IInv, NEW t \in Target, Fail(t), Idle'
  PROVE  FilesInv' /\ RunInv'
<1>0. t \in Running /\ TypeOK /\ RunInv /\ status[t] = "running"
  BY DEF Fail, MayFail, Running, IInv
<1>1. PICK S \in SUBSET Spoilt(t) : (Cmd(t).kind # "tool" => S = {}) /\ Write(S, "part")
  BY DEF Fail
<1>2. S \in SUBSET Made(Cmd(t)) /\ (pc[t] # Len(Recipe(t)) \/ S = {})
  BY <1>0, <1>1, CommandFacts DEF Spoilt, Made
<1>3. Quiet(S) /\ S \in SUBSET Node
  BY <1>0, <1>2, UnfinishedIsQuiet
<1>4. FilesInv'
  BY <1>1, <1>3, QuietKeepsFiles
<1>5. \A v \in Target : Clean(v)' <=> Clean(v)
  BY <1>0, <1>1, <1>3, QuietWrite
<1>6. /\ goal' = goal /\ built' = {}
      /\ \A v \in Target : /\ status'[v] = IF v = t THEN "failed" ELSE status[v]
                           /\ pc'[v] = IF v = t THEN 0 ELSE pc[v]
  BY <1>0, NothingBuilt DEF Fail, TypeOK
<1>7. \A v \in Target : Above[v] \subseteq Target
  BY RuleFacts
<1>8. /\ \A v \in Target : status'[v] # "ignored" => v \in Wanted(goal)'
      /\ \A v \in Target : status'[v] \in {"running", "done"} =>
           \A u \in Above[v] : status'[u] = "done"
      /\ \A v \in Target : status'[v] = "done" => Clean(v)'
      /\ \A v \in Target : status'[v] = "running" => ~Clean(v)'
  BY <1>0, <1>5, <1>6, <1>7 DEF RunInv, Wanted
<1>9. ASSUME NEW v \in Target, status'[v] = "running",
             NEW i \in DOMAIN Recipe(v), i < pc'[v], NEW n \in Made(Recipe(v)[i])
      PROVE  content'[n] = "whole" /\ n \notin unsynced'
  <2>1. v \in Running /\ v # t /\ i < pc[v]
    BY <1>6, <1>9 DEF Running
  <2>2. \A m \in S : \E j \in DOMAIN Recipe(t) : Writes(t, j, m)
    BY <1>0, <1>2, CommandFacts
  <2>3. QED
    BY <1>0, <1>1, <1>3, <2>1, <2>2, OthersProgress
<1>10. Wanted(built)' = {}
  BY <1>6 DEF Wanted
<1>11. RunInv'
  BY <1>6, <1>8, <1>9, <1>10 DEF RunInv
<1>12. QED
  BY <1>4, <1>11

LEMMA InvExit ==
  ASSUME IInv, Exit, Idle'
  PROVE  FilesInv' /\ RunInv'
<1>1. /\ FilesInv'
      /\ \A v \in Target : Clean(v)' <=> Clean(v)
      /\ \A v \in Target : DeepClean(v)' <=> DeepClean(v)
  BY SameFiles DEF IInv, Exit
<1>2. /\ \A t \in Target : status'[t] = "ignored"
      /\ Running' = {}
  BY DEF Exit, Running
<1>3. ASSUME NEW t \in Wanted(built)' PROVE DeepClean(t)'
  <2>1. built' = goal /\ AllDone
    BY <1>3 DEF Exit, Wanted
  <2>2. \A u \in goal : u \in Target /\ status[u] = "done"
    BY <2>1 DEF AllDone, IInv, TypeOK
  <2>3. PICK g \in goal : t = g \/ t \in Above[g]
    BY <1>3, <2>1 DEF Wanted
  <2>4. t \in Target /\ status[t] = "done"
    BY <2>2, <2>3, RuleFacts DEF IInv, RunInv
  <2>5. \A u \in Above[t] \cup {t} : u \in Target /\ status[u] = "done"
    BY <2>4, RuleFacts DEF IInv, RunInv
  <2>6. DeepClean(t)
    BY <2>5 DEF DeepClean, IInv, RunInv
  <2>7. QED
    BY <1>1, <2>4, <2>6
<1>4. RunInv'
  BY <1>2, <1>3 DEF RunInv
<1>5. QED
  BY <1>1, <1>4

LEMMA InvCrash ==
  ASSUME WellFormed, IInv, Crash, Idle'
  PROVE  FilesInv' /\ RunInv'
<1>1. PICK S \in SUBSET UNION {HalfWritten(t) : t \in Running} : Write(S, "part")
  BY DEF Crash
<1>2. Quiet(S) /\ S \in SUBSET Node
  BY HalfWrittenIsQuiet
<1>3. FilesInv'
  BY <1>1, <1>2, QuietKeepsFiles
<1>4. Wanted(built)' = {} /\ built' = {}
  BY DEF Crash, Wanted
<1>5. \A t \in Target : status'[t] = "ignored"
  BY DEF Crash
<1>6. RunInv'
  BY <1>4, <1>5 DEF RunInv
<1>7. QED
  BY <1>3, <1>6

\* Between two runs only the files change.
LEMMA BetweenRuns ==
  ASSUME IInv, goal = {}, UNCHANGED <<goal, status, pc>>, built' = {}, Idle'
  PROVE  RunInv'
<1>1. \A t \in Target : status'[t] = "ignored"
  BY DEF IInv, RunInv, Idle
<1>2. Wanted(built)' = {}
  BY DEF Wanted
<1>3. QED
  BY <1>1, <1>2 DEF RunInv

LEMMA InvPull ==
  ASSUME WellFormed, IInv, NEW S \in Pulls, Pull(S), Idle'
  PROVE  FilesInv' /\ RunInv'
<1>0. TypeOK /\ FilesInv /\ Write(S, "whole") /\ S \in SUBSET Node /\ S \subseteq Given
      /\ Target \cup Given \subseteq Node /\ S \cap Target = {}
  BY RulesAssumption, EnvironmentAssumption DEF IInv, Pull, WellFormed, SourcesListed
<1>1. \A n \in Node : content'[n] = IF n \in S THEN "whole" ELSE content[n]
  BY <1>0, WriteEffect
<1>2. ASSUME NEW t \in Target, Clean(t)'
      PROVE  Clean(t) /\ Prereqs(t) \cap S = {}
  <2>1. content'[t] = content[t] /\ t \notin S
    BY <1>0, <1>1
  <2>2. \A p \in Prereqs(t) :
          <<t, p>> \in newer' <=> <<t, p>> \in newer \/ (p \in S /\ content[t] # "none")
    BY <1>0, <2>1, WriteEffect
  <2>3. QED
    BY <1>2, <2>1, <2>2 DEF Clean
<1>2a. ASSUME NEW t \in Target, Kept(t)' PROVE Clean(t)'
  <2>1. content'[t] = content[t] /\ t \notin S
    BY <1>0, <1>1
  <2>2. \A p \in Prereqs(t) :
          <<t, p>> \in newer' <=> <<t, p>> \in newer \/ (p \in S /\ content[t] # "none")
    BY <1>0, <2>1, WriteEffect
  <2>3. Kept(t) /\ Lasting(t) \cap S = {}
    BY <1>2a, <2>1, <2>2 DEF Kept, Lasting
  <2>4. Clean(t) /\ Prereqs(t) \cap S = {}
    BY <1>0, <2>3 DEF FilesInv, WellFormed, PullsNoticed
  <2>5. QED
    BY <2>1, <2>2, <2>4 DEF Clean
<1>3. \A t \in Target : \A n \in Outputs(t) : n \in Node /\ content'[n] = content[n]
  BY <1>0, <1>1, OutputsOf, SourcesUnwritten
<1>4. ASSUME NEW t \in Target, DeepClean(t)', NEW n \in Outputs(t), n \in unsynced'
      PROVE  FALSE
  <2>1. DeepClean(t) /\ \A v \in Above[t] \cup {t} : Prereqs(v) \cap S = {}
    BY <1>2, <1>4, RuleFacts DEF DeepClean
  <2>2. n \notin unsynced
    BY <1>0, <2>1 DEF FilesInv
  <2>3. n \in Node /\ Inputs[n] \cap S # {}
    BY <1>0, <1>3, <1>4, <2>2, WriteEffect
  <2>4. PICK i \in DOMAIN Recipe(t) : Writes(t, i, n)
    BY OutputsOf
  <2>5. Recipe(t)[i].reads \cap S # {}
    <3>1. PICK m \in S : m \in Inputs[n]
      BY <2>3
    <3>2. PICK v \in Target :
            \E k \in DOMAIN Recipe(v) : n \in Made(Recipe(v)[k]) /\ m \in Recipe(v)[k].reads
      BY <2>3, <3>1 DEF Inputs, Commands
    <3>3. m \in Recipe(t)[i].reads
      BY <2>4, <3>2 DEF WellFormed, WrittenOnce, Writes
    <3>4. QED
      BY <3>1, <3>3
  <2>6. \E v \in Above[t] \cup {t} : Prereqs(v) \cap S # {}
    BY <2>5 DEF WellFormed, SourcesListed, Commands
  <2>7. QED
    BY <2>1, <2>6
<1>5. FilesInv'
  <2>1. /\ \A n \in Given : content'[n] = "whole"
        /\ \A t \in Target : content'[t] # "part"
    BY <1>0, <1>1 DEF FilesInv
  <2>2. ASSUME NEW t \in Target, DeepClean(t)', NEW n \in Outputs(t)
        PROVE  content'[n] = "whole"
    <3>1. DeepClean(t)
      BY <1>2, <2>2, RuleFacts DEF DeepClean
    <3>2. QED
      BY <1>0, <1>3, <2>2, <3>1 DEF FilesInv
  <2>3. QED
    BY <1>2a, <1>4, <2>1, <2>2 DEF FilesInv
<1>6. RunInv'
  BY BetweenRuns DEF Pull
<1>7. QED
  BY <1>5, <1>6

LEMMA InvRemove ==
  ASSUME WellFormed, IInv, NEW S \in Removals, Remove(S), Idle'
  PROVE  FilesInv' /\ RunInv'
<1>0. TypeOK /\ FilesInv /\ S \cap Given = {} /\ Target \cup Given \subseteq Node
  BY RulesAssumption, EnvironmentAssumption DEF IInv
<1>1. /\ \A n \in Node : content'[n] = IF n \in S THEN "none" ELSE content[n]
      /\ unsynced' \subseteq unsynced
      /\ newer' = {x \in newer : x[1] \notin S}
  BY DEF Remove
<1>2. ASSUME NEW t \in Target, Clean(t)'
      PROVE  Clean(t) /\ t \notin S
  BY <1>0, <1>1, <1>2 DEF Clean
<1>3. ASSUME NEW t \in Target, DeepClean(t)'
      PROVE  DeepClean(t) /\ (Above[t] \cup {t}) \cap S = {}
  BY <1>2, <1>3, RuleFacts DEF DeepClean
<1>4. ASSUME NEW t \in Target, DeepClean(t)', NEW n \in Outputs(t)
      PROVE  content'[n] = "whole" /\ n \notin unsynced'
  <2>1. content[n] = "whole" /\ n \notin unsynced /\ n \in Node
    BY <1>0, <1>3, <1>4, OutputsOf, SourcesUnwritten DEF FilesInv
  <2>2. n \notin S
    BY <1>3, <1>4 DEF WellFormed, CleanedWhole
  <2>3. QED
    BY <1>1, <2>1, <2>2
<1>5. /\ \A n \in Given : content'[n] = "whole"
      /\ \A t \in Target : content'[t] # "part"
      /\ \A t \in Target : Kept(t)' => Clean(t)'
  <2>1. ASSUME NEW t \in Target, Kept(t)' PROVE Clean(t)'
    <3>1. t \notin S /\ content[t] = content'[t]
      BY <1>0, <1>1, <2>1 DEF Kept
    <3>2. \A p \in Prereqs(t) : <<t, p>> \in newer' <=> <<t, p>> \in newer
      BY <1>1, <3>1
    <3>3. Kept(t)
      BY <2>1, <3>1, <3>2 DEF Kept, Lasting
    <3>4. Clean(t)
      BY <1>0, <3>3 DEF FilesInv
    <3>5. QED
      BY <3>1, <3>2, <3>4 DEF Clean
  <2>2. QED
    BY <1>0, <1>1, <2>1 DEF FilesInv
<1>6. FilesInv'
  BY <1>4, <1>5 DEF FilesInv
<1>7. RunInv'
  BY BetweenRuns DEF Remove
<1>8. QED
  BY <1>6, <1>7

LEMMA InvStep == WellFormed /\ IInv /\ [Next]_vars => IInv'
<1> SUFFICES ASSUME WellFormed, IInv, [Next]_vars PROVE IInv'
  OBVIOUS
<1>0. TypeOK' /\ Idle'
  BY TypeStep, IdleStep DEF IInv, RunInv
<1>1. ASSUME NEW g \in Goals, Invoke(g) PROVE FilesInv' /\ RunInv'
  BY <1>0, <1>1, InvInvoke
<1>2. ASSUME NEW t \in Target, Skip(t) PROVE FilesInv' /\ RunInv'
  BY <1>0, <1>2, InvSkip
<1>3. ASSUME NEW t \in Target, Start(t) PROVE FilesInv' /\ RunInv'
  BY <1>0, <1>3, InvStart
<1>4. ASSUME NEW t \in Target, Succeed(t) PROVE FilesInv' /\ RunInv'
  BY <1>0, <1>4, InvGoOn, InvBackdate, InvFinish
<1>5. ASSUME NEW t \in Target, Fail(t) PROVE FilesInv' /\ RunInv'
  BY <1>0, <1>5, InvFail
<1>6. ASSUME NEW t \in Target, Overlook(t) PROVE FALSE
  BY <1>6, CommandFacts DEF Overlook, MayFail, Running
<1>7. ASSUME Exit PROVE FilesInv' /\ RunInv'
  BY <1>0, <1>7, InvExit
<1>8. ASSUME Crash PROVE FilesInv' /\ RunInv'
  BY <1>0, <1>8, InvCrash
<1>9. ASSUME NEW S \in Pulls, Pull(S) PROVE FilesInv' /\ RunInv'
  BY <1>0, <1>9, InvPull
<1>10. ASSUME NEW S \in Removals, Remove(S) PROVE FilesInv' /\ RunInv'
  BY <1>0, <1>10, InvRemove
<1>11. ASSUME UNCHANGED vars PROVE FilesInv' /\ RunInv'
  <2>1. FilesInv' /\ (\A t \in Target : Clean(t)' <=> Clean(t))
                  /\ (\A t \in Target : DeepClean(t)' <=> DeepClean(t))
    BY <1>11, SameFiles DEF IInv, vars
  <2>2. Wanted(built) \subseteq Target /\ Wanted(built)' = Wanted(built)
        /\ Wanted(goal)' = Wanted(goal) /\ Running' = Running
    BY <1>11, RuleFacts DEF vars, Wanted, Running, IInv, TypeOK
  <2>3. RunInv'
    BY <1>0, <1>11, <2>1, <2>2 DEF vars, IInv, RunInv
  <2>4. QED
    BY <2>1, <2>3
<1>12. FilesInv' /\ RunInv'
  BY <1>1, <1>2, <1>3, <1>4, <1>5, <1>6, <1>7, <1>8, <1>9, <1>10, <1>11 DEF Next, Step
<1>13. QED
  BY <1>0, <1>12 DEF IInv

\* The invariant holds throughout.
THEOREM Invariant == ASSUME WellFormed PROVE Spec => []IInv
<1>1. Init => IInv
  BY InvInit
<1>2. IInv /\ [Next]_vars => IInv'
  BY InvStep
<1>3. QED
  BY <1>1, <1>2, PTL DEF Spec

-----------------------------------------------------------------------------
(***************************************************************************)
(* The properties.                                                         *)
(***************************************************************************)

\* After a run that succeeded, all that the rules of its goal are to leave is there,
\* and was made from the sources as they are.
THEOREM SuccessBuilds == ASSUME WellFormed PROVE Spec => []SuccessMeansBuilt
<1>1. ASSUME IInv PROVE SuccessMeansBuilt
  <2>1. SUFFICES ASSUME NEW t \in Wanted(built), NEW n \in Outputs(t)
                 PROVE  content[n] = "whole" /\ n \notin unsynced
    BY DEF SuccessMeansBuilt
  <2>2. t \in Target
    BY <1>1, RuleFacts DEF IInv, TypeOK, Wanted
  <2>3. DeepClean(t)
    BY <1>1 DEF IInv, RunInv
  <2>4. QED
    BY <1>1, <2>2, <2>3 DEF IInv, FilesInv
<1>2. QED
  BY <1>1, Invariant, PTL

\* Whoever makes a file look old has it to itself.
LEMMA BackdatesApart ==
  ASSUME WellFormed, IInv, NEW t \in Running, NEW u \in Running, t # u,
         Cmd(u).kind = "backdate"
  PROVE  Cmd(u).writes \cap (Cmd(t).reads \cup Cmd(t).writes) = {}
<1>1. /\ t \in Target /\ status[t] = "running" /\ Cmd(t) \in Commands(t)
      /\ u \in Target /\ status[u] = "running" /\ Cmd(u) \in Commands(u)
  BY CommandFacts DEF Commands, Cmd
<1>2. u \notin Above[t] /\ t \notin Above[u]
  BY <1>1 DEF IInv, RunInv
<1>3. QED
  BY <1>1, <1>2 DEF WellFormed, BackdatesOwn

\* A command that runs finds what it uses: whole, and written by nobody else.
THEOREM CommandsFindInputs == ASSUME WellFormed PROVE Spec => []InputsReady
<1>1. ASSUME IInv PROVE InputsReady
  <2>1. SUFFICES ASSUME NEW t \in Running, NEW n \in Cmd(t).reads
                 PROVE  content[n] = "whole" /\ \A u \in Running \ {t} : n \notin Cmd(u).writes
    BY DEF InputsReady
  <2>2. t \in Target /\ status[t] = "running" /\ pc[t] \in DOMAIN Recipe(t) /\ pc[t] \in Nat
        /\ n \in Recipe(t)[pc[t]].reads
    BY <1>1, CommandFacts DEF Cmd
  <2>3. \A u \in Running : u \in Target /\ status[u] = "running"
          /\ \A m \in Made(Cmd(u)) : Writes(u, pc[u], m)
    BY <1>1, CommandFacts
  <2>3a. \A u \in Running \ {t} : n \in Cmd(u).writes => n \in Made(Cmd(u))
    <3>1. n \in Cmd(t).reads
      BY <2>1
    <3>2. QED
      BY <1>1, <3>1, BackdatesApart DEF Made
  <2>4. CASE n \in Given
    BY <1>1, <2>3, <2>3a, <2>4, SourcesUnwritten DEF IInv, FilesInv
  <2>5. CASE \E v \in Above[t] : n \in Outputs(v)
    <3>1. PICK v \in Above[t] : n \in Outputs(v)
      BY <2>5
    <3>2. v \in Target /\ status[v] = "done"
      BY <1>1, <2>2, <3>1, RuleFacts DEF IInv, RunInv
    <3>3. content[n] = "whole"
      <4>1. DeepClean(v)
        BY <1>1, <3>2, RuleFacts DEF IInv, RunInv, DeepClean
      <4>2. QED
        BY <1>1, <3>1, <3>2, <4>1 DEF IInv, FilesInv
    <3>4. PICK j \in DOMAIN Recipe(v) : Writes(v, j, n)
      BY <3>1, <3>2, OutputsOf
    <3>5. \A u \in Running : n \notin Made(Cmd(u))
      BY <2>3, <3>2, <3>4 DEF WellFormed, WrittenOnce, Writes
    <3>6. QED
      BY <2>3a, <3>3, <3>5
  <2>6. CASE \E j \in DOMAIN Recipe(t) : j < pc[t] /\ n \in Made(Recipe(t)[j])
    <3>1. PICK j \in DOMAIN Recipe(t) : j < pc[t] /\ n \in Made(Recipe(t)[j])
      BY <2>6
    <3>2. content[n] = "whole"
      BY <1>1, <2>2, <3>1 DEF IInv, RunInv
    <3>3. \A u \in Running \ {t} : n \notin Made(Cmd(u))
      BY <2>2, <2>3, <3>1 DEF WellFormed, WrittenOnce, Writes
    <3>4. QED
      BY <2>3a, <3>2, <3>3
  <2>7. QED
    BY <2>2, <2>4, <2>5, <2>6 DEF WellFormed, OrderComplete
<1>2. QED
  BY <1>1, Invariant, PTL

\* Two commands never write one file at the same time.
THEOREM WritersDiffer == ASSUME WellFormed PROVE Spec => []OneWriter
<1>1. ASSUME IInv PROVE OneWriter
  <2>1. SUFFICES ASSUME NEW t \in Running, NEW u \in Running, t # u,
                        NEW n \in Cmd(t).writes, n \in Cmd(u).writes
                 PROVE  FALSE
    BY DEF OneWriter
  <2>2. CASE Cmd(t).kind = "backdate" \/ Cmd(u).kind = "backdate"
    BY <1>1, <2>1, <2>2, BackdatesApart
  <2>3. CASE Cmd(t).kind # "backdate" /\ Cmd(u).kind # "backdate"
    <3>1. n \in Made(Cmd(t)) /\ n \in Made(Cmd(u))
      BY <2>1, <2>3 DEF Made
    <3>2. Writes(t, pc[t], n) /\ Writes(u, pc[u], n)
      BY <1>1, <3>1, CommandFacts
    <3>3. QED
      BY <2>1, <3>2 DEF WellFormed, WrittenOnce, Writes
  <2>4. QED
    BY <2>2, <2>3
<1>2. QED
  BY <1>1, Invariant, PTL

\* A target that was waiting and is running now was started in this step.
LEMMA OnlyStarts ==
  ASSUME TypeOK, [Next]_vars, NEW t \in Target, status[t] = "todo", status'[t] = "running"
  PROVE  Start(t)
<1>1. status \in [Target -> {"ignored", "todo", "running", "done", "failed"}]
  BY DEF TypeOK
<1>2. ASSUME NEW u \in Target, Start(u) PROVE u = t
  BY <1>1, <1>2 DEF Start
<1>3. ASSUME NEW u \in Target, Skip(u) \/ Succeed(u) \/ Fail(u) \/ Overlook(u)
      PROVE  status'[t] # "running"
  BY <1>1, <1>3 DEF Skip, Succeed, Fail, Overlook, Advance
<1>4. ASSUME (\E g \in Goals : Invoke(g)) \/ Exit \/ Crash \/ (\E S \in Pulls : Pull(S))
             \/ (\E S \in Removals : Remove(S)) \/ UNCHANGED vars
      PROVE  status'[t] # "running"
  BY <1>4 DEF Invoke, Exit, Crash, Pull, Remove, vars
<1>5. QED
  BY <1>2, <1>3, <1>4 DEF Next, Step

\* A second run for a goal that was built starts nothing.
THEOREM SecondRunIsIdle == ASSUME WellFormed PROVE Spec => NothingTwice
<1>1. ASSUME IInv, [Next]_vars, NEW t \in Target, status[t] = "todo", status'[t] = "running"
      PROVE  ~(goal \subseteq built)
  <2>1. Start(t)
    BY <1>1, OnlyStarts DEF IInv
  <2>2. t \in Wanted(goal) /\ (goal \subseteq built => t \in Wanted(built))
    BY <1>1 DEF IInv, RunInv, Wanted
  <2>3. t \in Wanted(built) => ~NeedsMaking(t)
    BY <1>1 DEF IInv, RunInv, DeepClean, Clean, NeedsMaking
  <2>4. QED
    BY <2>1, <2>2, <2>3 DEF Start
<1>2. IInv /\ [Next]_vars =>
        [\A t \in Target : status[t] = "todo" /\ status'[t] = "running"
                             => ~(goal \subseteq built)]_vars
  BY <1>1
<1>3. QED
  BY <1>2, Invariant, PTL DEF Spec, NothingTwice
-----------------------------------------------------------------------------
(***************************************************************************)
(* Where no command fails of itself and nothing is killed, a table need    *)
(* only be WellOrdered.  The rest of the module shows that the same        *)
(* promises hold then, and that no run of make stops half way.  The        *)
(* invariant is like the first one.  But a target may now look finished    *)
(* while its recipe is still running, so that the files are only spoken of *)
(* where nothing above is being made, and the recipe that runs has more to *)
(* say: CalmRecipe.                                                        *)
(***************************************************************************)
Undisturbed == ~CanFail /\ ~CanCrash

\* Neither t nor a target above it is being made.
Settled(t) == \A u \in Above[t] \cup {t} : u \notin Running

\* A command of t that has ended has made n.
MadeBefore(t, n) == \E i \in DOMAIN Recipe(t) : i < pc[t] /\ n \in Made(Recipe(t)[i])

\* No command of t that is still to end makes n.
MadeByNow(t, n) == \A i \in DOMAIN Recipe(t) : n \in Made(Recipe(t)[i]) => i < pc[t]

\* What t is a prerequisite of is older than t.
AllOlder(t) == \A v \in Target : t \in Prereqs(v) => content[v] = "none" \/ <<v, t>> \in newer

CalmFiles ==
  /\ \A n \in Node : content[n] # "part"
  /\ \A n \in Given : content[n] = "whole" /\ n \notin unsynced
  /\ \A t \in Target : DeepClean(t) /\ Settled(t) =>
       \A n \in Outputs(t) : content[n] = "whole" /\ n \notin unsynced
  /\ \A t \in Target : content[t] = "none" =>
       \A c \in Commands(t) : c.kind = "clone" => \A n \in c.writes : content[n] = "none"

\* As soon as the recipe of t has made t, all below it has to be made again; what its
\* commands have made is whole and in sync when the last of them that makes it has ended.
CalmRecipe(t) ==
  /\ MadeBefore(t, t) => Clean(t) /\ AllOlder(t)
  /\ \A n \in Outputs(t) : MadeByNow(t, n) => content[n] = "whole" /\ n \notin unsynced
  /\ Cmd(t).kind = "clone" => content[t] = "none"

CalmRun ==
  /\ Idle
  /\ \A t \in Target : status[t] # "failed"
  /\ \A t \in Target : status[t] # "ignored" => t \in Wanted(goal)
  /\ \A t \in Target : status[t] \in {"running", "done"} =>
       \A u \in Above[t] : status[u] = "done"
  /\ \A t \in Target : status[t] = "done" => Clean(t)
  /\ \A t \in Running : CalmRecipe(t)
  /\ built # {} => Running = {}
  /\ \A t \in Wanted(built) : DeepClean(t)

CalmInv == TypeOK /\ CalmFiles /\ CalmRun

\* The conditions, rule by rule.
LEMMA Ordered ==
  ASSUME WellOrdered, NEW t \in Target
  PROVE  /\ MakesTarget(t) /\ BackdatesOwn(t) /\ ClonesFirst(t)
         /\ OwnOutputs(t) /\ ReadsInOrder(t) /\ PrereqsMade(t)
         /\ OrderComplete(t) /\ SourcesListed(t) /\ CleanedWhole(t)
BY DEF WellOrdered

\* An output has one rule.
LEMMA OneRule ==
  ASSUME WellOrdered, NEW t \in Target, NEW u \in Target,
         NEW n \in Outputs(t), n \in Outputs(u)
  PROVE  t = u
BY Ordered DEF OwnOutputs

\* What a command makes.
LEMMA MadeFacts ==
  ASSUME WellOrdered, NEW t \in Target, NEW i \in DOMAIN Recipe(t), NEW n \in Made(Recipe(t)[i])
  PROVE  /\ n \in Node /\ n \in Outputs(t) /\ n \notin Given
         /\ n \in Target => n = t
         /\ n \in Recipe(t)[i].writes /\ Recipe(t)[i].kind # "backdate"
<1>1. n \in Recipe(t)[i].writes /\ Recipe(t)[i].kind # "backdate"
  BY DEF Made
<1>2. n \in Node
  BY <1>1, RuleFacts
<1>3. n \in Outputs(t)
  BY <1>1, OutputsOf DEF Writes
<1>4. \A c \in Commands(t) : Made(c) \cap (Target \cup Given) \subseteq {t}
  BY Ordered DEF MakesTarget
<1>5. Made(Recipe(t)[i]) \cap (Target \cup Given) \subseteq {t}
  BY <1>4 DEF Commands
<1>6. t \notin Given
  BY RulesAssumption
<1>7. QED
  BY <1>1, <1>2, <1>3, <1>5, <1>6

\* Every output is made by a command.
LEMMA MadeSomewhere ==
  ASSUME WellOrdered, NEW t \in Target, NEW n \in Outputs(t)
  PROVE  n \in Node /\ n \notin Given /\ \E i \in DOMAIN Recipe(t) : n \in Made(Recipe(t)[i])
<1>1. PICK i \in DOMAIN Recipe(t) : n \in Made(Recipe(t)[i])
  BY OutputsOf DEF Writes
<1>2. QED
  BY <1>1, MadeFacts

\* What an output is made from is read by a command of its own rule that makes it.
LEMMA InputsOf ==
  ASSUME WellOrdered, NEW t \in Target, NEW n \in Outputs(t), NEW m \in Inputs[n]
  PROVE  \E i \in DOMAIN Recipe(t) : n \in Made(Recipe(t)[i]) /\ m \in Recipe(t)[i].reads
<1>0. n \in Node
  BY MadeSomewhere
<1>1. PICK v \in Target :
         \E k \in DOMAIN Recipe(v) : n \in Made(Recipe(v)[k]) /\ m \in Recipe(v)[k].reads
  BY <1>0 DEF Inputs, Commands
<1>2. PICK k \in DOMAIN Recipe(v) : n \in Made(Recipe(v)[k]) /\ m \in Recipe(v)[k].reads
  BY <1>1
<1>3. v = t
  <2>1. n \in Outputs(v)
    BY <1>2, OutputsOf DEF Writes
  <2>2. QED
    BY <2>1, OneRule
<1>4. QED
  BY <1>2, <1>3

\* Sources are made from nothing.
LEMMA SourcesUnmade ==
  ASSUME WellOrdered, NEW n \in Given
  PROVE  Inputs[n] = {}
<1>1. SUFFICES ASSUME NEW m \in Inputs[n] PROVE FALSE
  OBVIOUS
<1>2. n \in Node
  BY RulesAssumption
<1>3. PICK v \in Target :
         \E k \in DOMAIN Recipe(v) : n \in Made(Recipe(v)[k]) /\ m \in Recipe(v)[k].reads
  BY <1>2 DEF Inputs, Commands
<1>4. QED
  BY <1>3, MadeFacts

\* When n is made from m and the j-th command of u makes m, then u is above the rule of n,
\* or is that rule and has a later command that makes n.
LEMMA MadeFrom ==
  ASSUME WellOrdered, NEW t \in Target, NEW n \in Outputs(t), NEW m \in Inputs[n],
         NEW u \in Target, NEW j \in DOMAIN Recipe(u), m \in Made(Recipe(u)[j])
  PROVE  u \in Above[t] \/ (u = t /\ \E i \in DOMAIN Recipe(t) : n \in Made(Recipe(t)[i]) /\ j < i)
<1>1. PICK i \in DOMAIN Recipe(t) : n \in Made(Recipe(t)[i]) /\ m \in Recipe(t)[i].reads
  BY InputsOf
<1>2. m \in Outputs(u) /\ m \notin Given
  BY MadeFacts
<1>3. \/ \E w \in Above[t] : m \in Outputs(w)
      \/ \E k \in DOMAIN Recipe(t) : m \in Made(Recipe(t)[k])
  BY <1>1, <1>2, Ordered DEF OrderComplete
<1>4. CASE \E w \in Above[t] : m \in Outputs(w)
  BY <1>2, <1>4, RuleFacts, OneRule
<1>5. CASE \E k \in DOMAIN Recipe(t) : m \in Made(Recipe(t)[k])
  <2>1. m \in Outputs(t)
    BY <1>5, OutputsOf DEF Writes
  <2>2. u = t
    BY <1>2, <2>1, OneRule
  <2>3. ~(i <= j)
    BY <1>1, <2>2, Ordered DEF ReadsInOrder
  <2>4. i \in Nat /\ j \in Nat
    BY <2>2, RuleFacts
  <2>5. QED
    BY <1>1, <2>2, <2>3, <2>4
<1>6. QED
  BY <1>3, <1>4, <1>5

-----------------------------------------------------------------------------
(***************************************************************************)
(* One command.                                                            *)
(***************************************************************************)
LEMMA CalmRunning ==
  ASSUME CalmInv, NEW t \in Running
  PROVE  /\ t \in Target /\ status[t] = "running" /\ CalmRecipe(t)
         /\ pc[t] \in DOMAIN Recipe(t) /\ pc[t] \in Nat
         /\ DOMAIN Recipe(t) = 1 .. Len(Recipe(t)) /\ Len(Recipe(t)) \in Nat
         /\ \A u \in Above[t] : status[u] = "done" /\ u \notin Running
         /\ t \notin Above[t]
         /\ built = {}
<1>1. t \in Target /\ status[t] = "running"
  BY DEF Running
<1>2. pc[t] \in DOMAIN Recipe(t) /\ DOMAIN Recipe(t) = 1 .. Len(Recipe(t)) /\ Len(Recipe(t)) \in Nat
  BY <1>1, RunningFacts, RuleFacts DEF CalmInv
<1>3. CalmRecipe(t) /\ built = {} /\ \A u \in Above[t] : status[u] = "done"
  BY <1>1 DEF CalmInv, CalmRun
<1>4. QED
  BY <1>1, <1>2, <1>3, RuleFacts DEF Running

\* What a rule that is done stands for is there.
LEMMA DoneFacts ==
  ASSUME CalmInv, NEW v \in Target, status[v] = "done"
  PROVE  \A n \in Outputs(v) : content[n] = "whole" /\ n \notin unsynced
<1>1. \A u \in Above[v] \cup {v} : u \in Target /\ status[u] = "done"
  BY RuleFacts DEF CalmInv, CalmRun
<1>2. DeepClean(v) /\ Settled(v)
  BY <1>1 DEF CalmInv, CalmRun, DeepClean, Settled, Running
<1>3. QED
  BY <1>2 DEF CalmInv, CalmFiles

\* Whoever makes a file look old has it to itself.
LEMMA CalmBackdates ==
  ASSUME WellOrdered, CalmInv, NEW t \in Running, NEW u \in Running, t # u,
         Cmd(u).kind = "backdate"
  PROVE  Cmd(u).writes \cap (Cmd(t).reads \cup Cmd(t).writes) = {}
<1>1. /\ t \in Target /\ Cmd(t) \in Commands(t) /\ t \notin Above[u]
      /\ u \in Target /\ Cmd(u) \in Commands(u) /\ u \notin Above[t]
  BY CalmRunning DEF Commands, Cmd
<1>2. BackdatesOwn(u)
  BY <1>1, Ordered
<1>3. QED
  BY <1>1, <1>2 DEF BackdatesOwn

\* The running commands find their inputs.
LEMMA CalmInputs ==
  ASSUME WellOrdered, CalmInv, NEW t \in Running, NEW n \in Cmd(t).reads
  PROVE  content[n] = "whole" /\ \A u \in Running \ {t} : n \notin Cmd(u).writes
<1>1. /\ t \in Target /\ pc[t] \in DOMAIN Recipe(t) /\ pc[t] \in Nat
      /\ n \in Recipe(t)[pc[t]].reads /\ Recipe(t)[pc[t]] \in Commands(t)
      /\ \A u \in Above[t] : status[u] = "done" /\ u \notin Running
      /\ CalmRecipe(t)
  BY CalmRunning DEF Cmd, Commands
<1>2. \A u \in Running : u \in Target /\ pc[u] \in DOMAIN Recipe(u) /\ Cmd(u) = Recipe(u)[pc[u]]
                         /\ Cmd(u) \in Commands(u)
  BY CalmRunning DEF Cmd, Commands
<1>3. ASSUME NEW u \in Running \ {t}, n \in Cmd(u).writes
      PROVE  n \in Outputs(u) /\ n \notin Given
  <2>1. n \in Cmd(t).reads
    OBVIOUS
  <2>2. n \in Made(Cmd(u))
    BY <1>3, <2>1, CalmBackdates DEF Made
  <2>3. QED
    BY <1>2, <2>2, MadeFacts
<1>4. CASE n \in Given
  BY <1>3, <1>4 DEF CalmInv, CalmFiles
<1>5. CASE \E v \in Above[t] : n \in Outputs(v)
  <2>1. PICK v \in Above[t] : n \in Outputs(v)
    BY <1>5
  <2>2. v \in Target /\ status[v] = "done" /\ v \notin Running
    BY <1>1, <2>1, RuleFacts
  <2>3. content[n] = "whole"
    BY <2>1, <2>2, DoneFacts
  <2>4. QED
    BY <1>2, <1>3, <2>1, <2>2, <2>3, OneRule
<1>6. CASE n \notin Given /\ \E j \in DOMAIN Recipe(t) : j < pc[t] /\ n \in Made(Recipe(t)[j])
  <2>1. n \in Outputs(t)
    BY <1>1, <1>6, OutputsOf DEF Writes
  <2>2. ASSUME NEW i \in DOMAIN Recipe(t), n \in Made(Recipe(t)[i]) PROVE i < pc[t]
    <3>1. ~(pc[t] <= i)
      BY <1>1, <2>2, Ordered DEF ReadsInOrder
    <3>2. i \in Nat
      BY <1>1, RuleFacts
    <3>3. QED
      BY <1>1, <3>1, <3>2
  <2>3. content[n] = "whole"
    BY <1>1, <2>1, <2>2 DEF CalmRecipe, MadeByNow
  <2>4. QED
    BY <1>1, <1>2, <1>3, <2>1, <2>3, OneRule
<1>7. QED
  BY <1>1, <1>4, <1>5, <1>6, Ordered DEF OrderComplete

\* No command is without what it needs.
LEMMA NeverHopeless ==
  ASSUME WellOrdered, CalmInv, NEW t \in Running
  PROVE  ~Hopeless(Cmd(t))
<1>1. \A n \in Cmd(t).reads : content[n] # "none"
  BY CalmInputs
<1>2. ASSUME Cmd(t).kind = "clone", NEW n \in Cmd(t).writes PROVE content[n] = "none"
  <2>1. t \in Target /\ Cmd(t) \in Commands(t) /\ CalmRecipe(t)
    BY CalmRunning DEF Cmd, Commands
  <2>2. content[t] = "none"
    BY <1>2, <2>1 DEF CalmRecipe
  <2>3. QED
    BY <1>2, <2>1, <2>2 DEF CalmInv, CalmFiles
<1>3. QED
  BY <1>1, <1>2 DEF Hopeless

\* What a command does, touch -t included.
LEMMA CommandEffect ==
  ASSUME WellOrdered, CalmInv, NEW t \in Running, Succeed(t), NEW W, W = Made(Cmd(t))
  PROVE  /\ W \in SUBSET Node
         /\ \A n \in Node : content'[n] = IF n \in W THEN "whole" ELSE content[n]
         /\ \A n \in Node : n \in unsynced' <=>
              /\ n \notin W
              /\ n \in unsynced \/ (content[n] # "none" /\ Inputs[n] \cap W # {})
         /\ \A v \in Target : \A p \in Prereqs(v) :
              p \in Target \/ v # t =>
                (<<v, p>> \in newer' <=> /\ v \notin W
                                         /\ <<v, p>> \in newer \/ (p \in W /\ content[v] # "none"))
         /\ \A p \in Prereqs(t) :
              <<t, p>> \in newer' => t \notin W /\ (<<t, p>> \in newer \/ p \in W)
<1>1. /\ t \in Target /\ TypeOK /\ Cmd(t).writes \in SUBSET Node
      /\ Cmd(t) \in Commands(t)
  BY CalmRunning, RunningFacts DEF CalmInv, Cmd, Commands
<1>2. CASE Cmd(t).kind = "backdate"
  <2>1. W = {} /\ content' = content /\ unsynced' = unsynced
        /\ newer' = {x \in newer : x[2] \notin Cmd(t).writes}
    BY <1>2 DEF Made, Succeed, Backdate
  <2>2. Cmd(t).writes \cap Target = {}
        /\ \A v \in Target \ {t} : Cmd(t).writes \cap Prereqs(v) = {}
    BY <1>1, <1>2, Ordered DEF BackdatesOwn
  <2>4. ASSUME NEW v \in Target, NEW p \in Prereqs(v), p \in Target \/ v # t
        PROVE  <<v, p>> \in newer' <=> <<v, p>> \in newer
    BY <2>1, <2>2, <2>4
  <2>5. QED
    BY <2>1, <2>4
<1>3. CASE Cmd(t).kind # "backdate"
  <2>1. W = Cmd(t).writes /\ W \in SUBSET Node /\ Write(W, "whole")
    BY <1>1, <1>3 DEF Made, Succeed
  <2>2. QED
    BY <1>1, <2>1, WriteEffect
<1>4. QED
  BY <1>2, <1>3

\* What the running command of t makes is no output of another rule, nor what another rule
\* is made from or waits for, unless t is above it.
LEMMA Apart ==
  ASSUME WellOrdered, CalmInv, NEW t \in Running, NEW v \in Target, v # t, t \notin Above[v]
  PROVE  /\ v \notin Made(Cmd(t)) /\ Prereqs(v) \cap Made(Cmd(t)) = {}
         /\ \A n \in Outputs(v) : n \notin Made(Cmd(t)) /\ Inputs[n] \cap Made(Cmd(t)) = {}
<1>1. t \in Target /\ pc[t] \in DOMAIN Recipe(t) /\ Cmd(t) = Recipe(t)[pc[t]]
  BY CalmRunning DEF Cmd
<1>2. \A m \in Made(Cmd(t)) : m \in Outputs(t) /\ m \notin Given /\ (m \in Target => m = t)
  BY <1>1, MadeFacts
<1>3. ASSUME NEW p \in Prereqs(v), p \in Made(Cmd(t)) PROVE FALSE
  <2>1. CASE p \in Target
    BY <1>2, <1>3, <2>1, RuleFacts
  <2>2. CASE \E u \in Above[v] : p \in Outputs(u)
    BY <1>1, <1>2, <1>3, <2>2, RuleFacts, OneRule
  <2>3. QED
    BY <1>2, <1>3, <2>1, <2>2, Ordered DEF PrereqsMade
<1>4. ASSUME NEW n \in Outputs(v), NEW m \in Inputs[n], m \in Made(Cmd(t)) PROVE FALSE
  BY <1>1, <1>4, MadeFrom
<1>5. ASSUME NEW n \in Outputs(v), n \in Made(Cmd(t)) PROVE FALSE
  BY <1>1, <1>2, <1>5, OneRule
<1>6. QED
  BY <1>2, <1>3, <1>4, <1>5

\* Hence it leaves such a rule alone.
LEMMA LeftAlone ==
  ASSUME WellOrdered, CalmInv, NEW t \in Running, Succeed(t),
         NEW v \in Target, v # t, t \notin Above[v]
  PROVE  /\ Clean(v)' <=> Clean(v)
         /\ \A n \in Outputs(v) : content'[n] = content[n] /\ (n \in unsynced' <=> n \in unsynced)
<1> DEFINE W == Made(Cmd(t))
<1>1. /\ v \notin W /\ Prereqs(v) \cap W = {}
      /\ \A n \in Outputs(v) : n \in Node /\ n \notin W /\ Inputs[n] \cap W = {}
  BY Apart, MadeSomewhere
<1>2. v \in Node
  BY RulesAssumption
<1>3. /\ \A n \in Node : content'[n] = IF n \in W THEN "whole" ELSE content[n]
      /\ \A n \in Node : n \in unsynced' <=>
              /\ n \notin W
              /\ n \in unsynced \/ (content[n] # "none" /\ Inputs[n] \cap W # {})
      /\ \A p \in Prereqs(v) :
           <<v, p>> \in newer' <=> /\ v \notin W
                                   /\ <<v, p>> \in newer \/ (p \in W /\ content[v] # "none")
  BY CommandEffect
<1> HIDE DEF W
<1>4. Clean(v)' <=> Clean(v)
  BY <1>1, <1>2, <1>3 DEF Clean
<1>5. QED
  BY <1>1, <1>3, <1>4

\* A command of t makes no other target clean, and every target below t unclean when it
\* makes t.
LEMMA CleanBefore ==
  ASSUME WellOrdered, CalmInv, NEW t \in Running, Succeed(t), NEW v \in Target, v # t, Clean(v)'
  PROVE  Clean(v) /\ (t \in Made(Cmd(t)) => t \notin Prereqs(v))
<1> DEFINE W == Made(Cmd(t))
<1>1. t \in Target /\ v \in Node /\ v \notin W
  <2>1. t \in Target /\ pc[t] \in DOMAIN Recipe(t) /\ Cmd(t) = Recipe(t)[pc[t]]
    BY CalmRunning DEF Cmd
  <2>2. QED
    BY <2>1, MadeFacts, RulesAssumption
<1>2. /\ content'[v] = content[v]
      /\ \A p \in Prereqs(v) :
           <<v, p>> \in newer' <=> <<v, p>> \in newer \/ (p \in W /\ content[v] # "none")
  BY <1>1, CommandEffect
<1> HIDE DEF W
<1>3. Clean(v) /\ (t \in W => t \notin Prereqs(v))
  BY <1>1, <1>2 DEF Clean
<1>4. QED
  BY <1>3 DEF W

\* What the command leaves of its own target: once it is made, it is clean and all below it
\* is older.
LEMMA TargetAfter ==
  ASSUME WellOrdered, CalmInv, NEW t \in Running, Succeed(t),
         NEW i \in DOMAIN Recipe(t), i <= pc[t], t \in Made(Recipe(t)[i])
  PROVE  Clean(t)' /\ AllOlder(t)'
<1> DEFINE W == Made(Cmd(t))
<1>1. /\ t \in Target /\ t \in Node /\ pc[t] \in DOMAIN Recipe(t) /\ Cmd(t) = Recipe(t)[pc[t]]
      /\ pc[t] \in Nat /\ i \in Nat /\ CalmRecipe(t) /\ t \notin Above[t]
  BY CalmRunning, RulesAssumption DEF Cmd
<1>2. t \in W \/ (Clean(t) /\ AllOlder(t))
  BY <1>1 DEF CalmRecipe, MadeBefore
<1>3. \A p \in Prereqs(t) : p \notin W
  <2>1. ASSUME NEW p \in Prereqs(t), p \in W PROVE FALSE
    <3>1. p \in Outputs(t) /\ p \notin Given /\ (p \in Target => p = t)
      BY <1>1, <2>1, MadeFacts
    <3>2. p \notin Target
      BY <1>1, <2>1, <3>1, RuleFacts
    <3>3. PICK u \in Above[t] : p \in Outputs(u)
      BY <1>1, <2>1, <3>1, <3>2, Ordered DEF PrereqsMade
    <3>4. QED
      BY <1>1, <3>1, <3>3, RuleFacts, OneRule
  <2>2. QED
    BY <2>1
<1>4. ASSUME NEW v \in Target, t \in Prereqs(v) PROVE v \in Node /\ v \notin W
  <2>1. v # t
    BY <1>1, <1>4, RuleFacts
  <2>2. QED
    BY <1>1, <2>1, MadeFacts, RulesAssumption
<1>5. /\ \A n \in Node : content'[n] = IF n \in W THEN "whole" ELSE content[n]
      /\ \A p \in Prereqs(t) : <<t, p>> \in newer' => t \notin W /\ (<<t, p>> \in newer \/ p \in W)
      /\ \A v \in Target : t \in Prereqs(v) =>
           (<<v, t>> \in newer' <=> /\ v \notin W
                                    /\ <<v, t>> \in newer \/ (t \in W /\ content[v] # "none"))
  BY <1>1, CommandEffect
<1> HIDE DEF W
<1>6. Clean(t)'
  BY <1>1, <1>2, <1>3, <1>5 DEF Clean
<1>7. AllOlder(t)'
  BY <1>2, <1>4, <1>5 DEF AllOlder
<1>8. QED
  BY <1>6, <1>7

\* What the command leaves of the outputs of its recipe.
LEMMA OutputsAfter ==
  ASSUME WellOrdered, CalmInv, NEW t \in Running, Succeed(t), NEW n \in Outputs(t),
         \A i \in DOMAIN Recipe(t) : n \in Made(Recipe(t)[i]) => i <= pc[t]
  PROVE  content'[n] = "whole" /\ n \notin unsynced'
<1> DEFINE W == Made(Cmd(t))
<1>1. /\ t \in Target /\ n \in Node /\ pc[t] \in DOMAIN Recipe(t) /\ Cmd(t) = Recipe(t)[pc[t]]
      /\ pc[t] \in Nat /\ DOMAIN Recipe(t) = 1 .. Len(Recipe(t)) /\ Len(Recipe(t)) \in Nat
      /\ CalmRecipe(t) /\ t \notin Above[t]
  BY CalmRunning, MadeSomewhere DEF Cmd
<1>2. n \in W \/ MadeByNow(t, n)
  <2>1. SUFFICES ASSUME n \notin W, NEW i \in DOMAIN Recipe(t), n \in Made(Recipe(t)[i])
                 PROVE  i < pc[t]
    BY DEF MadeByNow
  <2>2. i # pc[t] /\ i <= pc[t]
    BY <1>1, <2>1
  <2>3. QED
    BY <1>1, <2>2
<1>3. n \in W \/ (content[n] = "whole" /\ n \notin unsynced)
  BY <1>1, <1>2 DEF CalmRecipe
<1>4. Inputs[n] \cap W = {}
  <2>1. SUFFICES ASSUME NEW m \in Inputs[n], m \in W PROVE FALSE
    OBVIOUS
  <2>2. PICK i \in DOMAIN Recipe(t) : n \in Made(Recipe(t)[i]) /\ pc[t] < i
    BY <1>1, <2>1, MadeFrom
  <2>3. QED
    BY <1>1, <2>2
<1>5. /\ content'[n] = IF n \in W THEN "whole" ELSE content[n]
      /\ n \in unsynced' <=> /\ n \notin W
                             /\ n \in unsynced \/ (content[n] # "none" /\ Inputs[n] \cap W # {})
  BY <1>1, CommandEffect
<1> HIDE DEF W
<1>6. QED
  BY <1>3, <1>4, <1>5

\* The recipe goes on or ends.
LEMMA Advanced ==
  ASSUME CalmInv, NEW t \in Running, Succeed(t)
  PROVE  /\ goal' = goal /\ built' = {}
         /\ \A v \in Target \ {t} : status'[v] = status[v] /\ pc'[v] = pc[v]
         /\ IF pc[t] = Len(Recipe(t)) THEN status'[t] = "done" /\ pc'[t] = 0
                                      ELSE status'[t] = "running" /\ pc'[t] = pc[t] + 1
BY CalmRunning DEF Succeed, Advance, CalmInv, TypeOK

LEMMA SucceedKeepsFiles ==
  ASSUME WellOrdered, CalmInv, NEW t \in Target, Succeed(t)
  PROVE  CalmFiles'
<1> DEFINE W == Made(Cmd(t))
<1>0. t \in Running
  BY DEF Succeed, Running
<1>1. /\ pc[t] \in DOMAIN Recipe(t) /\ Cmd(t) = Recipe(t)[pc[t]] /\ pc[t] \in Nat
      /\ DOMAIN Recipe(t) = 1 .. Len(Recipe(t)) /\ Len(Recipe(t)) \in Nat
      /\ CalmRecipe(t) /\ t \notin Above[t] /\ Target \cup Given \subseteq Node
  BY <1>0, CalmRunning, RulesAssumption DEF Cmd
<1>2. \A m \in W : m \in Outputs(t) /\ m \notin Given /\ (m \in Target => m = t)
  BY <1>1, MadeFacts
<1>3. /\ \A n \in Node : content'[n] = IF n \in W THEN "whole" ELSE content[n]
      /\ \A n \in Node : n \in unsynced' =>
              n \notin W /\ (n \in unsynced \/ Inputs[n] \cap W # {})
  BY <1>0, CommandEffect
<1>4. \A n \in Given : Inputs[n] = {}
  BY SourcesUnmade
<1> HIDE DEF W
<1>5. /\ \A n \in Node : content'[n] # "part"
      /\ \A n \in Given : content'[n] = "whole" /\ n \notin unsynced'
  BY <1>1, <1>2, <1>3, <1>4 DEF CalmInv, CalmFiles
<1>6. ASSUME NEW v \in Target, (DeepClean(v) /\ Settled(v))', NEW n \in Outputs(v)
      PROVE  content'[n] = "whole" /\ n \notin unsynced'
  <2>1. \A u \in Above[v] \cup {v} : u \in Target /\ Clean(u)' /\ status'[u] # "running"
    BY <1>6, RuleFacts DEF DeepClean, Settled, Running
  <2>2. CASE t \in Above[v] \cup {v}
    <3>1. pc[t] = Len(Recipe(t))
      BY <1>0, <2>1, <2>2, Advanced
    <3>2. \A i \in DOMAIN Recipe(t) : i <= pc[t]
      BY <1>1, <3>1
    <3>3. CASE t = v
      BY <1>0, <1>6, <3>2, <3>3, OutputsAfter
    <3>4. CASE t \in Above[v]
      <4>1. PICK i \in DOMAIN Recipe(t) : t \in Made(Recipe(t)[i])
        BY Ordered DEF MakesTarget, Commands
      <4>2. AllOlder(t)'
        BY <1>0, <3>2, <4>1, TargetAfter
      <4>3. PICK w \in Above[v] \cup {v} : t \in Prereqs(w)
        BY <3>4, AboveAssumption
      <4>4. w \in Target /\ Clean(w)'
        BY <2>1, <4>3
      <4>5. content'[w] = "none" \/ <<w, t>> \in newer'
        BY <4>2, <4>3, <4>4 DEF AllOlder
      <4>6. QED
        BY <4>3, <4>4, <4>5 DEF Clean
    <3>5. QED
      BY <2>2, <3>3, <3>4
  <2>3. CASE t \notin Above[v] \cup {v}
    <3>1. DeepClean(v)
      BY <1>0, <2>1, <2>3, CleanBefore DEF DeepClean
    <3>2. Settled(v)
      BY <1>0, <2>1, <2>3, Advanced DEF Settled, Running
    <3>3. content[n] = "whole" /\ n \notin unsynced
      BY <1>6, <3>1, <3>2 DEF CalmInv, CalmFiles
    <3>4. QED
      BY <1>0, <1>6, <2>3, <3>3, LeftAlone
  <2>4. QED
    BY <2>2, <2>3
<1>7. ASSUME NEW v \in Target, content'[v] = "none",
             NEW c \in Commands(v), c.kind = "clone", NEW n \in c.writes
      PROVE  content'[n] = "none"
  <2>1. v \in Node /\ v \notin W /\ content[v] = "none"
    BY <1>1, <1>3, <1>7
  <2>2. content[n] = "none"
    BY <1>7, <2>1 DEF CalmInv, CalmFiles
  <2>3. PICK k \in DOMAIN Recipe(v) : c = Recipe(v)[k]
    BY <1>7 DEF Commands
  <2>4. n \in Node /\ n \in Outputs(v) /\ v \in Made(Recipe(v)[k]) /\ k = 1
    <3>1. n \in Made(Recipe(v)[k])
      BY <1>7, <2>3 DEF Made
    <3>2. v \in Recipe(v)[k].writes /\ k = 1
      BY <1>7, <2>3, Ordered DEF ClonesFirst
    <3>3. QED
      BY <1>7, <2>3, <3>1, <3>2, MadeFacts DEF Made
  <2>5. n \notin W
    <3>1. SUFFICES ASSUME n \in W PROVE FALSE
      OBVIOUS
    <3>2. v = t
      BY <1>2, <2>4, <3>1, OneRule
    <3>3. pc[t] # 1
      BY <1>1, <2>1, <2>4, <3>2 DEF W
    <3>4. MadeBefore(t, t)
      BY <1>1, <2>4, <3>2, <3>3 DEF MadeBefore
    <3>5. QED
      BY <1>1, <2>1, <3>2, <3>4 DEF CalmRecipe, Clean
  <2>6. QED
    BY <1>3, <2>2, <2>4, <2>5
<1>8. QED
  BY <1>5, <1>6, <1>7 DEF CalmFiles

LEMMA SucceedKeepsRun ==
  ASSUME WellOrdered, CalmInv, NEW t \in Target, Succeed(t), Idle'
  PROVE  CalmRun'
<1>0. t \in Running
  BY DEF Succeed, Running
<1>1. /\ pc[t] \in DOMAIN Recipe(t) /\ Cmd(t) = Recipe(t)[pc[t]] /\ pc[t] \in Nat
      /\ DOMAIN Recipe(t) = 1 .. Len(Recipe(t)) /\ Len(Recipe(t)) \in Nat
      /\ CalmRecipe(t) /\ t \notin Above[t] /\ status[t] = "running"
      /\ \A u \in Above[t] : status[u] = "done"
  BY <1>0, CalmRunning DEF Cmd
<1>2. /\ goal' = goal /\ built' = {}
      /\ \A v \in Target \ {t} : status'[v] = status[v] /\ pc'[v] = pc[v]
      /\ IF pc[t] = Len(Recipe(t)) THEN status'[t] = "done" /\ pc'[t] = 0
                                   ELSE status'[t] = "running" /\ pc'[t] = pc[t] + 1
  BY <1>0, Advanced
<1>3. CalmRun /\ \A v \in Target : Above[v] \subseteq Target
  BY RuleFacts DEF CalmInv
<1>4. /\ \A v \in Target : status'[v] # "failed"
      /\ \A v \in Target : status'[v] # "ignored" => v \in Wanted(goal)'
  BY <1>1, <1>2, <1>3 DEF CalmRun, Wanted
<1>5. \A v \in Target : status'[v] \in {"running", "done"} =>
        \A u \in Above[v] : status'[u] = "done"
  BY <1>1, <1>2, <1>3 DEF CalmRun
<1>6. ASSUME NEW v \in Target, status'[v] = "done" PROVE Clean(v)'
  <2>1. CASE v = t
    <3>1. \A i \in DOMAIN Recipe(t) : i <= pc[t]
      BY <1>1, <1>2, <1>6, <2>1
    <3>2. PICK i \in DOMAIN Recipe(t) : t \in Made(Recipe(t)[i])
      BY Ordered DEF MakesTarget, Commands
    <3>3. QED
      BY <1>0, <2>1, <3>1, <3>2, TargetAfter
  <2>2. CASE v # t
    <3>1. status[v] = "done" /\ t \notin Above[v] /\ Clean(v)
      BY <1>1, <1>2, <1>3, <1>6, <2>2 DEF CalmRun
    <3>2. QED
      BY <1>0, <2>2, <3>1, LeftAlone
  <2>3. QED
    BY <2>1, <2>2
<1>7. ASSUME NEW v \in Target, v # t, status'[v] = "running" PROVE CalmRecipe(v)'
  <2>1. /\ v \in Running /\ CalmRecipe(v) /\ pc'[v] = pc[v]
    BY <1>2, <1>7, CalmRunning DEF Running
  <2>2. t \notin Above[v]
    BY <1>1, <1>3, <1>7, <2>1 DEF CalmRun, Running
  <2>3. /\ Clean(v)' <=> Clean(v)
        /\ \A n \in Outputs(v) : content'[n] = content[n] /\ (n \in unsynced' <=> n \in unsynced)
    BY <1>0, <1>7, <2>2, LeftAlone
  <2>4. ASSUME MadeBefore(v, v)' PROVE Clean(v)' /\ AllOlder(v)'
    <3>1. Clean(v) /\ AllOlder(v)
      BY <2>1, <2>4 DEF CalmRecipe, MadeBefore
    <3>2. ASSUME NEW w \in Target, v \in Prereqs(w)
          PROVE  content'[w] = "none" \/ <<w, v>> \in newer'
      <4>1. w # t
        BY <1>1, <1>3, <2>1, <3>2, RuleFacts DEF Running
      <4>2. w \notin Made(Cmd(t)) /\ w \in Node
        BY <1>1, <4>1, MadeFacts, RulesAssumption
      <4>3. /\ content'[w] = content[w]
            /\ <<w, v>> \in newer => <<w, v>> \in newer'
        BY <1>0, <3>2, <4>2, CommandEffect
      <4>4. QED
        BY <3>1, <3>2, <4>3 DEF AllOlder
    <3>3. QED
      BY <2>3, <3>1, <3>2 DEF AllOlder
  <2>5. ASSUME NEW n \in Outputs(v), MadeByNow(v, n)' PROVE content'[n] = "whole" /\ n \notin unsynced'
    BY <2>1, <2>3, <2>5 DEF CalmRecipe, MadeByNow
  <2>6. ASSUME (Cmd(v).kind = "clone")' PROVE content'[v] = "none"
    <3>1. Cmd(v).kind = "clone" /\ content[v] = "none"
      BY <2>1, <2>6 DEF CalmRecipe, Cmd
    <3>2. v \notin Made(Cmd(t)) /\ v \in Node
      BY <1>1, <1>7, MadeFacts, RulesAssumption
    <3>3. QED
      BY <1>0, <3>1, <3>2, CommandEffect
  <2>7. QED
    BY <2>4, <2>5, <2>6 DEF CalmRecipe
<1>8. ASSUME status'[t] = "running" PROVE CalmRecipe(t)'
  <2>1. pc'[t] = pc[t] + 1 /\ pc[t] # Len(Recipe(t))
    BY <1>2, <1>8
  <2>2. \A i \in DOMAIN Recipe(t) : i < pc'[t] <=> i <= pc[t]
    BY <1>1, <2>1
  <2>3. ASSUME MadeBefore(t, t)' PROVE Clean(t)' /\ AllOlder(t)'
    <3>1. PICK i \in DOMAIN Recipe(t) : i <= pc[t] /\ t \in Made(Recipe(t)[i])
      BY <2>2, <2>3 DEF MadeBefore
    <3>2. QED
      BY <1>0, <3>1, TargetAfter
  <2>4. ASSUME NEW n \in Outputs(t), MadeByNow(t, n)' PROVE content'[n] = "whole" /\ n \notin unsynced'
    <3>1. \A i \in DOMAIN Recipe(t) : n \in Made(Recipe(t)[i]) => i <= pc[t]
      BY <2>2, <2>4 DEF MadeByNow
    <3>2. QED
      BY <1>0, <3>1, OutputsAfter
  <2>5. (Cmd(t).kind # "clone")'
    <3>1. pc[t] + 1 \in DOMAIN Recipe(t) /\ pc[t] + 1 # 1
      BY <1>1, <2>1
    <3>2. Recipe(t)[pc[t] + 1].kind # "clone"
      BY <3>1, Ordered DEF ClonesFirst
    <3>3. QED
      BY <2>1, <3>2 DEF Cmd
  <2>6. QED
    BY <2>3, <2>4, <2>5 DEF CalmRecipe
<1>9. \A v \in Running' : CalmRecipe(v)'
  BY <1>7, <1>8 DEF Running
<1>10. Wanted(built)' = {}
  BY <1>2 DEF Wanted
<1>11. QED
  BY <1>2, <1>4, <1>5, <1>6, <1>9, <1>10 DEF CalmRun

-----------------------------------------------------------------------------
(***************************************************************************)
(* The other steps.                                                        *)
(***************************************************************************)

\* A step that touches no file: it is enough that no target ceases to be made, but at the
\* end of its recipe.
LEMMA CalmFilesSame ==
  ASSUME CalmInv, UNCHANGED <<content, newer, unsynced>>, Running \subseteq Running'
  PROVE  /\ CalmFiles'
         /\ \A t \in Target : Clean(t)' <=> Clean(t)
         /\ \A t \in Target : DeepClean(t)' <=> DeepClean(t)
         /\ \A t \in Target : AllOlder(t)' <=> AllOlder(t)
<1>1. \A t \in Target : /\ Clean(t)' <=> Clean(t)
                        /\ AllOlder(t)' <=> AllOlder(t)
  BY DEF Clean, AllOlder
<1>2. \A t \in Target : /\ DeepClean(t)' <=> DeepClean(t)
                        /\ Settled(t)' => Settled(t)
  BY <1>1, RuleFacts DEF DeepClean, Settled
<1>3. CalmFiles'
  BY <1>2 DEF CalmInv, CalmFiles
<1>4. QED
  BY <1>1, <1>2, <1>3

\* What a running recipe says of itself stays true with its place and its files.
LEMMA CalmRecipeSame ==
  ASSUME NEW t \in Target, CalmRecipe(t), pc'[t] = pc[t], UNCHANGED <<content, newer, unsynced>>
  PROVE  CalmRecipe(t)'
BY DEF CalmRecipe, MadeBefore, MadeByNow, Clean, AllOlder, Cmd

LEMMA CalmInit == ASSUME WellOrdered, Init PROVE CalmInv
<1>1. TypeOK /\ Idle
  BY TypeInit
<1>2. /\ \A n \in Node : content[n] \in {"none", "whole"}
      /\ \A n \in Node : content[n] = "whole" <=> n \in Given
      /\ unsynced = {} /\ Target \cap Given = {} /\ Target \cup Given \subseteq Node
  BY RulesAssumption DEF Init
<1>3. \A t \in Target : ~Clean(t) /\ ~DeepClean(t)
  BY <1>2 DEF Clean, DeepClean
<1>4. ASSUME NEW t \in Target, NEW c \in Commands(t), c.kind = "clone",
             NEW n \in c.writes
      PROVE  content[n] = "none"
  <2>1. PICK i \in DOMAIN Recipe(t) : c = Recipe(t)[i]
    BY DEF Commands
  <2>2. n \in Node /\ n \notin Given
    BY <1>4, <2>1, MadeFacts DEF Made
  <2>3. QED
    BY <1>2, <2>2
<1>5. \A t \in Target : status[t] = "ignored"
  BY DEF Init
<1>6. CalmFiles
  BY <1>2, <1>3, <1>4 DEF CalmFiles
<1>7. Running = {} /\ Wanted(built) = {}
  BY <1>5 DEF Init, Wanted, Running
<1>8. CalmRun
  BY <1>1, <1>5, <1>7 DEF CalmRun
<1>9. QED
  BY <1>1, <1>6, <1>8 DEF CalmInv

LEMMA CalmInvoke ==
  ASSUME CalmInv, NEW g \in Goals, Invoke(g), Idle'
  PROVE  CalmFiles' /\ CalmRun'
<1>1. \A t \in Target : status[t] = "ignored"
  BY DEF CalmInv, CalmRun, Idle, Invoke
<1>2. Running = {}
  BY <1>1 DEF Running
<1>3. /\ CalmFiles'
      /\ \A t \in Target : DeepClean(t)' <=> DeepClean(t)
  BY <1>2, CalmFilesSame DEF Invoke
<1>4. \A t \in Target : status'[t] \in {"todo", "ignored"} /\ (status'[t] = "todo" => t \in Wanted(g))
  BY DEF Invoke
<1>5. Wanted(goal)' = Wanted(g) /\ Wanted(built)' = Wanted(built) /\ built' = built
  BY DEF Invoke, Wanted
<1>6. Wanted(built) \subseteq Target
  BY RuleFacts DEF CalmInv, TypeOK, Wanted
<1>7. \A t \in Wanted(built) : DeepClean(t)'
  BY <1>3, <1>6 DEF CalmInv, CalmRun
<1>8. Running' = {}
  BY <1>4 DEF Running
<1>9. CalmRun'
  BY <1>4, <1>5, <1>7, <1>8 DEF CalmRun
<1>10. QED
  BY <1>3, <1>9

LEMMA CalmReadyAbove ==
  ASSUME CalmInv, NEW t \in Target, Ready(t)
  PROVE  \A u \in Above[t] : status[u] = "done"
<1>1. \A p \in Prereqs(t) \cap Target : status[p] = "done" /\ \A u \in Above[p] : status[u] = "done"
  BY DEF Ready, CalmInv, CalmRun
<1>2. \A u \in Above[t] : u \in Prereqs(t) \/ \E p \in Prereqs(t) \cap Target : u \in Above[p]
  BY AboveAssumption
<1>3. QED
  BY <1>1, <1>2, RuleFacts

LEMMA CalmSkip ==
  ASSUME CalmInv, NEW t \in Target, Skip(t), Idle'
  PROVE  CalmFiles' /\ CalmRun'
<1>1. \A v \in Target : status'[v] = IF v = t THEN "done" ELSE status[v]
  BY DEF Skip, CalmInv, TypeOK
<1>2. status[t] = "todo" /\ \A u \in Above[t] : status[u] = "done"
  BY CalmReadyAbove DEF Skip, Ready
<1>3. /\ goal' = goal /\ built' = built /\ pc' = pc
      /\ UNCHANGED <<content, newer, unsynced>>
  BY DEF Skip
<1>4. Running' = Running /\ Wanted(goal)' = Wanted(goal) /\ Wanted(built)' = Wanted(built)
  BY <1>1, <1>2, <1>3 DEF Running, Wanted
<1>5. /\ CalmFiles'
      /\ \A v \in Target : Clean(v)' <=> Clean(v)
      /\ \A v \in Target : DeepClean(v)' <=> DeepClean(v)
  BY <1>3, <1>4, CalmFilesSame
<1>6. Clean(t)
  <2>1. t \in Node /\ content[t] \in {"none", "part", "whole"} /\ content[t] # "part"
    BY RulesAssumption DEF CalmInv, CalmFiles, TypeOK
  <2>2. QED
    BY <2>1 DEF Skip, NeedsMaking, Clean
<1>7. Wanted(built) \subseteq Target /\ \A v \in Target : Above[v] \subseteq Target
  BY RuleFacts DEF CalmInv, TypeOK, Wanted
<1>8. CalmRun
  BY DEF CalmInv
<1>9. /\ \A v \in Target : status'[v] # "failed"
      /\ \A v \in Target : status'[v] # "ignored" => v \in Wanted(goal)'
      /\ \A v \in Target : status'[v] \in {"running", "done"} =>
           \A u \in Above[v] : status'[u] = "done"
      /\ \A v \in Target : status'[v] = "done" => Clean(v)'
  BY <1>1, <1>2, <1>4, <1>5, <1>6, <1>7, <1>8 DEF CalmRun
<1>10. \A v \in Running' : CalmRecipe(v)'
  <2>1. \A v \in Running : v \in Target /\ CalmRecipe(v)
    BY <1>8 DEF CalmRun, Running
  <2>2. QED
    BY <1>3, <1>4, <2>1, CalmRecipeSame
<1>11. /\ built' # {} => Running' = {}
       /\ \A v \in Wanted(built)' : DeepClean(v)'
  BY <1>3, <1>4, <1>5, <1>7, <1>8 DEF CalmRun
<1>12. CalmRun'
  BY <1>9, <1>10, <1>11 DEF CalmRun
<1>13. QED
  BY <1>5, <1>12

LEMMA CalmStart ==
  ASSUME WellOrdered, CalmInv, NEW t \in Target, Start(t), Idle'
  PROVE  CalmFiles' /\ CalmRun'
<1>1. \A v \in Target : /\ status'[v] = IF v = t THEN "running" ELSE status[v]
                        /\ pc'[v] = IF v = t THEN 1 ELSE pc[v]
  BY DEF Start, CalmInv, TypeOK
<1>2. status[t] = "todo" /\ \A u \in Above[t] : status[u] = "done"
  BY CalmReadyAbove DEF Start, Ready
<1>3. /\ goal' = goal /\ built' = {}
      /\ UNCHANGED <<content, newer, unsynced>>
  BY DEF Start
<1>4. Running' = Running \cup {t} /\ Wanted(goal)' = Wanted(goal) /\ Wanted(built)' = {}
  BY <1>1, <1>2, <1>3 DEF Running, Wanted
<1>5. /\ CalmFiles'
      /\ \A v \in Target : Clean(v)' <=> Clean(v)
  BY <1>3, <1>4, CalmFilesSame
<1>6. CalmRun /\ \A v \in Target : Above[v] \subseteq Target
  BY RuleFacts DEF CalmInv
<1>7. /\ \A v \in Target : status'[v] # "failed"
      /\ \A v \in Target : status'[v] # "ignored" => v \in Wanted(goal)'
      /\ \A v \in Target : status'[v] \in {"running", "done"} =>
           \A u \in Above[v] : status'[u] = "done"
      /\ \A v \in Target : status'[v] = "done" => Clean(v)'
  BY <1>1, <1>2, <1>4, <1>5, <1>6 DEF CalmRun
<1>8. ASSUME NEW v \in Running' PROVE CalmRecipe(v)'
  <2>1. CASE v # t
    <3>1. v \in Target /\ CalmRecipe(v) /\ pc'[v] = pc[v]
      BY <1>1, <1>4, <1>6, <1>8, <2>1 DEF CalmRun, Running
    <3>2. QED
      BY <1>3, <3>1, CalmRecipeSame
  <2>2. CASE v = t
    <3>1. pc'[t] = 1 /\ \A i \in DOMAIN Recipe(t) : ~(i < 1)
      BY <1>1, RuleFacts
    <3>2. ~MadeBefore(t, t)'
      BY <3>1 DEF MadeBefore
    <3>3. ASSUME NEW n \in Outputs(t), MadeByNow(t, n)' PROVE content'[n] = "whole" /\ n \notin unsynced'
      <4>1. \A i \in DOMAIN Recipe(t) : n \notin Made(Recipe(t)[i])
        BY <3>1, <3>3 DEF MadeByNow
      <4>2. QED
        BY <3>3, <4>1, MadeSomewhere
    <3>4. ASSUME (Cmd(t).kind = "clone")' PROVE content'[t] = "none"
      <4>1. 1 \in DOMAIN Recipe(t) /\ Recipe(t)[1].kind = "clone"
        BY <3>1, <3>4, RuleFacts DEF Cmd
      <4>2. Prereqs(t) = {}
        BY <4>1, Ordered DEF ClonesFirst
      <4>3. QED
        BY <1>3, <4>2 DEF Start, NeedsMaking
    <3>5. QED
      BY <2>2, <3>2, <3>3, <3>4 DEF CalmRecipe
  <2>3. QED
    BY <2>1, <2>2
<1>9. CalmRun'
  BY <1>3, <1>4, <1>7, <1>8 DEF CalmRun
<1>10. QED
  BY <1>5, <1>9

LEMMA CalmExit ==
  ASSUME CalmInv, Exit, Idle'
  PROVE  CalmFiles' /\ CalmRun'
<1>1. Running = {} /\ UNCHANGED <<content, newer, unsynced>>
  BY DEF Exit
<1>2. /\ CalmFiles'
      /\ \A t \in Target : DeepClean(t)' <=> DeepClean(t)
  BY <1>1, CalmFilesSame
<1>3. /\ \A t \in Target : status'[t] = "ignored"
      /\ Running' = {}
  BY DEF Exit, Running
<1>4. AllDone /\ built' = goal
  BY DEF Exit, Stopping, CalmInv, CalmRun
<1>5. ASSUME NEW t \in Wanted(built)' PROVE DeepClean(t)'
  <2>1. \A u \in goal : u \in Target /\ status[u] = "done"
    BY <1>4 DEF AllDone, CalmInv, TypeOK
  <2>2. PICK g \in goal : t = g \/ t \in Above[g]
    BY <1>4, <1>5 DEF Wanted
  <2>3. t \in Target /\ status[t] = "done"
    BY <2>1, <2>2, RuleFacts DEF CalmInv, CalmRun
  <2>4. \A u \in Above[t] \cup {t} : u \in Target /\ status[u] = "done"
    BY <2>3, RuleFacts DEF CalmInv, CalmRun
  <2>5. DeepClean(t)
    BY <2>4 DEF DeepClean, CalmInv, CalmRun
  <2>6. QED
    BY <1>2, <2>3, <2>5
<1>6. CalmRun'
  BY <1>3, <1>5 DEF CalmRun
<1>7. QED
  BY <1>2, <1>6

\* Between two runs only the files change.
LEMMA CalmBetweenRuns ==
  ASSUME CalmInv, goal = {}, UNCHANGED <<goal, status, pc>>, built' = {}, Idle'
  PROVE  CalmRun' /\ \A t \in Target : Settled(t)
<1>1. \A t \in Target : status[t] = "ignored" /\ status'[t] = "ignored"
  BY DEF CalmInv, CalmRun, Idle
<1>2. Wanted(built)' = {} /\ Running' = {}
  BY <1>1 DEF Wanted, Running
<1>3. CalmRun'
  BY <1>1, <1>2 DEF CalmRun
<1>4. QED
  BY <1>1, <1>3 DEF Settled, Running

LEMMA CalmPull ==
  ASSUME WellOrdered, CalmInv, NEW S \in Pulls, Pull(S), Idle'
  PROVE  CalmFiles' /\ CalmRun'
<1>0. TypeOK /\ CalmFiles /\ Write(S, "whole") /\ S \in SUBSET Node /\ S \subseteq Given
      /\ Target \cup Given \subseteq Node /\ S \cap Target = {}
  BY RulesAssumption, EnvironmentAssumption DEF CalmInv, Pull, WellOrdered
<1>1. /\ \A n \in Node : content'[n] = IF n \in S THEN "whole" ELSE content[n]
      /\ \A t \in Target : \A p \in Prereqs(t) :
           <<t, p>> \in newer' <=> /\ t \notin S
                                   /\ <<t, p>> \in newer \/ (p \in S /\ content[t] # "none")
      /\ \A n \in Node : n \in unsynced' =>
              n \notin S /\ (n \in unsynced \/ Inputs[n] \cap S # {})
  BY <1>0, WriteEffect
<1>2. CalmRun' /\ \A t \in Target : Settled(t)
  BY CalmBetweenRuns DEF Pull
<1>3. ASSUME NEW t \in Target, Clean(t)'
      PROVE  Clean(t) /\ Prereqs(t) \cap S = {}
  <2>1. content'[t] = content[t] /\ t \notin S
    BY <1>0, <1>1
  <2>2. QED
    BY <1>1, <1>3, <2>1 DEF Clean
<1>4. /\ \A n \in Node : content'[n] # "part"
      /\ \A n \in Given : content'[n] = "whole" /\ n \notin unsynced'
  BY <1>0, <1>1, SourcesUnmade DEF CalmFiles
<1>5. ASSUME NEW t \in Target, DeepClean(t)', NEW n \in Outputs(t)
      PROVE  content'[n] = "whole" /\ n \notin unsynced'
  <2>1. DeepClean(t) /\ \A v \in Above[t] \cup {t} : Prereqs(v) \cap S = {}
    BY <1>3, <1>5, RuleFacts DEF DeepClean
  <2>2. n \in Node /\ content[n] = "whole" /\ n \notin unsynced
    BY <1>0, <1>2, <1>5, <2>1, MadeSomewhere DEF CalmFiles
  <2>3. ASSUME NEW m \in Inputs[n], m \in S PROVE FALSE
    <3>1. PICK i \in DOMAIN Recipe(t) : m \in Recipe(t)[i].reads
      BY <1>5, InputsOf
    <3>2. Recipe(t)[i] \in Commands(t) /\ Recipe(t)[i].reads \cap S # {}
      BY <2>3, <3>1 DEF Commands
    <3>3. \E v \in Above[t] \cup {t} : Prereqs(v) \cap S # {}
      BY <3>2, Ordered DEF SourcesListed
    <3>4. QED
      BY <2>1, <3>3
  <2>4. QED
    BY <1>1, <2>2, <2>3
<1>6. ASSUME NEW t \in Target, content'[t] = "none",
             NEW c \in Commands(t), c.kind = "clone", NEW n \in c.writes
      PROVE  content'[n] = "none"
  <2>1. content[t] = "none"
    BY <1>0, <1>1, <1>6
  <2>2. PICK i \in DOMAIN Recipe(t) : c = Recipe(t)[i]
    BY <1>6 DEF Commands
  <2>3. n \in Made(Recipe(t)[i])
    BY <1>6, <2>2 DEF Made
  <2>4. n \in Node /\ n \notin S
    BY <1>0, <2>3, MadeFacts
  <2>5. QED
    BY <1>0, <1>1, <1>6, <2>1, <2>4 DEF CalmFiles
<1>7. CalmFiles'
  BY <1>4, <1>5, <1>6 DEF CalmFiles
<1>8. QED
  BY <1>2, <1>7

LEMMA CalmRemove ==
  ASSUME WellOrdered, CalmInv, NEW S \in Removals, Remove(S), Idle'
  PROVE  CalmFiles' /\ CalmRun'
<1>0. TypeOK /\ CalmFiles /\ S \cap Given = {} /\ Target \cup Given \subseteq Node
  BY RulesAssumption, EnvironmentAssumption DEF CalmInv
<1>1. /\ \A n \in Node : content'[n] = IF n \in S THEN "none" ELSE content[n]
      /\ unsynced' \subseteq unsynced
      /\ newer' = {x \in newer : x[1] \notin S}
  BY DEF Remove
<1>2. CalmRun' /\ \A t \in Target : Settled(t)
  BY CalmBetweenRuns DEF Remove
<1>3. ASSUME NEW t \in Target, Clean(t)'
      PROVE  Clean(t) /\ t \notin S
  BY <1>0, <1>1, <1>3 DEF Clean
<1>4. ASSUME NEW t \in Target, DeepClean(t)', NEW n \in Outputs(t)
      PROVE  content'[n] = "whole" /\ n \notin unsynced'
  <2>1. DeepClean(t) /\ (Above[t] \cup {t}) \cap S = {}
    BY <1>3, <1>4, RuleFacts DEF DeepClean
  <2>2. content[n] = "whole" /\ n \notin unsynced /\ n \in Node
    BY <1>0, <1>2, <1>4, <2>1, MadeSomewhere DEF CalmFiles
  <2>3. n \notin S
    BY <1>4, <2>1, Ordered DEF CleanedWhole
  <2>4. QED
    BY <1>1, <2>2, <2>3
<1>5. /\ \A n \in Node : content'[n] # "part"
      /\ \A n \in Given : content'[n] = "whole" /\ n \notin unsynced'
  BY <1>0, <1>1 DEF CalmFiles
<1>6. ASSUME NEW t \in Target, content'[t] = "none",
             NEW c \in Commands(t), c.kind = "clone", NEW n \in c.writes
      PROVE  content'[n] = "none"
  <2>1. PICK i \in DOMAIN Recipe(t) : c = Recipe(t)[i]
    BY <1>6 DEF Commands
  <2>2. n \in Node
    BY <1>6, <2>1, RuleFacts
  <2>3. t \in S => n \in S
    BY <1>6, <2>1, Ordered DEF ClonesFirst
  <2>4. t \notin S => content[n] = "none"
    BY <1>0, <1>1, <1>6 DEF CalmFiles
  <2>5. QED
    BY <1>1, <2>2, <2>3, <2>4
<1>7. CalmFiles'
  BY <1>4, <1>5, <1>6 DEF CalmFiles
<1>8. QED
  BY <1>2, <1>7

LEMMA CalmStep == WellOrdered /\ Undisturbed /\ CalmInv /\ [Next]_vars => CalmInv'
<1> SUFFICES ASSUME WellOrdered, Undisturbed, CalmInv, [Next]_vars PROVE CalmInv'
  OBVIOUS
<1>0. TypeOK' /\ Idle'
  BY TypeStep, IdleStep DEF CalmInv, CalmRun
<1>1. ASSUME NEW g \in Goals, Invoke(g) PROVE CalmFiles' /\ CalmRun'
  BY <1>0, <1>1, CalmInvoke
<1>2. ASSUME NEW t \in Target, Skip(t) PROVE CalmFiles' /\ CalmRun'
  BY <1>0, <1>2, CalmSkip
<1>3. ASSUME NEW t \in Target, Start(t) PROVE CalmFiles' /\ CalmRun'
  BY <1>0, <1>3, CalmStart
<1>4. ASSUME NEW t \in Target, Succeed(t) PROVE CalmFiles' /\ CalmRun'
  BY <1>0, <1>4, SucceedKeepsFiles, SucceedKeepsRun
<1>5. ASSUME NEW t \in Target, Fail(t) \/ Overlook(t) PROVE FALSE
  BY <1>5, NeverHopeless DEF Fail, Overlook, MayFail, Running, Undisturbed
<1>6. ASSUME Exit PROVE CalmFiles' /\ CalmRun'
  BY <1>0, <1>6, CalmExit
<1>7. ASSUME Crash PROVE FALSE
  BY <1>7 DEF Crash, Undisturbed
<1>8. ASSUME NEW S \in Pulls, Pull(S) PROVE CalmFiles' /\ CalmRun'
  BY <1>0, <1>8, CalmPull
<1>9. ASSUME NEW S \in Removals, Remove(S) PROVE CalmFiles' /\ CalmRun'
  BY <1>0, <1>9, CalmRemove
<1>10. ASSUME UNCHANGED vars PROVE CalmFiles' /\ CalmRun'
  <2>1. /\ UNCHANGED <<content, newer, unsynced>> /\ Running' = Running
        /\ status' = status /\ pc' = pc /\ goal' = goal /\ built' = built
        /\ Wanted(goal)' = Wanted(goal) /\ Wanted(built)' = Wanted(built)
    BY <1>10 DEF vars, Running, Wanted
  <2>2. /\ CalmFiles'
        /\ \A t \in Target : Clean(t)' <=> Clean(t)
        /\ \A t \in Target : DeepClean(t)' <=> DeepClean(t)
    BY <2>1, CalmFilesSame
  <2>3. Wanted(built) \subseteq Target
    BY RuleFacts DEF CalmInv, TypeOK, Wanted
  <2>4. \A t \in Running' : CalmRecipe(t)'
    <3>1. \A t \in Running : t \in Target /\ CalmRecipe(t)
      BY DEF CalmInv, CalmRun, Running
    <3>2. QED
      BY <2>1, <3>1, CalmRecipeSame
  <2>5. CalmRun'
    BY <1>0, <2>1, <2>2, <2>3, <2>4 DEF CalmInv, CalmRun
  <2>6. QED
    BY <2>2, <2>5
<1>11. CalmFiles' /\ CalmRun'
  BY <1>1, <1>2, <1>3, <1>4, <1>5, <1>6, <1>7, <1>8, <1>9, <1>10 DEF Next, Step
<1>12. QED
  BY <1>0, <1>11 DEF CalmInv

\* The invariant holds throughout.
THEOREM CalmInvariant == ASSUME WellOrdered, Undisturbed PROVE Spec => []CalmInv
<1>1. Init => CalmInv
  BY CalmInit
<1>2. CalmInv /\ [Next]_vars => CalmInv'
  BY CalmStep
<1>3. QED
  BY <1>1, <1>2, PTL DEF Spec

-----------------------------------------------------------------------------
(***************************************************************************)
(* The properties once more, and one that failures would break.            *)
(***************************************************************************)

\* After a run that succeeded, all that the rules of its goal are to leave is there and in
\* sync, also where targets are results or come in the middle of a recipe.
THEOREM CalmSuccessBuilds ==
  ASSUME WellOrdered, Undisturbed PROVE Spec => []SuccessMeansBuilt
<1>1. ASSUME CalmInv PROVE SuccessMeansBuilt
  <2>1. SUFFICES ASSUME NEW t \in Wanted(built), NEW n \in Outputs(t)
                 PROVE  content[n] = "whole" /\ n \notin unsynced
    BY DEF SuccessMeansBuilt
  <2>2. t \in Target /\ DeepClean(t) /\ built # {}
    BY <1>1, RuleFacts DEF CalmInv, CalmRun, TypeOK, Wanted
  <2>3. Settled(t)
    BY <1>1, <2>2 DEF CalmInv, CalmRun, Settled
  <2>4. QED
    BY <1>1, <2>2, <2>3 DEF CalmInv, CalmFiles
<1>2. QED
  BY <1>1, CalmInvariant, PTL

\* A command that runs finds what it uses: whole, and written by nobody else.
THEOREM CalmCommandsFindInputs ==
  ASSUME WellOrdered, Undisturbed PROVE Spec => []InputsReady
<1>1. ASSUME CalmInv PROVE InputsReady
  BY <1>1, CalmInputs DEF InputsReady
<1>2. QED
  BY <1>1, CalmInvariant, PTL

\* Two commands never write one file at the same time.
THEOREM CalmWritersDiffer ==
  ASSUME WellOrdered, Undisturbed PROVE Spec => []OneWriter
<1>1. ASSUME CalmInv PROVE OneWriter
  <2>1. SUFFICES ASSUME NEW t \in Running, NEW u \in Running, t # u,
                        NEW n \in Cmd(t).writes, n \in Cmd(u).writes
                 PROVE  FALSE
    BY DEF OneWriter
  <2>2. CASE Cmd(t).kind = "backdate" \/ Cmd(u).kind = "backdate"
    BY <1>1, <2>1, <2>2, CalmBackdates
  <2>3. CASE Cmd(t).kind # "backdate" /\ Cmd(u).kind # "backdate"
    <3>1. /\ t \in Target /\ Cmd(t) \in Commands(t)
          /\ u \in Target /\ Cmd(u) \in Commands(u)
      BY <1>1, CalmRunning DEF Commands, Cmd
    <3>2. n \in Outputs(t) /\ n \in Outputs(u)
      BY <2>1, <2>3, <3>1 DEF Outputs, Made
    <3>3. QED
      BY <2>1, <3>1, <3>2, OneRule
  <2>4. QED
    BY <2>2, <2>3
<1>2. QED
  BY <1>1, CalmInvariant, PTL

\* No run of make gives up: no command is ever without what it needs.
THEOREM NoRunStops ==
  ASSUME WellOrdered, Undisturbed PROVE Spec => []~Stopping
<1>1. ASSUME CalmInv PROVE ~Stopping
  BY <1>1 DEF CalmInv, CalmRun, Stopping
<1>2. QED
  BY <1>1, CalmInvariant, PTL

\* A second run for a goal that was built starts nothing.
THEOREM CalmSecondRunIsIdle ==
  ASSUME WellOrdered, Undisturbed PROVE Spec => NothingTwice
<1>1. ASSUME CalmInv, [Next]_vars, NEW t \in Target, status[t] = "todo", status'[t] = "running"
      PROVE  ~(goal \subseteq built)
  <2>1. Start(t)
    BY <1>1, OnlyStarts DEF CalmInv
  <2>2. t \in Wanted(goal) /\ (goal \subseteq built => t \in Wanted(built))
    BY <1>1 DEF CalmInv, CalmRun, Wanted
  <2>3. t \in Wanted(built) => ~NeedsMaking(t)
    BY <1>1 DEF CalmInv, CalmRun, DeepClean, Clean, NeedsMaking
  <2>4. QED
    BY <2>1, <2>2, <2>3 DEF Start
<1>2. CalmInv /\ [Next]_vars =>
        [\A t \in Target : status[t] = "todo" /\ status'[t] = "running"
                             => ~(goal \subseteq built)]_vars
  BY <1>1
<1>3. QED
  BY <1>2, CalmInvariant, PTL DEF Spec, NothingTwice

\* The weaker conditions are weaker.
LEMMA WellFormedIsOrdered == WellFormed => WellOrdered
<1> SUFFICES ASSUME WellFormed PROVE WellOrdered
  OBVIOUS
<1>1. ASSUME NEW t \in Target
      PROVE  /\ StampedLast(t) /\ WrittenOnce(t) /\ OrderComplete(t) /\ SourcesListed(t)
             /\ CleanedWhole(t) /\ BackdatesOwn(t) /\ Prereqs(t) \subseteq Target \cup Given
             /\ DOMAIN Recipe(t) = 1 .. Len(Recipe(t)) /\ Len(Recipe(t)) \in Nat \ {0}
  BY RuleFacts DEF WellFormed
<1>2. ASSUME NEW t \in Target, NEW i \in DOMAIN Recipe(t)
      PROVE  /\ Recipe(t)[i].kind \in {"tool", "atomic", "compiler", "backdate"}
             /\ Made(Recipe(t)[i]) \cap (Target \cup Given) \subseteq {t}
             /\ i = Len(Recipe(t)) => t \in Made(Recipe(t)[i])
  <2>1. t \notin Given
    BY RulesAssumption
  <2>2. Recipe(t)[i].kind \in {"tool", "atomic", "compiler", "backdate"}
    BY <1>1 DEF StampedLast
  <2>3. \A n \in Made(Recipe(t)[i]) : n \notin Given
    BY SourcesUnwritten DEF Writes
  <2>4. IF i = Len(Recipe(t)) THEN Made(Recipe(t)[i]) = {t}
                              ELSE Made(Recipe(t)[i]) \cap Target = {}
    BY <1>1 DEF StampedLast, Made
  <2>5. QED
    BY <2>2, <2>3, <2>4
<1>3. ASSUME NEW t \in Target PROVE MakesTarget(t)
  BY <1>1, <1>2 DEF MakesTarget, Commands
<1>4. ASSUME NEW t \in Target PROVE ClonesFirst(t)
  BY <1>2 DEF ClonesFirst
<1>5. ASSUME NEW t \in Target, NEW u \in Target \ {t} PROVE Outputs(t) \cap Outputs(u) = {}
  BY <1>1, OutputsOf DEF WrittenOnce, Writes
<1>6. ASSUME NEW t \in Target, NEW i \in DOMAIN Recipe(t), NEW j \in DOMAIN Recipe(t), i <= j,
             NEW n \in Recipe(t)[i].reads, n \in Made(Recipe(t)[j])
      PROVE  FALSE
  <2>1. n \notin Given /\ n \in Outputs(t)
    BY <1>6, OutputsOf, SourcesUnwritten DEF Writes
  <2>2. CASE \E u \in Above[t] : n \in Outputs(u)
    BY <1>5, <2>1, <2>2, RuleFacts
  <2>3. CASE \E k \in DOMAIN Recipe(t) : k < i /\ n \in Made(Recipe(t)[k])
    <3>1. PICK k \in DOMAIN Recipe(t) : k < i /\ n \in Made(Recipe(t)[k])
      BY <2>3
    <3>2. k = j
      BY <1>1, <1>6, <3>1 DEF WrittenOnce
    <3>3. QED
      BY <1>1, <1>6, <3>1, <3>2
  <2>4. QED
    BY <1>1, <1>6, <2>1, <2>2, <2>3 DEF OrderComplete
<1>7. ASSUME NEW t \in Target PROVE OwnOutputs(t) /\ ReadsInOrder(t) /\ PrereqsMade(t)
  BY <1>1, <1>5, <1>6 DEF OwnOutputs, ReadsInOrder, PrereqsMade
<1>8. QED
  BY <1>1, <1>3, <1>4, <1>7 DEF WellOrdered, WellFormed
=============================================================================
