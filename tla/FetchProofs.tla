------------------------------ MODULE FetchProofs ------------------------------
(***************************************************************************)
(* Proofs about what fetches from the network: the get-file recipe, and    *)
(* the loops that deepen a clone.                                          *)
(***************************************************************************)
EXTENDS GetFile, Deepen, TLAPS

-----------------------------------------------------------------------------
(***************************************************************************)
(* Proofs about the get-file recipe, for any number of releases, any       *)
(* number of runs of wget and every point at which a run may be stopped.   *)
(***************************************************************************)

(***************************************************************************)
(* The inductive invariant.  Recipe says, for each command, what the       *)
(* commands before it have made of the three files.                        *)
(***************************************************************************)
Same(f, g) == f.size = g.size /\ f.ver = g.ver

BeforeMove == pc = "mv" =>
  /\ seen = arc.mtime
  /\ old = IF Exists(arc) THEN arc ELSE bak

Transferring ==
  /\ pc \in {"mv", "wget"} => clock < MaxClock
  /\ pc \in {"wget", "transfer", "test", "restore", "replace", "rmEmpty"} =>
       arc = NoFile /\ bak = old
  /\ pc = "transfer" => neu.size \in {"empty", "cut"}
  /\ pc \in {"test", "restore", "replace", "rmEmpty"} => neu = got /\ Exists(got)

AfterComparison ==
  /\ pc = "restore" => NotEmpty(got) /\ Same(got, bak)
  /\ pc = "replace" => NotEmpty(got) /\ ~(got.size = "whole" /\ Same(got, bak))
  /\ pc = "rmEmpty" => got.size = "empty"
  /\ pc = "rmSame"  => NotEmpty(got) /\ Same(got, old) /\ arc = old /\ bak = NoFile
  /\ pc = "rmBak"   => /\ NotEmpty(got) /\ ~(got.size = "whole" /\ Same(got, old))
                       /\ arc = got /\ bak = old

Outcome == pc = "report" =>
  \/ NotEmpty(got) /\ Same(got, old) /\ arc = old /\ bak = NoFile
  \/ /\ NotEmpty(got) /\ ~(got.size = "whole" /\ Same(got, old))
     /\ arc = got /\ bak = NoFile
  \/ got.size = "empty" /\ arc = NoFile /\ bak = old

NoEmptyFile == arc.size # "empty" /\ bak.size # "empty"

Recipe == /\ TypeOK /\ BeforeMove /\ Transferring
          /\ AfterComparison /\ Outcome /\ NoEmptyFile

(***************************************************************************)
(* What every file of the model looks like.                                *)
(***************************************************************************)
LEMMA FileShape ==
  ASSUME NEW f \in File
  PROVE  /\ f = [size |-> f.size, ver |-> f.ver, mtime |-> f.mtime]
         /\ f.size \in {"none", "empty", "cut", "whole"}
         /\ f.ver \in 0 .. MaxVersion /\ f.mtime \in 0 .. MaxClock
         /\ f.size = "none" <=> f = NoFile
BY BoundsAssumption DEF File, NoFile, EmptyFile, CutFile, Whole, Versions

LEMMA FilesExist ==
  /\ NoFile \in File
  /\ \A v \in Versions, t \in 1 .. MaxClock :
       EmptyFile(t) \in File /\ CutFile(v, t) \in File /\ Whole(v, t) \in File
BY DEF File

\* The answer of cmp agrees with the contents, and is definite for whole files.
LEMMA Answers ==
  ASSUME NEW f \in File, NEW g \in File, NEW same \in SameContent(f, g)
  PROVE  /\ same \in BOOLEAN
         /\ same => Same(f, g)
         /\ ~same => ~(f.size = "whole" /\ Same(f, g))
BY FileShape DEF SameContent, Same

THEOREM RecipeInit == Init => Recipe
BY BoundsAssumption, FilesExist
   DEF Init, Recipe, TypeOK, BeforeMove, Transferring, AfterComparison, Outcome,
       NoEmptyFile, Versions, NoFile, Commands

THEOREM RecipeStep == Recipe /\ [Next]_vars => Recipe'
<1> SUFFICES ASSUME Recipe, [Next]_vars PROVE Recipe'
  OBVIOUS
<1> USE DEF Recipe, TypeOK, Commands
<1>0. /\ arc = [size |-> arc.size, ver |-> arc.ver, mtime |-> arc.mtime]
      /\ arc.ver \in 0 .. MaxVersion /\ arc.mtime \in 0 .. MaxClock /\ bak.mtime \in 0 .. MaxClock
      /\ arc.size = "none" <=> arc = NoFile
      /\ neu.size \in {"none", "empty", "cut", "whole"}
      /\ got.size \in {"none", "empty", "cut", "whole"}
  BY FileShape
<1>1. ASSUME NEW forced \in BOOLEAN, Start(forced) PROVE Recipe'
  BY <1>0, <1>1, FilesExist
     DEF Start, At, BeforeMove, Transferring, AfterComparison, Outcome, NoEmptyFile
<1>2. CASE MoveAside
  BY <1>0, <1>2, FilesExist
     DEF MoveAside, At, BeforeMove, Transferring, AfterComparison, Outcome, NoEmptyFile,
         Exists, NoFile
<1>3. CASE OpenNeu
  <2>1. clock' \in 1 .. MaxClock
    BY <1>3, BoundsAssumption DEF OpenNeu, At, Transferring
  <2>2. neu' \in File /\ neu'.size = "empty"
    BY <1>3, <2>1, FilesExist DEF OpenNeu, EmptyFile, File
  <2>3. QED
    BY <1>3, <2>1, <2>2
       DEF OpenNeu, At, BeforeMove, Transferring, AfterComparison, Outcome, NoEmptyFile
<1>4. CASE ReceiveSome
  <2>1. neu' \in File /\ neu'.size = "cut"
    BY <1>4, FilesExist DEF ReceiveSome, CutFile
  <2>2. QED
    BY <1>4, <2>1
       DEF ReceiveSome, BeforeMove, Transferring, AfterComparison, Outcome, NoEmptyFile
<1>5. ASSUME NEW all \in BOOLEAN, EndTransfer(all) PROVE Recipe'
  <2>1. neu' \in File /\ neu'.size # "none"
    BY <1>5, FilesExist DEF EndTransfer, At, Transferring, Whole
  <2>2. QED
    BY <1>5, <2>1
       DEF EndTransfer, At, BeforeMove, Transferring, AfterComparison, Outcome,
           NoEmptyFile, Exists
<1>6. ASSUME NEW same \in BOOLEAN, Compare(same) PROVE Recipe'
  <2>1. CASE ~NotEmpty(neu) /\ pc' = "rmEmpty"
    BY <1>0, <1>6, <2>1
       DEF Compare, BeforeMove, Transferring, AfterComparison, Outcome, NoEmptyFile,
           Exists, NotEmpty
  <2>2. CASE NotEmpty(neu) /\ same \in SameContent(neu, bak)
             /\ pc' = IF same THEN "restore" ELSE "replace"
    <3>1. /\ same => Same(neu, bak)
          /\ ~same => ~(neu.size = "whole" /\ Same(neu, bak))
      BY <2>2, Answers
    <3>2. QED
      BY <1>6, <2>2, <3>1
         DEF Compare, BeforeMove, Transferring, AfterComparison, Outcome, NoEmptyFile,
             Exists, NotEmpty, Same
  <2>3. QED
    BY <1>6, <2>1, <2>2 DEF Compare
<1>7. CASE Restore
  BY <1>7, FilesExist
     DEF Restore, At, BeforeMove, Transferring, AfterComparison, Outcome, NoEmptyFile,
         NoFile
<1>8. CASE Replace
  BY <1>8, FilesExist
     DEF Replace, At, BeforeMove, Transferring, AfterComparison, Outcome, NoEmptyFile,
         NotEmpty
<1>9. CASE RemoveNeu
  BY <1>9, FilesExist
     DEF RemoveNeu, At, BeforeMove, Transferring, AfterComparison, Outcome, NoEmptyFile
<1>10. CASE RemoveBak
  BY <1>10, FilesExist
     DEF RemoveBak, At, BeforeMove, Transferring, AfterComparison, Outcome, NoEmptyFile,
         NoFile
<1>11. CASE Report
  BY <1>11
     DEF Report, At, BeforeMove, Transferring, AfterComparison, Outcome, NoEmptyFile
<1>12. CASE Unpack
  <2>1. tree' \in 0 .. MaxVersion
    BY <1>0, <1>12, BoundsAssumption DEF Unpack
  <2>2. QED
    BY <1>12, <2>1
       DEF Unpack, BeforeMove, Transferring, AfterComparison, Outcome, NoEmptyFile
<1>13. CASE UnpackStopped
  BY <1>13, BoundsAssumption
     DEF UnpackStopped, BeforeMove, Transferring, AfterComparison, Outcome, NoEmptyFile
<1>14. CASE Kill
  BY <1>14
     DEF Kill, BeforeMove, Transferring, AfterComparison, Outcome, NoEmptyFile
<1>15. CASE Interrupt
  BY <1>15, FilesExist
     DEF Interrupt, BeforeMove, Transferring, AfterComparison, Outcome, NoEmptyFile,
         NoFile
<1>16. CASE Publish
  BY <1>16
     DEF Publish, BeforeMove, Transferring, AfterComparison, Outcome, NoEmptyFile
<1>17. CASE UNCHANGED vars
  BY <1>17
     DEF vars, BeforeMove, Transferring, AfterComparison, Outcome, NoEmptyFile
<1>18. QED
  BY <1>1, <1>2, <1>3, <1>4, <1>5, <1>6, <1>7, <1>8, <1>9, <1>10, <1>11, <1>12,
     <1>13, <1>14, <1>15, <1>16, <1>17 DEF Next

\* The inductive invariant holds in every reachable state.
THEOREM RecipeAlways == Spec => []Recipe
BY RecipeInit, RecipeStep, PTL DEF Spec

-----------------------------------------------------------------------------
(***************************************************************************)
(* What follows for the properties of GetFile.                             *)
(***************************************************************************)

\* A whole reply ends up as the archive (Makefile:126-142), for any number of
\* releases, runs and kills.
THEOREM WholeReply == Spec => []WholeReplyIsInstalled
<1>1. Recipe => WholeReplyIsInstalled
  BY DEF Recipe, Outcome, WholeReplyIsInstalled, Same, NotEmpty
<1>2. QED
  BY <1>1, RecipeAlways, PTL

\* An unchanged archive keeps its modification time.
THEOREM UnchangedArchive == Spec => []UnchangedArchiveKeepsItsTime
<1>1. Recipe => UnchangedArchiveKeepsItsTime
  BY DEF Recipe, Outcome, UnchangedArchiveKeepsItsTime, Same
<1>2. QED
  BY <1>1, RecipeAlways, PTL

\* A transfer that brings nothing leaves the former archive in f.bak and nothing in f.
THEOREM EmptyReply == Spec => []EmptyReplyKeepsFormer
<1>1. Recipe => EmptyReplyKeepsFormer
  BY DEF Recipe, Outcome, EmptyReplyKeepsFormer, Same, NotEmpty, NoEmptyFile
<1>2. QED
  BY <1>1, RecipeAlways, PTL

\* The variables keep their types.
THEOREM Typed == Spec => []TypeOK
<1>1. Recipe => TypeOK
  BY DEF Recipe
<1>2. QED
  BY <1>1, RecipeAlways, PTL

\* Neither a kill nor Ctrl-C loses the archive before the comparison.
THEOREM NotLost == Spec => LostOnlyAfterComparison
<1> DEFINE Lost == HasCopy /\ ~HasCopy' =>
                      pc \in {"rmSame", "rmBak", "report"} /\ pc' = "idle"
<1>1. ASSUME Recipe, [Next]_vars PROVE [Lost]_vars
  <2> SUFFICES ASSUME HasCopy, ~HasCopy', Next
               PROVE  pc \in {"rmSame", "rmBak", "report"} /\ pc' = "idle"
    BY <1>1 DEF vars, HasCopy
  <2> USE DEF HasCopy, NotEmpty
  <2>0. /\ arc # NoFile => arc.size \in {"empty", "cut", "whole"}
        /\ NoFile.size = "none"
    BY <1>1, FileShape DEF Recipe, TypeOK, NoFile
  <2>1. ~ \/ \E forced \in BOOLEAN : Start(forced)
          \/ \E all \in BOOLEAN : EndTransfer(all)
          \/ \E same \in BOOLEAN : Compare(same)
          \/ OpenNeu \/ ReceiveSome \/ RemoveNeu \/ Report
          \/ Unpack \/ UnpackStopped \/ Kill \/ Publish
    BY DEF Start, EndTransfer, Compare, OpenNeu, ReceiveSome, RemoveNeu, Report,
           Unpack, UnpackStopped, Kill, Publish
  <2>2. ~MoveAside
    <3>1. arc.size \in {"none", "cut", "whole"}
      BY <1>1, FileShape DEF Recipe, TypeOK, NoEmptyFile
    <3>2. QED
      BY <3>1 DEF MoveAside, Exists
  <2>3. ~Restore
    BY <1>1 DEF Restore, At, Recipe, AfterComparison, Transferring
  <2>4. ~Replace
    BY <1>1 DEF Replace, At, Recipe, AfterComparison, Transferring
  <2>5. ~RemoveBak
    BY <1>1 DEF RemoveBak, At, Recipe, AfterComparison
  <2>6. CASE Interrupt
    BY <1>1, <2>0, <2>6
       DEF Interrupt, Recipe, TypeOK, Commands, BeforeMove, Transferring
  <2>7. QED
    BY <2>1, <2>2, <2>3, <2>4, <2>5, <2>6 DEF Next
<1>2. QED
  BY <1>1, RecipeAlways, PTL DEF Spec, LostOnlyAfterComparison

-----------------------------------------------------------------------------
(***************************************************************************)
(* The stamp of the unpacked directory.  A file f is Honest when make, if  *)
(* f were the archive, would be right to take the directory for up to      *)
(* date.  f.bak may be dishonest only while it is about to be overwritten. *)
(***************************************************************************)
Honest(f) ==
  Exists(f) /\ ~(stamp < f.mtime \/ stamp = 0) => f.size = "whole" /\ tree = f.ver

StampInv ==
  /\ stamp <= clock
  /\ pc \notin {"idle", "mv", "wget"} => stamp < clock
  /\ pc \in {"transfer", "test", "restore", "replace"} => neu.mtime = clock
  /\ arc.mtime <= clock /\ bak.mtime <= clock
  /\ Honest(arc)
  /\ Honest(bak) \/ (Exists(arc) /\ pc \in {"idle", "mv"})

LEMMA StampStep ==
  ASSUME ~LastModified, Recipe, StampInv, [Next]_vars
  PROVE  StampInv'
<1> USE DEF StampInv, Honest
<1>0. /\ arc.mtime \in 0 .. MaxClock /\ bak.mtime \in 0 .. MaxClock
      /\ neu.mtime \in 0 .. MaxClock
      /\ clock \in 1 .. MaxClock /\ stamp \in 0 .. MaxClock /\ MaxClock \in Nat
      /\ NoFile.size = "none" /\ NoFile.mtime = 0
  BY FileShape, BoundsAssumption DEF Recipe, TypeOK, NoFile
<1>1. ASSUME NEW forced \in BOOLEAN, Start(forced) PROVE StampInv'
  BY <1>1 DEF Start, At
<1>2. CASE MoveAside
  BY <1>0, <1>2 DEF MoveAside, At, Exists
<1>3. CASE OpenNeu
  BY <1>0, <1>3 DEF OpenNeu, At, EmptyFile
<1>4. CASE ReceiveSome
  BY <1>0, <1>4 DEF ReceiveSome, CutFile, Recipe, Transferring
<1>5. ASSUME NEW all \in BOOLEAN, EndTransfer(all) PROVE StampInv'
  BY <1>0, <1>5 DEF EndTransfer, At, Whole
<1>6. ASSUME NEW same \in BOOLEAN, Compare(same) PROVE StampInv'
  BY <1>6 DEF Compare
<1>7. CASE Restore
  BY <1>0, <1>7 DEF Restore, At, Exists, Recipe, Transferring
<1>8. CASE Replace
  BY <1>0, <1>8 DEF Replace, At, Exists, Recipe, Transferring
<1>9. CASE RemoveNeu
  BY <1>9 DEF RemoveNeu, At
<1>10. CASE RemoveBak
  BY <1>0, <1>10 DEF RemoveBak, At, Exists
<1>11. CASE Report
  BY <1>11 DEF Report, At
<1>12. CASE Unpack
  BY <1>0, <1>12 DEF Unpack, Outdated
<1>13. CASE UnpackStopped
  BY <1>0, <1>13 DEF UnpackStopped, Outdated
<1>14. CASE Kill
  BY <1>14 DEF Kill, Recipe, BeforeMove
<1>15. CASE Interrupt
  BY <1>0, <1>15 DEF Interrupt, Exists, Recipe, BeforeMove
<1>16. CASE Publish
  BY <1>16 DEF Publish
<1>17. CASE UNCHANGED vars
  BY <1>17 DEF vars
<1>18. QED
  BY <1>1, <1>2, <1>3, <1>4, <1>5, <1>6, <1>7, <1>8, <1>9, <1>10, <1>11, <1>12,
     <1>13, <1>14, <1>15, <1>16, <1>17 DEF Next

\* When wget gives its files the time of their arrival, the stamp of the unpacked
\* directory never hides a broken, missing or changed archive.
THEOREM UpToDateTree ==
  ASSUME ~LastModified
  PROVE  Spec => []UpToDateTreeIsWhole
<1>1. Init => StampInv
  BY BoundsAssumption DEF Init, StampInv, Honest, NoFile, Exists
<1>2. Recipe /\ StampInv /\ [Next]_vars => StampInv'
  BY StampStep
<1>3. StampInv => UpToDateTreeIsWhole
  BY DEF StampInv, Honest, UpToDateTreeIsWhole, Outdated
<1>4. QED
  BY <1>1, <1>2, <1>3, RecipeAlways, PTL DEF Spec

-----------------------------------------------------------------------------
(***************************************************************************)
(* The loops that deepen a clone do not ask for a depth that git refuses,  *)
(* unless the network was away: for every width of integers in which the   *)
(* depth that reaches the whole history is not yet negative.               *)
(*                                                                         *)
(* The argument: with the network there, a try that is not enough is less  *)
(* than the history, and twice that is still in range.                     *)
(***************************************************************************)

Loop == {"stopped", "pull", "deepen", "found"}

CloneTyped ==
  /\ target \in {"none", "update", "v"} /\ loop \in Loop
  /\ need \in Nat /\ depth \in Nat /\ try \in 0 .. Width - 1
  /\ network \in BOOLEAN /\ outage \in BOOLEAN

\* Whoever has had the network all the time has a depth in range, or is about to stop.
InRange ==
  ~outage => /\ network
             /\ LoopAt("pull") => try = First
             /\ LoopAt("deepen") /\ need <= History =>
                  Positive(try) \/ (target = "v" /\ depth >= need)

DeepenInv == CloneTyped /\ InRange

-----------------------------------------------------------------------------
LEMMA FirstPositive ==
  ASSUME DepthsFit
  PROVE  Positive(First) /\ First \in 0 .. Width - 1
  BY DEF DepthsFit, Positive

\* What a try leaves behind, and the next one.
LEMMA OneTry ==
  ASSUME DepthsFit, CloneTyped
  PROVE  /\ Double \in 0 .. Width - 1
         /\ Pulled \in Nat
         /\ network /\ Positive(try) /\ Pulled < History => Pulled = try /\ Positive(Double)
         /\ network /\ Positive(try) => Pulled <= History
  <1> USE DEF DepthsFit, CloneTyped
  <1>1. Double \in 0 .. Width - 1  BY DEF Double
  <1>2. Pulled \in Nat  BY DEF Pulled, Positive, Smaller
  <1>3. ASSUME network, Positive(try), Pulled < History PROVE Pulled = try /\ Positive(Double)
    <2>1. Pulled = try /\ try < History  BY <1>3 DEF Pulled, Smaller
    <2>2. try + try \in 1 .. Width - 1 /\ try + try < Width \div 2
      BY <1>3, <2>1 DEF Positive
    <2>3. Double = try + try  BY <2>2 DEF Double
    <2> QED BY <2>1, <2>2, <2>3 DEF Positive
  <1>4. ASSUME network, Positive(try) PROVE Pulled <= History
    BY <1>4 DEF Pulled, Smaller
  <1> QED BY <1>1, <1>2, <1>3, <1>4

LEMMA DeepenInit ==
  ASSUME DepthsFit, CloneInit
  PROVE  DeepenInv
  <1> USE DEF CloneInit
  <1>1. CloneTyped  BY FirstPositive DEF DepthsFit, CloneTyped, Loop
  <1>2. InRange  BY DEF InRange, LoopAt
  <1> QED BY <1>1, <1>2 DEF DeepenInv

LEMMA DeepenStep ==
  ASSUME DepthsFit, DeepenInv, [CloneNext]_cloneVars
  PROVE  DeepenInv'
  <1> USE DEF DeepenInv, LoopAt
  <1>1. ASSUME NEW t \in {"update", "v"}, Begin(t) PROVE DeepenInv'
    BY <1>1, FirstPositive DEF Begin, DepthsFit, CloneTyped, InRange, Loop, Positive
  <1>2. CASE Pull
    BY <1>2, FirstPositive DEF Pull, CloneTyped, InRange, Loop, Positive
  <1>3. CASE UpdateLoop
    <2> USE <1>3 DEF UpdateLoop
    <2>1. CloneTyped'  BY OneTry DEF CloneTyped, Loop
    <2>2. InRange'
      <3>1. CASE Merges  BY <3>1 DEF InRange
      <3>2. CASE ~Merges
        <4> SUFFICES ASSUME ~outage, need <= History PROVE network /\ Positive(Double)
          BY <3>2 DEF InRange, Positive
        <4>1. network /\ Positive(try)  BY DEF InRange
        <4>2. Pulled < need  BY <3>2, <4>1, OneTry DEF Merges, CloneTyped
        <4> QED BY <4>1, <4>2, OneTry DEF CloneTyped, DepthsFit
      <3> QED BY <3>1, <3>2
    <2> QED BY <2>1, <2>2
  <1>4. CASE DateLoop
    <2> USE <1>4 DEF DateLoop
    <2>1. CASE depth >= need
      BY <2>1 DEF CloneTyped, InRange, Loop
    <2>2. CASE ~(depth >= need)
      <3> USE <2>2
      <3>1. CloneTyped'  BY OneTry DEF CloneTyped
      <3>2. InRange'
        <4> SUFFICES ASSUME ~outage, need <= History
                     PROVE  network /\ (Positive(Double) \/ Pulled >= need)
          BY DEF InRange, Positive
        <4>1. network /\ Positive(try)  BY DEF InRange
        <4>2. CASE Pulled < History  BY <4>1, <4>2, OneTry
        <4>3. CASE ~(Pulled < History)
          BY <4>1, <4>3, OneTry DEF CloneTyped, DepthsFit
        <4> QED BY <4>2, <4>3
      <3> QED BY <3>1, <3>2
    <2> QED BY <2>1, <2>2
  <1>5. CASE NetworkChanges
    BY <1>5 DEF NetworkChanges, CloneTyped, InRange, Loop
  <1>6. CASE KillLoop
    BY <1>6 DEF KillLoop, CloneTyped, InRange, Loop
  <1>7. CASE UNCHANGED cloneVars
    BY <1>7 DEF cloneVars, CloneTyped, InRange, Loop, Positive
  <1> QED BY <1>1, <1>2, <1>3, <1>4, <1>5, <1>6, <1>7 DEF CloneNext, CloneStep

-----------------------------------------------------------------------------
\* The inductive invariant (294, 1121-1122).
THEOREM LoopsSafe == ASSUME DepthsFit PROVE CloneSpec => []DeepenInv
  <1>1. CloneInit => DeepenInv  BY DeepenInit
  <1>2. DeepenInv /\ [CloneNext]_cloneVars => DeepenInv'  BY DeepenStep
  <1> QED BY <1>1, <1>2, PTL DEF CloneSpec

\* Only an outage, or a commit that does not exist, lets DEPTH overflow in vain.
THEOREM NoOverflow == ASSUME DepthsFit PROVE CloneSpec => []OverflowNeedsOutage
  <1>1. DeepenInv => OverflowNeedsOutage
    BY DEF DeepenInv, InRange, CloneTyped, DepthsFit, OverflowNeedsOutage, Hopeless, LoopAt
  <1> QED BY <1>1, LoopsSafe, PTL
================================================================================
