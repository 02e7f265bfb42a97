------------------------------- MODULE SdkProofs -------------------------------
(***************************************************************************)
(* When sdk/install reports success, the SDK is installed, although most of*)
(* its lines do not look at the status of their commands: for any number of*)
(* SDKs, each with an installer of its own, and for all scripts of the form*)
(* that the .sdk files have.                                               *)
(*                                                                         *)
(* The argument: if the tree is whole, every line leaves whole files, one  *)
(* after the other.  If it is neither whole nor cut off, nothing was ever  *)
(* fetched, so that no file of the tree was ever copied, and the script    *)
(* fails at the latest where it converts the first of these.               *)
(***************************************************************************)
EXTENDS SdkInstall, FiniteSetTheorems, TLAPS

-----------------------------------------------------------------------------
(***************************************************************************)
(* The invariant.                                                          *)
(***************************************************************************)
UrlPhase   == {"find archive", "find project", "fetch", "fetching", "discard",
               "find tree", "unpack", "unpacking", "sync"}
StubsPhase == {"compile", "open", "flock", "ar", "ar writes", "rm lock"}
Phase      == {"stopped", "copy", "edit", "convert"} \cup UrlPhase \cup StubsPhase

Typed ==
  /\ source \in [Sdk -> {"none", "part", "whole"}]
  /\ tree \in [Sdk -> {"none", "empty", "part", "whole"}]
  /\ content \in [File -> {"none", "part", "whole"}]
  /\ line \in [Installer -> Nat] /\ pc \in [Installer -> Phase]
  /\ result \in [Installer -> {"none", "ok", "failed"}]

\* pc is a step of the line.
InLine(i) ==
  LET s == sdkOf[i]
  IN  \/ pc[i] = "stopped" /\ line[i] = 0
      \/ pc[i] \in UrlPhase /\ line[i] = 1
      \/ /\ pc[i] \in {"copy", "edit", "convert"} /\ line[i] \in 2 .. Len(Script[s])
         /\ Script[s][line[i]].op = pc[i]
      \/ /\ pc[i] \in StubsPhase /\ line[i] \in 2 .. Len(Script[s])
         /\ Script[s][line[i]].op = "stubs"

\* The lines before k have left whole files.
LinesDone(s, k) ==
  \A j \in 1 .. k - 1 :
    Script[s][j].op # "stubs" => \A f \in Script[s][j].writes : content[f] = "whole"

\* As long as nothing was fetched, nothing was copied.
NothingFetched(i) ==
  LET s == sdkOf[i]
  IN  source[s] = "none" \/ pc[i] \in {"fetch", "fetching", "discard"}
        => /\ tree[s] \in {"none", "empty"}
           /\ \A f \in Outputs(s) : CopiedOnly(s, f) => content[f] = "none"

\* Without a tree the script does not get past a guard.
StopsAtGuard(i) ==
  LET s == sdkOf[i]
  IN  line[i] >= 2 /\ tree[s] \in {"none", "empty"}
        => /\ source[s] = "none"
           /\ \A g \in 2 .. Len(Script[s]) : Guard(s, g) =>
                line[i] <= g /\ (line[i] = g => pc[i] \in {"convert", "compile"})

\* With a whole tree every line leaves whole files.
WholeSoFar(i) ==
  line[i] >= 2 /\ tree[sdkOf[i]] = "whole" => LinesDone(sdkOf[i], line[i])

Unpacking(i) == pc[i] = "unpacking" => tree[sdkOf[i]] = "part"

Reported(i) ==
  result[i] = "ok" /\ At(i, "stopped") => FilesInstalled(sdkOf[i]) \/ CutOff(sdkOf[i])

InstallerInv(i) ==
  /\ InLine(i) /\ NothingFetched(i) /\ StopsAtGuard(i) /\ WholeSoFar(i)
  /\ Unpacking(i) /\ Reported(i)

SdkInv == Typed /\ \A i \in Installer : InstallerInv(i)

-----------------------------------------------------------------------------
LEMMA LineOfScript ==
  ASSUME NEW s \in Sdk, NEW k \in 1 .. Len(Script[s])
  PROVE  Script[s][k] \in Line /\ Script[s][k].writes \subseteq File
  <1>1. Script[s] \in Seq(Line)
    BY SdkAssumption
  <1>2. Script[s][k] \in Line
    BY <1>1
  <1> QED BY <1>2 DEF Line

\* The shapes of a step: what becomes of line, pc and result, and of the files.
LEMMA Moves ==
  ASSUME Typed, NEW j \in Installer,
         \/ \E p \in Phase : Goto(j, p)
         \/ \E st \in {"ok", "failed"} : NextLine(j, st)
         \/ ExitScript(j)
  PROVE  /\ line' \in [Installer -> Nat] /\ pc' \in [Installer -> Phase]
         /\ result' \in [Installer -> {"none", "ok", "failed"}]
         /\ \A i \in Installer : i # j =>
              line'[i] = line[i] /\ pc'[i] = pc[i] /\ result'[i] = result[i]
  <1>1. line \in [Installer -> Nat] /\ pc \in [Installer -> Phase]
        /\ result \in [Installer -> {"none", "ok", "failed"}]
    BY DEF Typed
  <1>2. CASE \E p \in Phase : Goto(j, p)
    BY <1>1, <1>2 DEF Goto
  <1>3. CASE ExitScript(j)
    BY <1>1, <1>3 DEF ExitScript, Phase
  <1>4. ASSUME NEW st \in {"ok", "failed"}, NextLine(j, st)
        PROVE  /\ line' \in [Installer -> Nat] /\ pc' \in [Installer -> Phase]
               /\ result' \in [Installer -> {"none", "ok", "failed"}]
               /\ \A i \in Installer : i # j =>
                    line'[i] = line[i] /\ pc'[i] = pc[i] /\ result'[i] = result[i]
    <2>1. CASE line[j] < Len(Script[sdkOf[j]])
      <3> DEFINE n == Script[sdkOf[j]][line[j] + 1]
      <3>1. n \in Line
        <4>1. line[j] + 1 \in 1 .. Len(Script[sdkOf[j]]) /\ sdkOf[j] \in Sdk
          BY <2>1, <1>1, SdkAssumption
        <4> QED BY <4>1, LineOfScript
      <3>2. Entry(n) \in Phase
        BY <3>1 DEF Entry, Line, Phase, UrlPhase, StubsPhase
      <3> QED BY <1>1, <1>4, <2>1, <3>2 DEF NextLine
    <2>2. CASE ~(line[j] < Len(Script[sdkOf[j]]))
      BY <1>1, <1>4, <2>2 DEF NextLine, Phase
    <2> QED BY <2>1, <2>2
  <1> QED BY <1>2, <1>3, <1>4

-----------------------------------------------------------------------------
(***************************************************************************)
(* Types, whatever the form of the scripts.  What is not a matter of course*)
(* is the lock: whoever has it has the file open, and a new lock file can  *)
(* always be made.                                                         *)
(***************************************************************************)
FilesTyped ==
  /\ source \in [Sdk -> {"none", "part", "whole"}]
  /\ tree \in [Sdk -> {"none", "empty", "part", "whole"}]
  /\ content \in [File -> {"none", "part", "whole"}]

WithinScript == \A i \in Installer : line[i] \in 0 .. Len(Script[sdkOf[i]])

LockTyped ==
  /\ path \in LockFile \cup {None} /\ open \in [Installer -> LockFile \cup {None}]
  /\ owner \in [LockFile -> Installer \cup {None}]

\* Whoever has the lock has opened its file and runs ar.
HoldersWork ==
  \A l \in LockFile : owner[l] # None =>
    open[owner[l]] = l /\ pc[owner[l]] \in {"ar", "ar writes"}

TypeInv == Typed /\ WithinScript /\ LockTyped /\ HoldersWork

\* There are more files than installers.
LEMMA FreshLock ==
  ASSUME LockTyped, path = None
  PROVE  \E l \in LockFile : l # path /\ \A j \in Installer : open[j] # l
  <1> DEFINE n == Cardinality(Installer)
  <1>1. n \in Nat
    BY SdkAssumption, FS_CardinalityType
  <1>2. SUFFICES ASSUME \A l \in LockFile : \E j \in Installer : open[j] = l PROVE FALSE
    BY SdkAssumption, <1>1 DEF LockFile
  <1> DEFINE f == [l \in LockFile |-> CHOOSE j \in Installer : open[j] = l]
  <1>3. f \in [LockFile -> Installer] /\ \A l \in LockFile : open[f[l]] = l
    BY <1>2
  <1>4. IsFiniteSet(LockFile) /\ Cardinality(LockFile) = n + 1
    BY <1>1, FS_Interval DEF LockFile
  <1>5. PICK k, l \in LockFile : k # l /\ f[k] = f[l]
    <2> HIDE DEF f
    <2>1. Cardinality(Installer) < Cardinality(LockFile)
      BY <1>1, <1>4
    <2> QED BY <1>3, <1>4, <2>1, SdkAssumption, FS_PigeonHole
  <1> HIDE DEF f
  <1> QED BY <1>3, <1>5

LEMMA NoneIsNobody == None \notin Installer
  BY SdkAssumption

LEMMA TypesMove ==
  ASSUME TypeInv, NEW j \in Installer,
         \/ UNCHANGED files
         \/ \E how \in {"none", "part", "whole"} : Source(j, how)
         \/ \E how \in {"none", "empty", "part", "whole"} : Tree(j, how)
         \/ \E how \in {"part", "whole"} : Install(Current(j).writes, how),
         \/ \E p \in Phase : Goto(j, p)
         \/ \E st \in {"ok", "failed"} : NextLine(j, st)
         \/ ExitScript(j)
  PROVE  /\ Typed' /\ WithinScript'
         /\ \A i \in Installer : i # j => pc'[i] = pc[i]
  <1>1. FilesTyped'
    <2>1. sdkOf[j] \in Sdk /\ FilesTyped
      BY SdkAssumption DEF TypeInv, Typed, FilesTyped
    <2>2. CASE UNCHANGED files
      BY <2>1, <2>2 DEF files, FilesTyped
    <2>3. CASE \E how \in {"none", "part", "whole"} : Source(j, how)
      BY <2>1, <2>3 DEF Source, FilesTyped
    <2>4. CASE \E how \in {"none", "empty", "part", "whole"} : Tree(j, how)
      BY <2>1, <2>4 DEF Tree, FilesTyped
    <2>5. CASE \E how \in {"part", "whole"} : Install(Current(j).writes, how)
      BY <2>1, <2>5 DEF Install, FilesTyped
    <2> QED BY <2>2, <2>3, <2>4, <2>5
  <1>2. WithinScript'
    <2>1. Len(Script[sdkOf[j]]) \in Nat
      BY SdkAssumption
    <2>2. CASE \E p \in Phase : Goto(j, p)
      BY <2>2 DEF Goto, TypeInv, WithinScript
    <2>3. CASE \E st \in {"ok", "failed"} : NextLine(j, st)
      <3>1. /\ line \in [Installer -> Nat] /\ line[j] \in 0 .. Len(Script[sdkOf[j]])
            /\ \/ line[j] < Len(Script[sdkOf[j]]) /\ line' = [line EXCEPT ![j] = @ + 1]
               \/ line' = [line EXCEPT ![j] = 0]
        BY <2>3 DEF NextLine, TypeInv, Typed, WithinScript
      <3> QED BY <2>1, <3>1 DEF TypeInv, WithinScript
    <2>4. CASE ExitScript(j)
      BY <2>1, <2>4 DEF ExitScript, TypeInv, Typed, WithinScript
    <2> QED BY <2>2, <2>3, <2>4
  <1> QED BY <1>1, <1>2, Moves DEF TypeInv, Typed, FilesTyped

\* A step that does not touch the lock, of an installer that does not run ar.
LEMMA LocksStay ==
  ASSUME TypeInv, NEW j \in Installer, pc[j] \notin {"ar", "ar writes"}, UNCHANGED lock,
         \A i \in Installer : i # j => pc'[i] = pc[i]
  PROVE  LockTyped' /\ HoldersWork'
  <1>1. LockTyped'  BY DEF TypeInv, LockTyped, lock
  <1>2. ASSUME NEW l \in LockFile, owner'[l] # None
        PROVE  open'[owner'[l]] = l /\ pc'[owner'[l]] \in {"ar", "ar writes"}
    <2>1. owner'[l] = owner[l] /\ open' = open /\ owner[l] \in Installer
      BY <1>2 DEF TypeInv, LockTyped, lock
    <2>2. open[owner[l]] = l /\ pc[owner[l]] \in {"ar", "ar writes"}
      BY <1>2, <2>1 DEF TypeInv, HoldersWork
    <2> QED BY <2>1, <2>2
  <1> QED BY <1>1, <1>2 DEF HoldersWork

LEMMA ReleaseTyped ==
  ASSUME TypeInv, NEW j \in Installer, Release(j), path' = path,
         \A i \in Installer : i # j => pc'[i] = pc[i]
  PROVE  LockTyped' /\ HoldersWork'
  <1>1. LockTyped'  BY DEF TypeInv, LockTyped, Release
  <1>2. ASSUME NEW l \in LockFile, owner'[l] # None
        PROVE  open'[owner'[l]] = l /\ pc'[owner'[l]] \in {"ar", "ar writes"}
    <2>1. owner'[l] = owner[l] /\ owner[l] \in Installer \ {j}
      BY <1>2 DEF TypeInv, LockTyped, Release
    <2>2. open[owner[l]] = l /\ pc[owner[l]] \in {"ar", "ar writes"}
      BY <1>2, <2>1 DEF TypeInv, HoldersWork
    <2>3. open'[owner[l]] = open[owner[l]]
      BY <2>1 DEF TypeInv, LockTyped, Release
    <2> QED BY <2>1, <2>2, <2>3
  <1> QED BY <1>1, <1>2 DEF HoldersWork

LEMMA TypeInit == Init => TypeInv
  <1> SUFFICES ASSUME Init PROVE TypeInv
    OBVIOUS
  <1>1. Typed  BY DEF Init, Typed, Phase
  <1>2. WithinScript
    <2>1. \A i \in Installer : Len(Script[sdkOf[i]]) \in Nat
      BY SdkAssumption
    <2> QED BY <2>1 DEF Init, WithinScript
  <1>3. LockTyped /\ HoldersWork  BY DEF Init, LockTyped, HoldersWork
  <1> QED BY <1>1, <1>2, <1>3 DEF TypeInv

LEMMA TypeStep ==
  ASSUME TypeInv, [Next]_vars
  PROVE  TypeInv'
  <1>1. CASE UNCHANGED vars
    BY <1>1 DEF vars, TypeInv, Typed, WithinScript, LockTyped, HoldersWork
  <1>2. SUFFICES ASSUME NEW j \in Installer, Begin(j) \/ Work(j) \/ Kill(j) \/ CleanTree(j)
                 PROVE  TypeInv'
    BY <1>1 DEF Next
  <1>3. sdkOf[j] \in Sdk /\ Len(Script[sdkOf[j]]) \in Nat \ {0}
    BY SdkAssumption
  <1>4. CASE Begin(j)
    <2>1. Entry(Script[sdkOf[j]][1]) \in Phase
      <3>1. Script[sdkOf[j]][1] \in Line
        BY <1>3, LineOfScript
      <3> QED BY <3>1 DEF Entry, Line, Phase, UrlPhase, StubsPhase
    <2>2. Typed' /\ WithinScript' /\ \A i \in Installer : i # j => pc'[i] = pc[i]
      BY <1>3, <1>4, <2>1 DEF Begin, TypeInv, Typed, WithinScript, files
    <2> QED BY <1>4, <2>2, LocksStay DEF Begin, At, TypeInv
  <1>5. CASE CleanTree(j)
    <2>1. Typed' /\ WithinScript' /\ \A i \in Installer : i # j => pc'[i] = pc[i]
      BY <1>5 DEF CleanTree, Tree, TypeInv, Typed, WithinScript
    <2> QED BY <1>5, <2>1, LocksStay DEF CleanTree, At, TypeInv
  <1>6. CASE Kill(j)
    BY <1>6, TypesMove, ReleaseTyped DEF Kill, TypeInv
  <1>7. CASE \/ FindSource(j) \/ Fetch(j) \/ FetchEnds(j) \/ FetchFails(j) \/ Discard(j)
    BY <1>7, TypesMove, LocksStay
    DEF FindSource, Fetch, FetchEnds, FetchFails, Discard, AfterFetch, Phase, UrlPhase, At, TypeInv
  <1>8. CASE FindTree(j) \/ Unpack(j) \/ UnpackEnds(j)
    BY <1>8, TypesMove, LocksStay
    DEF FindTree, Unpack, UnpackEnds, Phase, UrlPhase, At, TypeInv
  <1>9. CASE Sync(j)
    <2>1. source[sdkOf[j]] \in {"none", "part", "whole"}
      BY <1>3 DEF TypeInv, Typed
    <2> QED BY <1>9, <2>1, TypesMove, LocksStay DEF Sync, At, TypeInv
  <1>10. CASE Copy(j) \/ Edit(j) \/ Convert(j) \/ ConvertFails(j)
    BY <1>10, TypesMove, LocksStay
    DEF Copy, Edit, Convert, ConvertFails, Made, At, TypeInv
  <1>11. CASE Compile(j)
    BY <1>11, TypesMove, LocksStay DEF Compile, Phase, StubsPhase, At, TypeInv
  <1>12. CASE Open(j)
    <2>1. Typed' /\ WithinScript' /\ \A i \in Installer : i # j => pc'[i] = pc[i]
      BY <1>12, TypesMove DEF Open, Phase, StubsPhase
    <2> DEFINE l == IF path = None
                      THEN CHOOSE l \in LockFile : l # path /\ \A i \in Installer : open[i] # l
                      ELSE path
    <2>2. path' = l /\ open' = [open EXCEPT ![j] = l] /\ owner' = owner /\ pc[j] = "open"
      BY <1>12 DEF Open, At
    <2>3. l \in LockFile
      BY FreshLock DEF TypeInv, LockTyped
    <2> HIDE DEF l
    <2>4. LockTyped'  BY <2>2, <2>3 DEF TypeInv, LockTyped
    <2>5. ASSUME NEW k \in LockFile, owner'[k] # None
          PROVE  open'[owner'[k]] = k /\ pc'[owner'[k]] \in {"ar", "ar writes"}
      <3>1. owner[k] \in Installer /\ open[owner[k]] = k /\ pc[owner[k]] \in {"ar", "ar writes"}
        BY <2>2, <2>5 DEF TypeInv, LockTyped, HoldersWork
      <3>2. owner[k] # j  BY <2>2, <3>1
      <3> QED BY <2>1, <2>2, <3>1, <3>2 DEF TypeInv, LockTyped
    <2> QED BY <2>1, <2>4, <2>5 DEF TypeInv, HoldersWork
  <1>13. CASE Flock(j)
    <2>1. Typed' /\ WithinScript' /\ \A i \in Installer : i # j => pc'[i] = pc[i]
      BY <1>13, TypesMove DEF Flock, Phase, StubsPhase
    <2>2. pc'[j] = "ar"
      BY <1>13 DEF Flock, Goto, TypeInv, Typed
    <2> QED BY <1>13, <2>1, <2>2, NoneIsNobody DEF Flock, At, TypeInv, LockTyped, HoldersWork
  <1>14. CASE ArReads(j)
    <2>1. Typed' /\ WithinScript' /\ \A i \in Installer : i # j => pc'[i] = pc[i]
      BY <1>14, TypesMove DEF ArReads, Phase, StubsPhase
    <2>2. pc'[j] = "ar writes"
      BY <1>14 DEF ArReads, Goto, TypeInv, Typed
    <2> QED
      BY ZenonT(60), <1>14, <2>1, <2>2, NoneIsNobody DEF ArReads, lock, TypeInv, LockTyped, HoldersWork
  <1>15. CASE ArWrites(j) \/ ArFails(j)
    BY <1>15, TypesMove, ReleaseTyped DEF ArWrites, ArFails, Phase, StubsPhase, TypeInv
  <1>16. CASE RemoveLock(j)
    <2>1. Typed' /\ WithinScript' /\ \A i \in Installer : i # j => pc'[i] = pc[i]
      BY <1>16, TypesMove DEF RemoveLock
    <2> QED
      BY ZenonT(60), <1>16, <2>1, NoneIsNobody DEF RemoveLock, At, TypeInv, LockTyped, HoldersWork
  <1> QED BY <1>2, <1>4, <1>5, <1>6, <1>7, <1>8, <1>9, <1>10, <1>11, <1>12, <1>13, <1>14, <1>15,
             <1>16 DEF Work

\* sdk/install 9-194: types; the holder of a lock has its file open and runs ar (90-93).
THEOREM WellTyped == Spec => []TypeOK
  <1>1. TypeInv /\ [Next]_vars => TypeInv'
    BY TypeStep
  <1>2. TypeInv => TypeOK
    BY DEF TypeInv, Typed, WithinScript, LockTyped, HoldersWork, TypeOK
  <1> QED BY <1>1, <1>2, TypeInit, PTL DEF Spec

-----------------------------------------------------------------------------
(***************************************************************************)
(* Success.                                                                *)
(***************************************************************************)
LEMMA SdkInit == Init => SdkInv
  <1> SUFFICES ASSUME Init PROVE SdkInv
    OBVIOUS
  <1>1. Typed
    BY DEF Init, Typed, Phase
  <1>2. ASSUME NEW i \in Installer PROVE InstallerInv(i)
    <2> DEFINE s == sdkOf[i]
    <2>1. s \in Sdk /\ line[i] = 0 /\ pc[i] = "stopped" /\ result[i] = "none"
      BY SdkAssumption DEF Init
    <2>2. InLine(i)  BY <2>1 DEF InLine
    <2>3. NothingFetched(i)
      <3>1. ASSUME NEW f \in Outputs(s) PROVE content[f] = "none"
        <4>1. f \in File
          BY SMTT(30), <2>1, LineOfScript DEF Outputs
        <4> QED BY <4>1 DEF Init
      <3> QED BY <2>1, <3>1 DEF NothingFetched, Init
    <2>4. StopsAtGuard(i) /\ WholeSoFar(i)  BY <2>1 DEF StopsAtGuard, WholeSoFar
    <2>5. Unpacking(i)  BY <2>1 DEF Unpacking
    <2>6. Reported(i)  BY <2>1 DEF Reported
    <2> QED BY <2>2, <2>3, <2>4, <2>5, <2>6 DEF InstallerInv
  <1> QED BY <1>1, <1>2 DEF SdkInv

-----------------------------------------------------------------------------
(***************************************************************************)
(* What the steps of one installer leave alone.                            *)
(***************************************************************************)
Steps(j) == Begin(j) \/ Work(j) \/ Kill(j) \/ CleanTree(j)

\* The lines of j write only what its SDK installs.
Local(j) ==
  /\ \A s \in Sdk : s # sdkOf[j] => source'[s] = source[s] /\ tree'[s] = tree[s]
  /\ \A f \in File : f \notin Outputs(sdkOf[j]) => content'[f] = content[f]
  /\ \A i \in Installer : i # j =>
       line'[i] = line[i] /\ pc'[i] = pc[i] /\ result'[i] = result[i]

LEMMA CurrentLine ==
  ASSUME SdkInv, NEW j \in Installer, line[j] # 0
  PROVE  /\ sdkOf[j] \in Sdk /\ line[j] \in 1 .. Len(Script[sdkOf[j]])
         /\ Current(j) = Script[sdkOf[j]][line[j]]
         /\ Current(j) \in Line
         /\ Current(j).op # "stubs" => Current(j).writes \subseteq Outputs(sdkOf[j])
  <1>1. sdkOf[j] \in Sdk /\ Script[sdkOf[j]] \in Seq(Line) /\ Script[sdkOf[j]] # <<>>
    BY SdkAssumption
  <1>2. line[j] \in 1 .. Len(Script[sdkOf[j]])
    <2>1. Len(Script[sdkOf[j]]) \in Nat \ {0}
      BY <1>1
    <2> QED BY <2>1 DEF SdkInv, InstallerInv, InLine
  <1>3. Current(j) = Script[sdkOf[j]][line[j]] /\ Current(j) \in Line
    BY <1>1, <1>2 DEF Current
  <1> QED BY <1>1, <1>2, <1>3 DEF Outputs

\* What the steps do to the files.
FilesLocal(j) ==
  /\ source' \in [Sdk -> {"none", "part", "whole"}]
  /\ tree' \in [Sdk -> {"none", "empty", "part", "whole"}]
  /\ content' \in [File -> {"none", "part", "whole"}]
  /\ \A s \in Sdk : s # sdkOf[j] => source'[s] = source[s] /\ tree'[s] = tree[s]
  /\ \A f \in File : f \notin Outputs(sdkOf[j]) => content'[f] = content[f]

LEMMA FilesMove ==
  ASSUME SdkInv, NEW j \in Installer,
         \/ UNCHANGED files
         \/ \E how \in {"none", "part", "whole"} : Source(j, how)
         \/ \E how \in {"none", "empty", "part", "whole"} : Tree(j, how)
         \/ \E how \in {"part", "whole"} :
              /\ pc[j] \in {"copy", "edit", "convert"} /\ Install(Current(j).writes, how)
  PROVE  FilesLocal(j)
  <1> USE DEF FilesLocal
  <1>1. /\ source \in [Sdk -> {"none", "part", "whole"}]
        /\ tree \in [Sdk -> {"none", "empty", "part", "whole"}]
        /\ content \in [File -> {"none", "part", "whole"}]
        /\ sdkOf[j] \in Sdk
    BY SdkAssumption DEF SdkInv, Typed
  <1>2. CASE UNCHANGED files
    BY <1>1, <1>2 DEF files
  <1>3. CASE \E how \in {"none", "part", "whole"} : Source(j, how)
    BY <1>1, <1>3 DEF Source
  <1>4. CASE \E how \in {"none", "empty", "part", "whole"} : Tree(j, how)
    BY <1>1, <1>4 DEF Tree
  <1>5. ASSUME NEW how \in {"part", "whole"}, pc[j] \in {"copy", "edit", "convert"},
               Install(Current(j).writes, how)
        PROVE  FilesLocal(j)
    <2>1. line[j] # 0 /\ Current(j).op # "stubs"
      <3>1. Len(Script[sdkOf[j]]) \in Nat
        BY <1>1, SdkAssumption
      <3>2. InLine(j)
        BY DEF SdkInv, InstallerInv
      <3>3. pc[j] # "stopped" /\ pc[j] \notin UrlPhase /\ pc[j] \notin StubsPhase
        BY <1>5 DEF UrlPhase, StubsPhase
      <3> QED BY <3>1, <3>2, <3>3, <1>5 DEF InLine, Current
    <2>2. Current(j).writes \subseteq Outputs(sdkOf[j])
      BY <2>1, CurrentLine
    <2> QED BY <1>1, <1>5, <2>2 DEF Install
  <1> QED BY <1>2, <1>3, <1>4, <1>5

LEMMA StepLocal ==
  ASSUME SdkInv, NEW j \in Installer, Steps(j)
  PROVE  Typed' /\ Local(j)
  <1>1. FilesLocal(j) /\ \/ \E p \in Phase : Goto(j, p)
                         \/ \E st \in {"ok", "failed"} : NextLine(j, st)
                         \/ ExitScript(j)
        => Typed' /\ Local(j)
    BY Moves DEF FilesLocal, Typed, Local, SdkInv
  <1>2. CASE Begin(j)
    <2>1. FilesLocal(j)
      BY <1>2, FilesMove DEF Begin
    <2>2. Entry(Script[sdkOf[j]][1]) \in Phase
      <3>1. sdkOf[j] \in Sdk /\ 1 \in 1 .. Len(Script[sdkOf[j]])
        BY SdkAssumption
      <3>2. Script[sdkOf[j]][1] \in Line
        BY <3>1, LineOfScript
      <3> QED BY <3>2 DEF Entry, Line, Phase, UrlPhase, StubsPhase
    <2> QED BY <1>2, <2>1, <2>2 DEF Begin, FilesLocal, Typed, Local, SdkInv
  <1>3. CASE CleanTree(j)
    <2>1. FilesLocal(j)
      BY <1>3, FilesMove DEF CleanTree
    <2> QED BY <1>3, <2>1 DEF CleanTree, FilesLocal, Typed, Local, SdkInv
  <1>4. CASE Kill(j)
    BY <1>1, <1>4, FilesMove DEF Kill, At
  <1>5. CASE FindSource(j)
    BY <1>1, <1>5, FilesMove DEF FindSource, Phase, UrlPhase
  <1>6. CASE Fetch(j)
    BY <1>1, <1>6, FilesMove DEF Fetch, Phase, UrlPhase
  <1>7. CASE FetchEnds(j)
    BY <1>1, <1>7, FilesMove DEF FetchEnds, AfterFetch, Phase, UrlPhase
  <1>8. CASE FetchFails(j)
    BY <1>1, <1>8, FilesMove DEF FetchFails, Phase, UrlPhase
  <1>9. CASE Discard(j)
    BY <1>1, <1>9, FilesMove DEF Discard, AfterFetch, Phase, UrlPhase
  <1>10. CASE FindTree(j)
    BY <1>1, <1>10, FilesMove DEF FindTree, Phase, UrlPhase
  <1>11. CASE Unpack(j)
    BY <1>1, <1>11, FilesMove DEF Unpack, Phase, UrlPhase
  <1>12. CASE UnpackEnds(j)
    BY <1>1, <1>12, FilesMove DEF UnpackEnds
  <1>13. CASE Sync(j)
    <2>1. source[sdkOf[j]] \in {"none", "part", "whole"}
      BY SdkAssumption DEF SdkInv, Typed
    <2> QED BY <1>1, <1>13, <2>1, FilesMove DEF Sync
  <1>14. CASE Copy(j)
    BY <1>1, <1>14, FilesMove DEF Copy, At
  <1>15. CASE Edit(j)
    BY <1>1, <1>15, FilesMove DEF Edit, At, Made
  <1>16. CASE Convert(j)
    BY <1>1, <1>16, FilesMove DEF Convert, At, Made
  <1>17. CASE ConvertFails(j)
    BY <1>1, <1>17, FilesMove DEF ConvertFails
  <1>18. CASE \/ Compile(j) \/ Open(j) \/ Flock(j) \/ ArReads(j) \/ ArWrites(j) \/ ArFails(j)
              \/ RemoveLock(j)
    BY <1>1, <1>18, FilesMove
    DEF Compile, Open, Flock, ArReads, ArWrites, ArFails, RemoveLock, Phase, StubsPhase
  <1> QED BY <1>2, <1>3, <1>4, <1>5, <1>6, <1>7, <1>8, <1>9, <1>10, <1>11, <1>12, <1>13, <1>14,
             <1>15, <1>16, <1>17, <1>18 DEF Steps, Work

\* A step of another installer: nothing that the invariant of i looks at changes.
LEMMA OtherStep ==
  ASSUME ScriptsInForm, SdkInv, NEW i \in Installer, NEW j \in Installer, i # j, Steps(j)
  PROVE  InstallerInv(i)'
  <1> DEFINE s == sdkOf[i]
  <1>1. /\ s \in Sdk /\ source'[s] = source[s] /\ tree'[s] = tree[s]
        /\ line'[i] = line[i] /\ pc'[i] = pc[i] /\ result'[i] = result[i]
    BY StepLocal, SdkAssumption DEF Local, ScriptsInForm
  <1>2. \A f \in Outputs(s) : content'[f] = content[f]
    <2>1. Outputs(s) \subseteq File
      BY <1>1, LineOfScript DEF Outputs
    <2>2. Outputs(s) \cap Outputs(sdkOf[j]) = {}
      BY <1>1, SdkAssumption DEF ScriptsInForm
    <2> QED BY <2>1, <2>2, StepLocal DEF Local
  <1>3. InLine(i)'
    BY <1>1 DEF SdkInv, InstallerInv, InLine
  <1>4. NothingFetched(i)'
    BY <1>1, <1>2 DEF SdkInv, InstallerInv, NothingFetched, CopiedOnly
  <1>5. StopsAtGuard(i)'
    BY <1>1 DEF SdkInv, InstallerInv, StopsAtGuard, Guard, CopiedOnly
  <1>6. WholeSoFar(i)'
    <2> SUFFICES ASSUME (line[i] >= 2 /\ tree[s] = "whole")'
                 PROVE  LinesDone(s, line[i])'
      BY DEF WholeSoFar
    <2>1. LinesDone(s, line[i])
      BY <1>1 DEF SdkInv, InstallerInv, WholeSoFar
    <2>2. line[i] \in 0 .. Len(Script[s])
      <3>1. Len(Script[s]) \in Nat
        BY <1>1, SdkAssumption
      <3> QED BY <1>1, <3>1 DEF SdkInv, InstallerInv, InLine
    <2>3. \A k \in 1 .. line[i] - 1 : Script[s][k].op # "stubs" =>
             Script[s][k].writes \subseteq Outputs(s)
      BY <2>2, <1>1, SdkAssumption DEF Outputs
    <2> QED BY <1>1, <1>2, <2>1, <2>3 DEF LinesDone
  <1>7. Unpacking(i)'
    BY <1>1 DEF SdkInv, InstallerInv, Unpacking
  <1>8. Reported(i)'
    BY <1>1, <1>2 DEF SdkInv, InstallerInv, Reported, At, FilesInstalled, CutOff
  <1> QED BY <1>3, <1>4, <1>5, <1>6, <1>7, <1>8 DEF InstallerInv

-----------------------------------------------------------------------------
(***************************************************************************)
(* The steps of the installer itself.                                      *)
(***************************************************************************)
ControlInv(i) ==
  InLine(i) /\ StopsAtGuard(i) /\ WholeSoFar(i) /\ Unpacking(i) /\ Reported(i)

LEMMA ScriptFacts ==
  ASSUME ScriptsInForm, NEW i \in Installer
  PROVE  /\ sdkOf[i] \in Sdk
         /\ Len(Script[sdkOf[i]]) \in Nat /\ Len(Script[sdkOf[i]]) >= 2
         /\ UrlFirst(sdkOf[i]) /\ ReadsWritten(sdkOf[i]) /\ Guarded(sdkOf[i])
         /\ \A k \in 1 .. Len(Script[sdkOf[i]]) : Script[sdkOf[i]][k] \in Line
  <1>1. sdkOf[i] \in Sdk
    BY SdkAssumption
  <1>2. Len(Script[sdkOf[i]]) \in Nat
    BY <1>1, SdkAssumption
  <1> QED BY <1>1, <1>2, LineOfScript DEF ScriptsInForm, UrlFirst

\* exit 1, and a kill
LEMMA ExitKeeps ==
  ASSUME SdkInv, NEW i \in Installer, ExitScript(i)
  PROVE  ControlInv(i)'
  <1>1. line'[i] = 0 /\ pc'[i] = "stopped" /\ result'[i] = "failed"
    BY DEF SdkInv, Typed, ExitScript
  <1> QED BY <1>1 DEF ControlInv, InLine, StopsAtGuard, WholeSoFar, Unpacking, Reported

\* The end of a line.
LEMMA NextKeeps ==
  ASSUME ScriptsInForm, SdkInv, Typed', NEW i \in Installer, NEW st \in {"ok", "failed"},
         NEW k \in 1 .. Len(Script[sdkOf[i]]), line[i] = k, NextLine(i, st),
         tree'[sdkOf[i]] \in {"none", "empty"} =>
           /\ source'[sdkOf[i]] = "none"
           /\ \A g \in 2 .. Len(Script[sdkOf[i]]) : Guard(sdkOf[i], g) => k < g
           /\ st = "ok" => Script[sdkOf[i]][k].op # "copy",
         tree'[sdkOf[i]] = "whole" =>
           /\ LinesDone(sdkOf[i], k)'
           /\ Script[sdkOf[i]][k].op # "stubs" =>
                \A f \in Script[sdkOf[i]][k].writes : content'[f] = "whole"
  PROVE  ControlInv(i)'
  <1> DEFINE s == sdkOf[i]
             n == Len(Script[s])
             op == Script[s][k + 1].op
  <1> USE ScriptFacts
  <1>1. n \in Nat /\ n >= 2 /\ k \in 1 .. n /\ s \in Sdk
    OBVIOUS
  <1>2. tree'[s] = "whole" => LinesDone(s, k + 1)'
    <2> SUFFICES ASSUME tree'[s] = "whole", NEW j \in 1 .. k + 1 - 1,
                        Script[s][j].op # "stubs", NEW f \in Script[s][j].writes
                 PROVE  content'[f] = "whole"
      BY DEF LinesDone
    <2>1. j = k \/ j \in 1 .. k - 1
      BY <1>1
    <2> QED BY <2>1 DEF LinesDone
  <1>3. CASE k < n
    <2>1. k + 1 \in 2 .. n
      BY <1>1, <1>3
    <2>2. Script[s][k + 1] \in Line /\ op \in {"copy", "edit", "convert", "stubs"}
      <3>1. Script[s][k + 1] \in Line
        BY <1>1, <2>1
      <3>2. op \notin {"archive", "git"}
        BY <2>1, <1>1 DEF UrlFirst
      <3> QED BY <3>1, <3>2 DEF Line
    <2>3. /\ line'[i] = k + 1 /\ result'[i] = "none"
          /\ pc'[i] = IF op = "stubs" THEN "compile" ELSE op
      <3>1. /\ line'[i] = k + 1 /\ result'[i] = "none"
            /\ pc'[i] = Entry(Script[s][k + 1])
        BY <1>1, <1>3 DEF NextLine, SdkInv, Typed
      <3>2. Entry(Script[s][k + 1]) = IF op = "stubs" THEN "compile" ELSE op
        BY <2>2 DEF Entry
      <3> QED BY <3>1, <3>2
    <2>4. InLine(i)'
      BY <2>1, <2>2, <2>3 DEF InLine, StubsPhase
    <2>5. StopsAtGuard(i)'
      <3> SUFFICES ASSUME tree'[s] \in {"none", "empty"}, NEW g \in 2 .. n, Guard(s, g)
                   PROVE  /\ source'[s] = "none" /\ line'[i] <= g
                          /\ line'[i] = g => pc'[i] \in {"convert", "compile"}
        BY <2>1, <2>3, <1>1 DEF StopsAtGuard
      <3>1. source'[s] = "none" /\ k + 1 <= g
        BY <1>1
      <3>2. k + 1 = g => op \in {"convert", "stubs"}
        BY DEF Guard
      <3> QED BY <3>1, <3>2, <2>3
    <2>6. WholeSoFar(i)'
      BY <1>2, <2>3 DEF WholeSoFar
    <2>7. Unpacking(i)' /\ Reported(i)'
      BY <2>2, <2>3 DEF Unpacking, Reported
    <2> QED BY <2>4, <2>5, <2>6, <2>7 DEF ControlInv
  <1>4. CASE ~(k < n)
    <2>1. k = n /\ line'[i] = 0 /\ pc'[i] = "stopped" /\ result'[i] = st
      BY <1>1, <1>4 DEF NextLine, SdkInv, Typed
    <2>2. Reported(i)'
      <3> SUFFICES ASSUME st = "ok" PROVE (FilesInstalled(s) \/ CutOff(s))'
        BY <2>1 DEF Reported
      <3>1. CASE tree'[s] \in {"none", "empty"}
        <4>1. \E g \in 2 .. n : Guard(s, g)
          BY <2>1, <3>1, <1>1 DEF Guarded
        <4>2. PICK g \in 2 .. n : Guard(s, g)
          BY <4>1
        <4>3. k < g
          BY <4>2, <3>1
        <4> QED BY <4>2, <4>3, <2>1, <1>1
      <3>2. CASE tree'[s] = "whole"
        <4>1. \A j \in 1 .. n : Script[s][j].op # "stubs" =>
                \A f \in Script[s][j].writes : content'[f] = "whole"
          BY <1>1, <1>2, <2>1, <3>2 DEF LinesDone
        <4> QED BY <4>1, <1>1 DEF FilesInstalled, Outputs
      <3>3. CASE tree'[s] = "part"
        BY <3>3 DEF CutOff
      <3> QED BY <3>1, <3>2, <3>3, <1>1 DEF Typed
    <2>3. InLine(i)' /\ StopsAtGuard(i)' /\ WholeSoFar(i)' /\ Unpacking(i)'
      BY <2>1 DEF InLine, StopsAtGuard, WholeSoFar, Unpacking
    <2> QED BY <2>2, <2>3 DEF ControlInv
  <1> QED BY <1>3, <1>4

\* The end of the Url line.
LEMMA UrlKeeps ==
  ASSUME ScriptsInForm, SdkInv, Typed', NEW i \in Installer, NEW st \in {"ok", "failed"},
         line[i] = 1, NextLine(i, st),
         tree'[sdkOf[i]] \in {"none", "empty"} => source'[sdkOf[i]] = "none"
  PROVE  ControlInv(i)'
  <1> DEFINE s == sdkOf[i]
  <1>1. Len(Script[s]) \in Nat /\ Len(Script[s]) >= 2 /\ UrlFirst(s)
    BY ScriptFacts
  <1>2. 1 \in 1 .. Len(Script[s])
    BY <1>1
  <1>3. Script[s][1].op \in {"archive", "git"} /\ Script[s][1].writes = {}
    BY <1>1 DEF UrlFirst
  <1>4. LinesDone(s, 1)'
    BY DEF LinesDone
  <1>5. \A g \in 2 .. Len(Script[s]) : 1 < g
    BY <1>1
  <1> QED BY <1>2, <1>3, <1>4, <1>5, NextKeeps

-----------------------------------------------------------------------------
\* Without a fetched source, a guard finds nothing to read.
LEMMA GuardMisses ==
  ASSUME ScriptsInForm, SdkInv, NEW i \in Installer, Guard(sdkOf[i], line[i]),
         tree[sdkOf[i]] \in {"none", "empty"}
  PROVE  Missing(i)
  <1> DEFINE s == sdkOf[i]
             k == line[i]
  <1>1. PICK f \in Script[s][k].reads : CopiedOnly(s, f)
    BY DEF Guard
  <1>2. k \in 2 .. Len(Script[s]) /\ k >= 2
    BY ScriptFacts DEF Guard
  <1>3. source[s] = "none"
    BY <1>2 DEF SdkInv, InstallerInv, StopsAtGuard
  <1>4. f \in Outputs(s)
    <2>1. PICK j \in 1 .. k - 1 : Script[s][j].op # "stubs" /\ f \in Script[s][j].writes
      BY <1>1, <1>2, ScriptFacts DEF ReadsWritten
    <2>2. j \in 1 .. Len(Script[s])
      BY <1>2, ScriptFacts
    <2> QED BY <2>1, <2>2 DEF Outputs
  <1>5. content[f] = "none"
    BY <1>1, <1>3, <1>4 DEF SdkInv, InstallerInv, NothingFetched
  <1> QED BY <1>1, <1>5 DEF Missing, Current

\* With a whole tree, all that a line reads is whole.
LEMMA ReadsWhole ==
  ASSUME ScriptsInForm, SdkInv, NEW i \in Installer, line[i] \in 2 .. Len(Script[sdkOf[i]]),
         tree[sdkOf[i]] = "whole"
  PROVE  LinesDone(sdkOf[i], line[i]) /\ Complete(i)
  <1> DEFINE s == sdkOf[i]
             k == line[i]
  <1>1. LinesDone(s, k)
    <2>1. k >= 2
      BY ScriptFacts
    <2> QED BY <2>1 DEF SdkInv, InstallerInv, WholeSoFar
  <1>2. ASSUME NEW f \in Script[s][k].reads PROVE content[f] = "whole"
    <2>1. PICK j \in 1 .. k - 1 : Script[s][j].op # "stubs" /\ f \in Script[s][j].writes
      BY ScriptFacts DEF ReadsWritten
    <2> QED BY <2>1, <1>1 DEF LinesDone
  <1> QED BY <1>1, <1>2 DEF Complete, Current

-----------------------------------------------------------------------------
\* Steps that fetch nothing, and copy only out of a tree.
LEMMA NothingKeeps ==
  ASSUME SdkInv, NEW i \in Installer,
         pc'[i] \notin {"fetch", "fetching", "discard"},
         source'[sdkOf[i]] = "none" =>
           /\ source[sdkOf[i]] = "none" \/ pc[i] \in {"fetch", "fetching", "discard"}
           /\ tree'[sdkOf[i]] \in {"none", "empty"}
           /\ \A f \in Outputs(sdkOf[i]) : CopiedOnly(sdkOf[i], f) => content'[f] = content[f]
  PROVE  NothingFetched(i)'
  BY DEF SdkInv, InstallerInv, NothingFetched

\* Where pc is in the Url line.
LEMMA InUrl ==
  ASSUME ScriptsInForm, SdkInv, NEW i \in Installer
  PROVE  /\ pc[i] \in UrlPhase => line[i] = 1
         /\ pc[i] \in {"copy", "edit", "convert"} =>
              line[i] \in 2 .. Len(Script[sdkOf[i]]) /\ line[i] >= 2 /\ Current(i).op = pc[i]
         /\ pc[i] \in StubsPhase =>
              line[i] \in 2 .. Len(Script[sdkOf[i]]) /\ line[i] >= 2 /\ Current(i).op = "stubs"
  <1>1. Len(Script[sdkOf[i]]) \in Nat
    BY ScriptFacts
  <1>2. InLine(i)
    BY DEF SdkInv, InstallerInv
  <1>3. CASE pc[i] \in UrlPhase
    <2>1. pc[i] \notin StubsPhase /\ pc[i] \notin {"stopped", "copy", "edit", "convert"}
      BY <1>3 DEF UrlPhase, StubsPhase
    <2> QED BY <1>2, <2>1 DEF InLine
  <1>4. CASE pc[i] \in {"copy", "edit", "convert"}
    <2>1. pc[i] \notin UrlPhase /\ pc[i] \notin StubsPhase /\ pc[i] # "stopped"
      BY <1>4 DEF UrlPhase, StubsPhase
    <2> QED BY <1>1, <1>2, <1>4, <2>1 DEF InLine, Current
  <1>5. CASE pc[i] \in StubsPhase
    <2>1. pc[i] \notin UrlPhase /\ pc[i] \notin {"stopped", "copy", "edit", "convert"}
      BY <1>5 DEF UrlPhase, StubsPhase
    <2> QED BY <1>1, <1>2, <2>1 DEF InLine, Current
  <1> QED BY <1>3, <1>4, <1>5

\* A line ends, and the next one does not fetch anything.
LEMMA AfterUrl ==
  ASSUME ScriptsInForm, SdkInv, NEW i \in Installer, NEW st \in {"ok", "failed"},
         line[i] \in 1 .. Len(Script[sdkOf[i]]), NextLine(i, st)
  PROVE  pc'[i] \in {"stopped", "copy", "edit", "convert", "compile"}
  <1> DEFINE s == sdkOf[i]
  <1>1. Len(Script[s]) \in Nat /\ UrlFirst(s) /\ pc \in [Installer -> Phase]
    BY ScriptFacts DEF SdkInv, Typed
  <1>2. CASE line[i] < Len(Script[s])
    <2>1. line[i] + 1 \in 2 .. Len(Script[s]) /\ line[i] + 1 \in 1 .. Len(Script[s])
      BY <1>1, <1>2
    <2>2. Script[s][line[i] + 1].op \in {"copy", "edit", "convert", "stubs"}
      <3>1. Script[s][line[i] + 1] \in Line
        BY <2>1, ScriptFacts
      <3>2. Script[s][line[i] + 1].op \notin {"archive", "git"}
        BY <1>1, <2>1 DEF UrlFirst
      <3> QED BY <3>1, <3>2 DEF Line
    <2>3. Entry(Script[s][line[i] + 1]) \in {"copy", "edit", "convert", "compile"}
      BY <2>2 DEF Entry
    <2> QED BY <1>1, <1>2, <2>3 DEF NextLine
  <1>3. CASE ~(line[i] < Len(Script[s]))
    BY <1>1, <1>3 DEF NextLine
  <1> QED BY <1>2, <1>3

\* A step from one place of the Url line to another.
LEMMA UrlGoto ==
  ASSUME ScriptsInForm, SdkInv, NEW i \in Installer, line[i] = 1,
         NEW p \in UrlPhase, Goto(i, p),
         p = "unpacking" => tree'[sdkOf[i]] = "part"
  PROVE  ControlInv(i)' /\ pc'[i] = p
  <1>1. line'[i] = 1 /\ pc'[i] = p
    BY DEF Goto, SdkInv, Typed
  <1>2. InLine(i)'
    BY <1>1 DEF InLine
  <1>3. StopsAtGuard(i)' /\ WholeSoFar(i)' /\ Unpacking(i)'
    BY <1>1 DEF StopsAtGuard, WholeSoFar, Unpacking
  <1>4. Reported(i)'
    BY <1>1 DEF Reported, At, UrlPhase
  <1> QED BY <1>1, <1>2, <1>3, <1>4 DEF ControlInv

\* A step from one place of a stubs line to another: it is past its guard.
LEMMA StubsGoto ==
  ASSUME ScriptsInForm, SdkInv, NEW i \in Installer, pc[i] \in StubsPhase, UNCHANGED files,
         NEW p \in StubsPhase, Goto(i, p), At(i, "compile") => ~Missing(i)
  PROVE  ControlInv(i)' /\ NothingFetched(i)'
  <1> DEFINE s == sdkOf[i]
  <1>1. line'[i] = line[i] /\ pc'[i] = p /\ line[i] >= 2 /\ line[i] \in 2 .. Len(Script[s])
    BY InUrl DEF Goto, SdkInv, Typed
  <1>2. InLine(i)'
    <2>1. Script[s][line[i]].op = "stubs"
      BY InUrl DEF Current
    <2> QED BY <1>1, <2>1 DEF InLine
  <1>3. StopsAtGuard(i)'
    <2> SUFFICES ASSUME tree[s] \in {"none", "empty"}
                 PROVE  /\ source[s] = "none"
                        /\ \A g \in 2 .. Len(Script[s]) : Guard(s, g) =>
                             line[i] <= g /\ line[i] # g
      BY <1>1 DEF StopsAtGuard, files
    <2>1. /\ source[s] = "none"
          /\ \A g \in 2 .. Len(Script[s]) : Guard(s, g) =>
               line[i] <= g /\ (line[i] = g => pc[i] \in {"convert", "compile"})
      BY <1>1 DEF SdkInv, InstallerInv, StopsAtGuard
    <2>2. pc[i] # "convert" /\ (Guard(s, line[i]) => pc[i] # "compile")
      BY GuardMisses DEF StubsPhase, At
    <2> QED BY <2>1, <2>2
  <1>4. WholeSoFar(i)'
    BY <1>1 DEF SdkInv, InstallerInv, WholeSoFar, LinesDone, files
  <1>5. Unpacking(i)' /\ Reported(i)'
    BY <1>1 DEF Unpacking, Reported, At, StubsPhase
  <1>6. NothingFetched(i)'
    BY <1>1 DEF SdkInv, InstallerInv, NothingFetched, files, StubsPhase
  <1> QED BY <1>2, <1>3, <1>4, <1>5, <1>6 DEF ControlInv

-----------------------------------------------------------------------------
LEMMA OwnUrlStep ==
  ASSUME ScriptsInForm, SdkInv, NEW i \in Installer,
         \/ FindSource(i) \/ Fetch(i) \/ FetchEnds(i) \/ FetchFails(i) \/ Discard(i)
         \/ FindTree(i) \/ Unpack(i) \/ UnpackEnds(i) \/ Sync(i)
  PROVE  InstallerInv(i)'
  <1> DEFINE s == sdkOf[i]
  <1>0. s \in Sdk
    BY ScriptFacts
  <1>1. Typed' /\ Typed
    BY StepLocal DEF Steps, Work, SdkInv
  <1>2. line[i] = 1
    <2>1. pc[i] \in UrlPhase
      BY DEF FindSource, Fetch, FetchEnds, FetchFails, Discard, FindTree, Unpack, UnpackEnds,
             Sync, At, UrlPhase
    <2> QED BY <2>1, InUrl
  <1>3. ControlInv(i)' /\ NothingFetched(i)' => InstallerInv(i)'
    BY DEF ControlInv, InstallerInv
  <1>4. SdkInv => NothingFetched(i) /\ Unpacking(i)
    BY DEF SdkInv, InstallerInv
  <1>5. ASSUME NEW st \in {"ok", "failed"}, NextLine(i, st)
         PROVE  pc'[i] \notin {"fetch", "fetching", "discard"}
    <2>1. line[i] \in 1 .. Len(Script[s])
      BY <1>2, ScriptFacts
    <2> QED BY <1>5, <2>1, AfterUrl
  <1>6. ASSUME NEW st \in {"ok", "failed"}, NextLine(i, st), source'[s] # "none"
         PROVE  NothingFetched(i)'
    <2>1. pc'[i] \notin {"fetch", "fetching", "discard"}
      BY <1>6, <1>5
    <2> QED BY <1>6, <2>1 DEF NothingFetched
  <1>7. CASE FindSource(i)
    <2>1. PICK p \in {"fetch", "find tree", "sync"} :
            Goto(i, p) /\ (p = "fetch" => source[s] = "none")
      BY <1>7 DEF FindSource
    <2>2. ControlInv(i)' /\ pc'[i] = p
      BY <1>2, <2>1, UrlGoto DEF UrlPhase
    <2>3. NothingFetched(i)'
      BY <1>4, <1>7, <2>1, <2>2 DEF FindSource, files, NothingFetched
    <2> QED BY <1>3, <2>2, <2>3
  <1>8. CASE Fetch(i)
    <2>1. ControlInv(i)' /\ pc'[i] = "fetching"
      BY <1>2, <1>8, UrlGoto DEF Fetch, UrlPhase
    <2>2. NothingFetched(i)'
      BY <1>4, <1>8, <2>1 DEF Fetch, At, Source, NothingFetched
    <2> QED BY <1>3, <2>1, <2>2
  <1>9. CASE FetchEnds(i)
    <2>1. PICK p \in {"find tree", "sync"} : Goto(i, p)
      BY <1>9 DEF FetchEnds, AfterFetch
    <2>2. ControlInv(i)' /\ pc'[i] = p
      BY <1>2, <2>1, UrlGoto DEF UrlPhase
    <2>3. source'[s] = "whole"
      BY <1>0, <1>1, <1>9 DEF FetchEnds, Source, Typed
    <2>4. NothingFetched(i)'
      BY <2>1, <2>2, <2>3 DEF NothingFetched
    <2> QED BY <1>3, <2>2, <2>4
  <1>10. CASE FetchFails(i)
    <2>1. ControlInv(i)' /\ pc'[i] = "discard"
      BY <1>2, <1>10, UrlGoto DEF FetchFails, UrlPhase
    <2>2. NothingFetched(i)'
      BY <1>4, <1>10, <2>1 DEF FetchFails, At, files, NothingFetched
    <2> QED BY <1>3, <2>1, <2>2
  <1>11. CASE Discard(i)
    <2>1. PICK p \in {"find tree", "sync"} : Goto(i, p)
      BY <1>11 DEF Discard, AfterFetch
    <2>2. ControlInv(i)' /\ pc'[i] = p
      BY <1>2, <2>1, UrlGoto DEF UrlPhase
    <2>3. NothingFetched(i)'
      BY <1>4, <1>11, <2>1, <2>2 DEF Discard, At, Source, NothingFetched
    <2> QED BY <1>3, <2>2, <2>3
  <1>12. CASE FindTree(i)
    <2>1. CASE tree[s] \in {"none", "empty"}
      <3>1. Tree(i, "empty") /\ Goto(i, "unpack")
        BY <1>12, <2>1 DEF FindTree
      <3>2. ControlInv(i)' /\ pc'[i] = "unpack"
        BY <1>2, <3>1, UrlGoto DEF UrlPhase
      <3>3. tree'[s] = "empty"
        BY <1>0, <1>1, <3>1 DEF Tree, Typed
      <3>4. NothingFetched(i)'
        <4>1. source' = source /\ content' = content
          BY <3>1 DEF Tree
        <4>2. pc'[i] \notin {"fetch", "fetching", "discard"} /\ tree'[s] \in {"none", "empty"}
          BY <3>2, <3>3
        <4> QED BY <1>4, <4>1, <4>2 DEF NothingFetched
      <3> QED BY <1>3, <3>2, <3>4
    <2>2. CASE tree[s] \notin {"none", "empty"}
      <3>1. UNCHANGED files /\ NextLine(i, "ok")
        BY <1>12, <2>2 DEF FindTree
      <3>2. ControlInv(i)'
        BY <1>1, <1>2, <2>2, <3>1, UrlKeeps DEF files
      <3>3. source'[s] # "none"
        BY <1>4, <2>2, <3>1 DEF NothingFetched, files
      <3> QED BY <1>3, <1>6, <3>1, <3>2, <3>3
    <2> QED BY <2>1, <2>2
  <1>13. CASE Unpack(i)
    <2>1. CASE source[s] = "none"
      <3>1. UNCHANGED files /\ NextLine(i, "ok")
        BY <1>13, <2>1 DEF Unpack
      <3>2. ControlInv(i)'
        BY <1>1, <1>2, <2>1, <3>1, UrlKeeps DEF files
      <3>3. NothingFetched(i)'
        BY <1>4, <1>5, <2>1, <3>1 DEF NothingFetched, files
      <3> QED BY <1>3, <3>2, <3>3
    <2>2. CASE source[s] # "none"
      <3>1. Tree(i, "part") /\ Goto(i, "unpacking")
        BY <1>13, <2>2 DEF Unpack
      <3>2. tree'[s] = "part" /\ source'[s] # "none"
        BY <1>0, <1>1, <2>2, <3>1 DEF Tree, Typed
      <3>3. ControlInv(i)' /\ pc'[i] = "unpacking"
        BY <1>2, <3>1, <3>2, UrlGoto DEF UrlPhase
      <3>4. NothingFetched(i)'
        BY <3>2, <3>3 DEF NothingFetched
      <3> QED BY <1>3, <3>3, <3>4
    <2> QED BY <2>1, <2>2
  <1>14. CASE UnpackEnds(i)
    <2>1. tree[s] = "part" /\ NextLine(i, "ok")
      BY <1>4, <1>14 DEF UnpackEnds, At, Unpacking
    <2>2. tree'[s] \in {"part", "whole"} /\ source' = source
      BY <1>0, <1>1, <1>14, <2>1 DEF UnpackEnds, Tree, Typed, files
    <2>3. ControlInv(i)'
      BY <1>1, <1>2, <2>1, <2>2, UrlKeeps
    <2>4. source'[s] # "none"
      BY <1>4, <2>1, <2>2 DEF NothingFetched
    <2> QED BY <1>3, <1>6, <2>1, <2>3, <2>4
  <1>15. CASE Sync(i)
    <2>1. CASE source[s] = "none"
      <3>1. UNCHANGED files /\ NextLine(i, "failed")
        BY <1>15, <2>1 DEF Sync
      <3>2. ControlInv(i)'
        BY <1>1, <1>2, <2>1, <3>1, UrlKeeps DEF files
      <3>3. NothingFetched(i)'
        BY <1>4, <1>5, <2>1, <3>1 DEF NothingFetched, files
      <3> QED BY <1>3, <3>2, <3>3
    <2>2. CASE source[s] # "none"
      <3>1. Tree(i, source[s]) /\ NextLine(i, "ok")
        BY <1>15, <2>2 DEF Sync
      <3>2. tree'[s] \in {"part", "whole"} /\ source'[s] # "none"
        BY <1>0, <1>1, <2>2, <3>1 DEF Tree, Typed
      <3>3. ControlInv(i)'
        BY <1>1, <1>2, <3>1, <3>2, UrlKeeps
      <3> QED BY <1>3, <1>6, <3>1, <3>2, <3>3
    <2> QED BY <2>1, <2>2
  <1> QED BY <1>7, <1>8, <1>9, <1>10, <1>11, <1>12, <1>13, <1>14, <1>15

-----------------------------------------------------------------------------
\* The end of a line that installs something.
LEMMA LineKeeps ==
  ASSUME ScriptsInForm, SdkInv, Typed', NEW i \in Installer, NEW st \in {"ok", "failed"},
         line[i] \in 2 .. Len(Script[sdkOf[i]]), NextLine(i, st),
         UNCHANGED <<source, tree>>,
         tree[sdkOf[i]] \in {"none", "empty"} =>
           /\ ~Guard(sdkOf[i], line[i])
           /\ st = "ok" => Current(i).op # "copy",
         tree[sdkOf[i]] = "whole" =>
           /\ \A f \in File : content[f] = "whole" => content'[f] = "whole"
           /\ Current(i).op # "stubs" => \A f \in Current(i).writes : content'[f] = "whole",
         source[sdkOf[i]] = "none" =>
           \A f \in File : CopiedOnly(sdkOf[i], f) => content'[f] = content[f]
  PROVE  InstallerInv(i)'
  <1> DEFINE s == sdkOf[i]
  <1>0. PICK k \in 2 .. Len(Script[s]) : k = line[i]
    OBVIOUS
  <1>1. k \in 1 .. Len(Script[s]) /\ k >= 2 /\ s \in Sdk /\ line[i] = k
    BY <1>0, ScriptFacts
  <1>2. Script[s][k] = Current(i)
    BY <1>1 DEF Current
  <1>3. ASSUME tree'[s] \in {"none", "empty"}
        PROVE  /\ source'[s] = "none"
               /\ \A g \in 2 .. Len(Script[s]) : Guard(s, g) => k < g
               /\ st = "ok" => Script[s][k].op # "copy"
    <2>1. /\ source[s] = "none"
          /\ \A g \in 2 .. Len(Script[s]) : Guard(s, g) => k <= g
      BY <1>1, <1>3 DEF SdkInv, InstallerInv, StopsAtGuard
    <2>2. ASSUME NEW g \in 2 .. Len(Script[s]), Guard(s, g) PROVE k < g
      <3>1. k <= g /\ k # g
        BY <1>1, <1>3, <2>1, <2>2
      <3> QED BY <1>1, <3>1
    <2> QED BY <1>2, <1>3, <2>1, <2>2
  <1>4. ASSUME tree'[s] = "whole"
        PROVE  /\ LinesDone(s, k)'
               /\ Script[s][k].op # "stubs" =>
                    \A f \in Script[s][k].writes : content'[f] = "whole"
    <2>1. LinesDone(s, k)
      BY <1>1, <1>4, ReadsWhole
    <2>2. ASSUME NEW j \in 1 .. k - 1, Script[s][j].op # "stubs",
                 NEW f \in Script[s][j].writes
          PROVE  content'[f] = "whole"
      <3>1. j \in 1 .. Len(Script[s])
        BY <1>1, ScriptFacts
      <3>2. f \in File
        BY <1>1, <3>1, LineOfScript
      <3> QED BY <1>4, <2>1, <2>2, <3>2 DEF LinesDone
    <2> QED BY <1>2, <1>4, <2>2 DEF LinesDone
  <1>5. ControlInv(i)'
    BY <1>1, <1>3, <1>4, NextKeeps
  <1>6. NothingFetched(i)'
    <2>1. pc'[i] \notin {"fetch", "fetching", "discard"}
      BY <1>1, AfterUrl
    <2>2. Outputs(s) \subseteq File
      BY <1>1, LineOfScript DEF Outputs
    <2>3. source[s] = "none" => tree[s] \in {"none", "empty"}
      BY DEF SdkInv, InstallerInv, NothingFetched
    <2> QED BY <2>1, <2>2, <2>3, NothingKeeps
  <1> QED BY <1>5, <1>6 DEF ControlInv, InstallerInv

LEMMA OwnLineStep ==
  ASSUME ScriptsInForm, SdkInv, NEW i \in Installer,
         Copy(i) \/ Edit(i) \/ Convert(i) \/ RemoveLock(i)
  PROVE  InstallerInv(i)'
  <1> DEFINE s == sdkOf[i]
  <1>1. Typed' /\ Typed
    BY StepLocal DEF Steps, Work, SdkInv
  <1>2. /\ line[i] \in 2 .. Len(Script[s]) /\ line[i] >= 2
        /\ Current(i).op = IF At(i, "rm lock") THEN "stubs" ELSE pc[i]
    <2>1. pc[i] \in {"copy", "edit", "convert"} \/ (At(i, "rm lock") /\ pc[i] \in StubsPhase)
      BY DEF Copy, Edit, Convert, RemoveLock, At, StubsPhase
    <2>2. pc[i] \in {"copy", "edit", "convert"} => ~At(i, "rm lock")
      BY DEF At
    <2> QED BY <2>1, <2>2, InUrl
  <1>3. s \in Sdk /\ line[i] \in 1 .. Len(Script[s])
    <2>1. s \in Sdk /\ Len(Script[s]) \in Nat
      BY ScriptFacts
    <2>2. line[i] \in 2 .. Len(Script[s])
      BY <1>2
    <2> QED BY <2>1, <2>2
  <1>4. Current(i).writes \subseteq File
    BY <1>3, LineOfScript DEF Current
  <1>5. \A S, how : Install(S, how) => UNCHANGED <<source, tree>> /\
          \A f \in File : content'[f] = IF f \in S THEN how ELSE content[f]
    BY DEF Install
  <1>6. tree[s] = "whole" => Made(i) = "whole"
    BY <1>2, ReadsWhole DEF Made
  <1>7. \A f : f \in Current(i).writes /\ CopiedOnly(s, f) => Current(i).op = "copy"
    BY <1>3 DEF CopiedOnly, Current
  <1>8. tree[s] \in {"none", "empty"} /\ Guard(s, line[i]) => pc[i] \in {"convert", "compile"}
    <2>1. Guard(s, line[i]) => line[i] \in 2 .. Len(Script[s])
      BY DEF Guard
    <2> QED BY <1>2, <2>1 DEF SdkInv, InstallerInv, StopsAtGuard
  <1>9. CASE Copy(i)
    <2>1. pc[i] = "copy" /\ Current(i).op = "copy"
      BY <1>2, <1>9 DEF Copy, At
    <2>2. CASE /\ tree[s] \in {"part", "whole"}
               /\ \E how \in {"part", "whole"} :
                    (tree[s] = "whole" => how = "whole") /\ Install(Current(i).writes, how)
               /\ NextLine(i, "ok")
      <3>1. PICK how \in {"part", "whole"} :
              (tree[s] = "whole" => how = "whole") /\ Install(Current(i).writes, how)
        BY <2>2
      <3>2. source[s] # "none"
        BY <2>2 DEF SdkInv, InstallerInv, NothingFetched
      <3>3. tree[s] = "whole" =>
              /\ \A f \in File : content[f] = "whole" => content'[f] = "whole"
              /\ \A f \in Current(i).writes : content'[f] = "whole"
        BY <1>4, <1>5, <3>1
      <3> QED BY <1>1, <1>2, <1>5, <2>2, <3>1, <3>2, <3>3, LineKeeps
    <2>3. CASE tree[s] # "whole" /\ UNCHANGED files /\ NextLine(i, "failed")
      BY <1>1, <1>2, <1>8, <2>1, <2>3, LineKeeps DEF files
    <2> QED BY <1>9, <2>2, <2>3 DEF Copy
  <1>10. ASSUME pc[i] \in {"edit", "convert"}, Install(Current(i).writes, Made(i)),
                NextLine(i, "ok"), ~Missing(i)
         PROVE  InstallerInv(i)'
    <2>1. Current(i).op \in {"edit", "convert"}
      BY <1>2, <1>10 DEF At
    <2>2. tree[s] \in {"none", "empty"} => ~Guard(s, line[i])
      BY <1>10, GuardMisses
    <2>3. tree[s] = "whole" =>
            /\ \A f \in File : content[f] = "whole" => content'[f] = "whole"
            /\ \A f \in Current(i).writes : content'[f] = "whole"
      BY <1>4, <1>5, <1>6, <1>10
    <2>4. \A f \in File : CopiedOnly(s, f) => content'[f] = content[f]
      BY <1>5, <1>7, <1>10, <2>1
    <2> QED BY <1>1, <1>2, <1>5, <1>10, <2>1, <2>2, <2>3, <2>4, LineKeeps
  <1>11. CASE Edit(i)
    <2>1. pc[i] = "edit" /\ Current(i).op = "edit"
      BY <1>2, <1>11 DEF Edit, At
    <2>2. CASE Missing(i)
      <3>1. UNCHANGED files /\ NextLine(i, "failed")
        BY <1>11, <2>2 DEF Edit
      <3>2. tree[s] # "whole"
        <4>1. \A f \in Current(i).reads : content[f] = "whole" => content[f] # "none"
          OBVIOUS
        <4> QED BY <1>2, <2>2, <4>1, ReadsWhole DEF Missing, Complete
      <3> QED BY <1>1, <1>2, <1>8, <2>1, <3>1, <3>2, LineKeeps DEF files
    <2>3. CASE ~Missing(i)
      BY <1>10, <1>11, <2>1, <2>3 DEF Edit
    <2> QED BY <2>2, <2>3
  <1>12. CASE Convert(i)
    BY <1>10, <1>12 DEF Convert, At
  <1>13. CASE RemoveLock(i)
    <2>1. pc[i] = "rm lock" /\ Current(i).op = "stubs" /\ UNCHANGED files /\ NextLine(i, "ok")
      BY <1>2, <1>13 DEF RemoveLock, At
    <2> QED BY <1>1, <1>2, <1>8, <2>1, LineKeeps DEF files
  <1> QED BY <1>9, <1>11, <1>12, <1>13

LEMMA OwnStubsStep ==
  ASSUME ScriptsInForm, SdkInv, NEW i \in Installer,
         Compile(i) \/ Open(i) \/ Flock(i) \/ ArReads(i) \/ ArWrites(i) \/ ArFails(i)
  PROVE  InstallerInv(i)'
  <1>1. pc[i] \in StubsPhase /\ UNCHANGED files /\ (At(i, "compile") => ~Missing(i))
    BY DEF Compile, Open, Flock, ArReads, ArWrites, ArFails, At, StubsPhase
  <1>2. \E p \in StubsPhase : Goto(i, p)
    BY DEF Compile, Open, Flock, ArReads, ArWrites, ArFails, StubsPhase
  <1>3. ControlInv(i)' /\ NothingFetched(i)'
    BY <1>1, <1>2, StubsGoto
  <1> QED BY <1>3 DEF ControlInv, InstallerInv

\* Begin, the clean call, exit 1 and a kill.
LEMMA OwnOtherStep ==
  ASSUME ScriptsInForm, SdkInv, NEW i \in Installer,
         Begin(i) \/ CleanTree(i) \/ ConvertFails(i) \/ Kill(i)
  PROVE  InstallerInv(i)'
  <1> DEFINE s == sdkOf[i]
  <1>1. s \in Sdk /\ Typed /\ Typed' /\ Local(i)
    BY ScriptFacts, StepLocal DEF Steps, Work, SdkInv
  <1>2. NothingFetched(i) /\ InLine(i)
    BY DEF SdkInv, InstallerInv
  <1>3. CASE Begin(i)
    <2>1. line'[i] = 1 /\ pc'[i] = Entry(Script[s][1]) /\ result'[i] = "none"
      BY <1>1, <1>3 DEF Begin, Typed
    <2>2. Script[s][1].op \in {"archive", "git"}
      BY ScriptFacts DEF UrlFirst
    <2>3. pc'[i] \in {"find archive", "find project"}
      BY <2>1, <2>2 DEF Entry
    <2>4. InLine(i)' /\ StopsAtGuard(i)' /\ WholeSoFar(i)' /\ Unpacking(i)' /\ Reported(i)'
      <3>1. InLine(i)'
        BY <2>1, <2>3 DEF InLine, UrlPhase
      <3>2. StopsAtGuard(i)' /\ WholeSoFar(i)'
        BY <2>1 DEF StopsAtGuard, WholeSoFar
      <3>3. Unpacking(i)' /\ Reported(i)'
        BY <2>1, <2>3 DEF Unpacking, Reported
      <3> QED BY <3>1, <3>2, <3>3
    <2>5. UNCHANGED files /\ pc[i] = "stopped"
      BY <1>3 DEF Begin, At
    <2>6. NothingFetched(i)'
      BY <1>2, <2>3, <2>5 DEF NothingFetched, files
    <2> QED BY <2>4, <2>6 DEF InstallerInv
  <1>4. CASE CleanTree(i)
    <2>1. /\ pc[i] = "stopped" /\ UNCHANGED <<source, content, line, pc>>
          /\ tree'[s] = "none" /\ result'[i] = "none"
      BY <1>1, <1>4 DEF CleanTree, At, Tree, Typed
    <2>2. line[i] = 0
      BY <1>2, <2>1 DEF InLine, UrlPhase, StubsPhase
    <2>3. InLine(i)' /\ StopsAtGuard(i)' /\ WholeSoFar(i)' /\ Unpacking(i)' /\ Reported(i)'
      BY <2>1, <2>2 DEF InLine, StopsAtGuard, WholeSoFar, Unpacking, Reported
    <2>4. NothingFetched(i)'
      BY <1>2, <2>1 DEF NothingFetched
    <2> QED BY <2>3, <2>4 DEF InstallerInv
  <1>5. ASSUME ExitScript(i), source' = source, tree' = tree,
               source[s] = "none" =>
                 \A f \in Outputs(s) : CopiedOnly(s, f) => content'[f] = content[f]
        PROVE  InstallerInv(i)'
    <2>1. ControlInv(i)'
      BY <1>5, ExitKeeps
    <2>2. pc'[i] = "stopped"
      BY <1>1, <1>5 DEF ExitScript, Typed
    <2>3. NothingFetched(i)'
      BY <1>2, <1>5, <2>2 DEF NothingFetched
    <2> QED BY <2>1, <2>3 DEF ControlInv, InstallerInv
  <1>6. CASE ConvertFails(i)
    BY <1>5, <1>6 DEF ConvertFails, files
  <1>7. CASE Kill(i)
    <2>1. CASE UNCHANGED files
      BY <1>5, <1>7, <2>1 DEF Kill, files
    <2>2. CASE /\ \/ pc[i] \in {"edit", "convert"}
                  \/ At(i, "copy") /\ tree[s] \in {"part", "whole"}
               /\ Install(Current(i).writes, "part")
      <3>1. line[i] \in 1 .. Len(Script[s]) /\ Current(i).op = pc[i]
        <4>1. pc[i] \in {"copy", "edit", "convert"} /\ Len(Script[s]) \in Nat
          BY <2>2, ScriptFacts DEF At
        <4>2. line[i] \in 2 .. Len(Script[s]) /\ Current(i).op = pc[i]
          BY <4>1, InUrl
        <4> QED BY <4>1, <4>2
      <3>2. ASSUME source[s] = "none", NEW f \in Outputs(s), CopiedOnly(s, f)
            PROVE  content'[f] = content[f]
        <4>1. Current(i).op # "copy"
          BY <1>2, <2>2, <3>1, <3>2 DEF NothingFetched, At
        <4>2. f \notin Current(i).writes
          BY <3>1, <3>2, <4>1 DEF CopiedOnly, Current
        <4>3. f \in File
          BY SMTT(30), <1>1, LineOfScript DEF Outputs
        <4> QED BY <2>2, <4>2, <4>3 DEF Install
      <3> QED BY <1>5, <1>7, <2>2, <3>2 DEF Kill, Install
    <2> QED BY <1>7, <2>1, <2>2 DEF Kill
  <1> QED BY <1>3, <1>4, <1>6, <1>7

-----------------------------------------------------------------------------
\* The invariant holds in every state, if the scripts have the form of the .sdk files:
\* failures, kills and clean calls of any number of installers do not break it.
THEOREM InstallersSafe == ASSUME ScriptsInForm PROVE Spec => []SdkInv
  <1>1. SdkInv /\ [Next]_vars => SdkInv'
    <2> SUFFICES ASSUME SdkInv, [Next]_vars PROVE SdkInv'
      OBVIOUS
    <2>1. CASE UNCHANGED vars
      <3>1. UNCHANGED <<source, tree, content, line, pc, result>>
        BY <2>1 DEF vars, files
      <3>2. Typed'
        BY <3>1 DEF SdkInv, Typed
      <3>3. ASSUME NEW i \in Installer PROVE InstallerInv(i)'
        <4>1. InstallerInv(i)
          BY DEF SdkInv
        <4>2. InLine(i)' /\ NothingFetched(i)' /\ StopsAtGuard(i)'
          BY <3>1, <4>1 DEF InstallerInv, InLine, NothingFetched, StopsAtGuard
        <4>3. WholeSoFar(i)' /\ Unpacking(i)'
          BY <3>1, <4>1 DEF InstallerInv, WholeSoFar, LinesDone, Unpacking
        <4>4. Reported(i)'
          BY <3>1, <4>1 DEF InstallerInv, Reported, At, FilesInstalled, CutOff
        <4> QED BY <4>2, <4>3, <4>4 DEF InstallerInv
      <3> QED BY <3>2, <3>3 DEF SdkInv
    <2>2. ASSUME NEW j \in Installer, Steps(j) PROVE SdkInv'
      <3>1. Typed'
        BY <2>2, StepLocal
      <3>2. ASSUME NEW i \in Installer, i # j PROVE InstallerInv(i)'
        BY <2>2, <3>2, OtherStep
      <3>3. InstallerInv(j)'
        BY <2>2, OwnUrlStep, OwnLineStep, OwnStubsStep, OwnOtherStep DEF Steps, Work
      <3> QED BY <3>1, <3>2, <3>3 DEF SdkInv
    <2> QED BY <2>1, <2>2 DEF Next, Steps
  <1> QED BY <1>1, SdkInit, PTL DEF Spec

\* A script that reports success has installed the files of its SDK, unless the archive or
\* the tree was cut off before: for any number of SDKs, of scripts and of installers, one
\* for each SDK.
THEOREM Succeeds == ASSUME ScriptsInForm PROVE Spec => []SuccessMeansInstalled
  <1>1. SdkInv => SuccessMeansInstalled
    BY DEF SdkInv, InstallerInv, Reported, SuccessMeansInstalled
  <1> QED BY <1>1, InstallersSafe, PTL
=============================================================================
