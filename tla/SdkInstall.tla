------------------------------ MODULE SdkInstall ------------------------------
(***************************************************************************)
(* sdk/install, the shell script that installs an SDK into the prefix, run *)
(* by several jobs of make at once: "make all all-sdk -j8".                *)
(*                                                                         *)
(* An SDK is a .sdk file.  Its Url line brings an archive or a git         *)
(* repository into a tree below build/; the other lines copy files out of  *)
(* the tree, convert them, or add an object to libstubs.a, which all SDKs  *)
(* share.  A line is [op, reads, writes]: "archive" and "git" are the two  *)
(* kinds of Url; "copy" is a cp out of the tree, "edit" a redirinc, sed,   *)
(* symlink, stdargs or patch, whose status is lost unless they are the     *)
(* last line; "convert" ends with "|| exit 1" (fd2sfd, clib, sfdc, lib,    *)
(* liba, libc); "stubs" compiles an object and adds it to libstubs.a.      *)
(***************************************************************************)
EXTENDS Naturals, Sequences, FiniteSets

CONSTANTS
  Installer,   \* the jobs that run the script
  Sdk,
  sdkOf,       \* which SDK a job installs
  Script,      \* the lines of the .sdk file
  File,        \* what the scripts install
  CanFail,     \* "fetch", "unpack", "convert", "ar": which commands may fail by themselves
  CanKill,     \* an installer may be killed
  None

Line == [op : {"archive", "git", "copy", "edit", "convert", "stubs"},
         reads : SUBSET File, writes : SUBSET File]

ASSUME SdkAssumption ==
  /\ sdkOf \in [Installer -> Sdk]
  /\ \A s \in Sdk : Script[s] \in Seq(Line) /\ Script[s] # <<>>
  /\ CanFail \subseteq {"fetch", "unpack", "convert", "ar"} /\ CanKill \in BOOLEAN
  /\ IsFiniteSet(Installer) /\ None \notin Installer /\ None \notin Nat

VARIABLES
  source,    \* download/$file or projects/$file: "none", "part" or "whole"
  tree,      \* build/$2: "none", "empty", "part" or "whole"
  content,   \* what is installed
  stubs,     \* the objects in libstubs.a
  path,      \* the file at /tmp/amiga-gcc-libstubs-lock, None when there is none
  open,      \* the lock file that an installer has opened
  owner,     \* lock file |-> who holds the lock on it
  read,      \* libstubs.a as the ar of an installer has read it
  line, pc,  \* where the installer is in the script, and in the line
  result     \* the status of the last command, of the script when it has ended

vars == <<source, tree, content, stubs, path, open, owner, read, line, pc, result>>
files == <<source, tree, content>>
lock  == <<path, open, owner>>

\* The files that can be the lock file: one for each installer and one at the path.
LockFile == 1 .. Cardinality(Installer) + 1

Init ==
  /\ source = [s \in Sdk |-> "none"] /\ tree = [s \in Sdk |-> "none"]
  /\ content = [f \in File |-> "none"] /\ stubs = {}
  /\ path = None /\ open = [i \in Installer |-> None]
  /\ owner = [l \in LockFile |-> None]
  /\ read = [i \in Installer |-> {}]
  /\ line = [i \in Installer |-> 0] /\ pc = [i \in Installer |-> "stopped"]
  /\ result = [i \in Installer |-> "none"]

-----------------------------------------------------------------------------
Current(i) == Script[sdkOf[i]][line[i]]
At(i, p)   == pc[i] = p
Goto(i, p) == pc' = [pc EXCEPT ![i] = p] /\ UNCHANGED <<line, result>>

\* Where a line begins.
Entry(l) == CASE l.op = "archive" -> "find archive"
              [] l.op = "git"     -> "find project"
              [] l.op = "stubs"   -> "compile"
              [] OTHER            -> l.op

\* The line has ended with the given status; the loop reads the next one.
NextLine(i, status) ==
  IF line[i] < Len(Script[sdkOf[i]])
    THEN /\ line' = [line EXCEPT ![i] = @ + 1]
         /\ pc' = [pc EXCEPT ![i] = Entry(Script[sdkOf[i]][line[i] + 1])]
         /\ result' = [result EXCEPT ![i] = "none"]
    ELSE /\ line' = [line EXCEPT ![i] = 0]
         /\ pc' = [pc EXCEPT ![i] = "stopped"]
         /\ result' = [result EXCEPT ![i] = status]

\* exit 1 outside of a subshell.
ExitScript(i) ==
  /\ line' = [line EXCEPT ![i] = 0]
  /\ pc' = [pc EXCEPT ![i] = "stopped"]
  /\ result' = [result EXCEPT ![i] = "failed"]

\* "make sdk=s"
Begin(i) ==
  /\ At(i, "stopped")
  /\ line' = [line EXCEPT ![i] = 1]
  /\ pc' = [pc EXCEPT ![i] = Entry(Script[sdkOf[i]][1])]
  /\ result' = [result EXCEPT ![i] = "none"]
  /\ UNCHANGED <<files, stubs, lock, read>>

-----------------------------------------------------------------------------
(***************************************************************************)
(* The Url line.                                                           *)
(***************************************************************************)
Source(i, how) == source' = [source EXCEPT ![sdkOf[i]] = how] /\ UNCHANGED <<tree, content>>
Tree(i, how)   == tree' = [tree EXCEPT ![sdkOf[i]] = how] /\ UNCHANGED <<source, content>>

\* if [ ! -e "download/$file" ], and the same for projects/$file
FindSource(i) ==
  /\ At(i, "find archive") \/ At(i, "find project")
  /\ IF source[sdkOf[i]] = "none" THEN Goto(i, "fetch")
     ELSE Goto(i, IF At(i, "find archive") THEN "find tree" ELSE "sync")
  /\ UNCHANGED <<files, stubs, lock, read>>

\* wget and git clone begin with an incomplete result.
Fetch(i) ==
  /\ At(i, "fetch") /\ Source(i, "part") /\ Goto(i, "fetching")
  /\ UNCHANGED <<stubs, lock, read>>

AfterFetch(i) == IF Current(i).op = "archive" THEN "find tree" ELSE "sync"

FetchEnds(i) ==
  /\ At(i, "fetching") /\ Source(i, "whole") /\ Goto(i, AfterFetch(i))
  /\ UNCHANGED <<stubs, lock, read>>

FetchFails(i) ==
  /\ At(i, "fetching") /\ "fetch" \in CanFail /\ Goto(i, "discard")
  /\ UNCHANGED <<files, stubs, lock, read>>

\* || (rm download/$file; exit 1): the subshell exits, the script goes on.
Discard(i) ==
  /\ At(i, "discard") /\ Source(i, "none") /\ Goto(i, AfterFetch(i))
  /\ UNCHANGED <<stubs, lock, read>>

\* Mutant: an empty tree is taken for an unpacked one.
FindAnyTree(i) ==
  /\ At(i, "find tree")
  /\ IF tree[sdkOf[i]] = "none" THEN Tree(i, "empty") /\ Goto(i, "unpack")
                                 ELSE UNCHANGED files /\ NextLine(i, "ok")
  /\ UNCHANGED <<stubs, lock, read>>

\* if [ ! -e "build/$2" ] || it is empty; then mkdir -p
FindTree(i) ==
  /\ At(i, "find tree")
  /\ IF tree[sdkOf[i]] \in {"none", "empty"}
       THEN Tree(i, "empty") /\ Goto(i, "unpack")
       ELSE UNCHANGED files /\ NextLine(i, "ok")
  /\ UNCHANGED <<stubs, lock, read>>

\* lha x of an archive that is not there does nothing.
Unpack(i) ==
  /\ At(i, "unpack")
  /\ IF source[sdkOf[i]] = "none"
       THEN UNCHANGED files /\ NextLine(i, "ok")
       ELSE Tree(i, "part") /\ Goto(i, "unpacking")
  /\ UNCHANGED <<stubs, lock, read>>

\* lha x ends; popd is the last command, so its status is that of the line.
UnpackEnds(i) ==
  /\ At(i, "unpacking")
  /\ \/ source[sdkOf[i]] = "whole" /\ Tree(i, "whole")
     \/ /\ source[sdkOf[i]] # "whole" \/ "unpack" \in CanFail
        /\ UNCHANGED files
  /\ NextLine(i, "ok")
  /\ UNCHANGED <<stubs, lock, read>>

\* git pull, and rsync projects/$file/* build/$2/
Sync(i) ==
  /\ At(i, "sync")
  /\ IF source[sdkOf[i]] = "none" THEN UNCHANGED files
                                  ELSE Tree(i, source[sdkOf[i]])
  /\ NextLine(i, IF source[sdkOf[i]] = "none" THEN "failed" ELSE "ok")
  /\ UNCHANGED <<stubs, lock, read>>

-----------------------------------------------------------------------------
(***************************************************************************)
(* The lines that install something.                                       *)
(***************************************************************************)
Install(S, how) ==
  /\ content' = [f \in File |-> IF f \in S THEN how ELSE content[f]]
  /\ UNCHANGED <<source, tree>>

\* cp "build/$2/$line" ...: a tree that was cut off may have the file or not.
Copy(i) ==
  /\ At(i, "copy")
  /\ \/ /\ tree[sdkOf[i]] \in {"part", "whole"}
        /\ \E how \in {"part", "whole"} :
             (tree[sdkOf[i]] = "whole" => how = "whole") /\ Install(Current(i).writes, how)
        /\ NextLine(i, "ok")
     \/ /\ tree[sdkOf[i]] # "whole"
        /\ UNCHANGED files /\ NextLine(i, "failed")
  /\ UNCHANGED <<stubs, lock, read>>

Missing(i)  == \E f \in Current(i).reads : content[f] = "none"
Complete(i) == \A f \in Current(i).reads : content[f] = "whole"

\* What a command makes of an incomplete input is not complete.
Made(i) == IF Complete(i) THEN "whole" ELSE "part"

\* redirinc, sed, symlink, stdargs, patch
Edit(i) ==
  /\ At(i, "edit")
  /\ IF Missing(i) THEN UNCHANGED files /\ NextLine(i, "failed")
                   ELSE Install(Current(i).writes, Made(i)) /\ NextLine(i, "ok")
  /\ UNCHANGED <<stubs, lock, read>>

Convert(i) ==
  /\ At(i, "convert") /\ ~Missing(i)
  /\ Install(Current(i).writes, Made(i)) /\ NextLine(i, "ok")
  /\ UNCHANGED <<stubs, lock, read>>

\* Mutant: || exit 1 is missing.
ConvertGoesOn(i) ==
  /\ At(i, "convert") \/ At(i, "compile")
  /\ ~Complete(i) \/ "convert" \in CanFail
  /\ NextLine(i, "failed")
  /\ UNCHANGED <<files, stubs, lock, read>>

\* ... || exit 1, in convert and in the first commands of stubs
ConvertFails(i) ==
  /\ At(i, "convert") \/ At(i, "compile")
  /\ ~Complete(i) \/ "convert" \in CanFail
  /\ ExitScript(i)
  /\ UNCHANGED <<files, stubs, lock, read>>

-----------------------------------------------------------------------------
(***************************************************************************)
(* The stubs line.                                                         *)
(***************************************************************************)

\* sfdc, sed and gcc
Compile(i) ==
  /\ At(i, "compile") /\ ~Missing(i) /\ Goto(i, "open")
  /\ UNCHANGED <<files, stubs, lock, read>>

\* ( ... ) 200>/tmp/amiga-gcc-libstubs-lock: the shell opens the file before flock runs.
Open(i) ==
  /\ At(i, "open")
  /\ LET fresh == CHOOSE l \in LockFile : l # path /\ \A j \in Installer : open[j] # l
         l     == IF path = None THEN fresh ELSE path
     IN  path' = l /\ open' = [open EXCEPT ![i] = l]
  /\ Goto(i, "flock")
  /\ UNCHANGED <<files, stubs, owner, read>>

\* flock -x 200
Flock(i) ==
  /\ At(i, "flock") /\ owner[open[i]] = None
  /\ owner' = [owner EXCEPT ![open[i]] = i]
  /\ Goto(i, "ar")
  /\ UNCHANGED <<files, stubs, path, open, read>>

\* ar r reads libstubs.a ...
ArReads(i) ==
  /\ At(i, "ar") /\ read' = [read EXCEPT ![i] = stubs] /\ Goto(i, "ar writes")
  /\ UNCHANGED <<files, stubs, lock>>

\* Mutant: the lock is not given back when the file is closed.
KeepLock(i) == open' = [open EXCEPT ![i] = None] /\ UNCHANGED owner

Release(i) ==
  /\ owner' = [l \in LockFile |-> IF owner[l] = i THEN None ELSE owner[l]]
  /\ open' = [open EXCEPT ![i] = None]

\* ... and replaces it; the subshell ends, which closes the lock file.
ArWrites(i) ==
  /\ At(i, "ar writes")
  /\ stubs' = read[i] \cup Current(i).writes
  /\ read' = [read EXCEPT ![i] = {}]
  /\ Release(i) /\ Goto(i, "rm lock")
  /\ UNCHANGED <<files, path>>

\* || exit 1: the subshell exits, the script goes on.
ArFails(i) ==
  /\ At(i, "ar writes") /\ "ar" \in CanFail
  /\ read' = [read EXCEPT ![i] = {}]
  /\ Release(i) /\ Goto(i, "rm lock")
  /\ UNCHANGED <<files, stubs, path>>

\* rm -f /tmp/amiga-gcc-libstubs-lock
RemoveLock(i) ==
  /\ At(i, "rm lock") /\ path' = None /\ NextLine(i, "ok")
  /\ UNCHANGED <<files, stubs, open, owner, read>>

\* The installer is killed; the system closes its files, and the command that runs
\* may leave its output incomplete.
Kill(i) ==
  /\ CanKill /\ ~At(i, "stopped")
  /\ \/ UNCHANGED files
     \/ /\ \/ pc[i] \in {"edit", "convert"} /\ ~Missing(i)
           \/ At(i, "copy") /\ tree[sdkOf[i]] \in {"part", "whole"}
        /\ Install(Current(i).writes, "part")
  /\ Release(i) /\ read' = [read EXCEPT ![i] = {}]
  /\ ExitScript(i)
  /\ UNCHANGED <<stubs, path>>

-----------------------------------------------------------------------------
Work(i) ==
  \/ FindSource(i) \/ Fetch(i) \/ FetchEnds(i) \/ FetchFails(i) \/ Discard(i)
  \/ FindTree(i) \/ Unpack(i) \/ UnpackEnds(i) \/ Sync(i)
  \/ Copy(i) \/ Edit(i) \/ Convert(i) \/ ConvertFails(i)
  \/ Compile(i) \/ Open(i) \/ Flock(i) \/ ArReads(i) \/ ArWrites(i) \/ ArFails(i)
  \/ RemoveLock(i)

\* "sdk/install clean s": rm -rf build/$2
CleanTree(i) ==
  /\ At(i, "stopped") /\ tree[sdkOf[i]] # "none"
  /\ Tree(i, "none") /\ result' = [result EXCEPT ![i] = "none"]
  /\ UNCHANGED <<stubs, lock, read, line, pc>>

Next == \E i \in Installer : Begin(i) \/ Work(i) \/ Kill(i) \/ CleanTree(i)

Spec == Init /\ [][Next]_vars

\* Commands end, and the user asks for an SDK again when its installer has stopped.
RetrySpec == Spec /\ \A i \in Installer : WF_vars(Work(i)) /\ WF_vars(Begin(i))

-----------------------------------------------------------------------------
(***************************************************************************)
(* Properties.                                                             *)
(***************************************************************************)

\* Every variable holds what its comment says, and who has the lock has opened its file.
TypeOK ==
  /\ source \in [Sdk -> {"none", "part", "whole"}]
  /\ tree \in [Sdk -> {"none", "empty", "part", "whole"}]
  /\ content \in [File -> {"none", "part", "whole"}]
  /\ path \in LockFile \cup {None} /\ open \in [Installer -> LockFile \cup {None}]
  /\ owner \in [LockFile -> Installer \cup {None}]
  /\ \A l \in LockFile : owner[l] # None => open[owner[l]] = l
  /\ \A i \in Installer : line[i] \in 0 .. Len(Script[sdkOf[i]])

Outputs(s) == UNION {Script[s][k].writes : k \in {k \in DOMAIN Script[s] :
                                                     Script[s][k].op # "stubs"}}
Objects(s) == UNION {Script[s][k].writes : k \in {k \in DOMAIN Script[s] :
                                                     Script[s][k].op = "stubs"}}
FilesInstalled(s) == \A f \in Outputs(s) : content[f] = "whole"
Installed(s) == FilesInstalled(s) /\ Objects(s) \subseteq stubs

\* Something that no retry can repair: the Url line tests for a file, not for a whole one.
CutOff(s) == source[s] = "part" \/ tree[s] = "part"

\* When the script reports success, the files of the SDK are there and complete, although
\* most lines do not look at their status; only an archive or a tree that was cut off can
\* fool it.  (libstubs.a is another matter: the exit 1 at 92 leaves a subshell only.)
SuccessMeansInstalled ==
  \A i \in Installer : result[i] = "ok" /\ At(i, "stopped")
                         => FilesInstalled(sdkOf[i]) \/ CutOff(sdkOf[i])

\* An object that is in libstubs.a stays there: the jobs that add others do not
\* write back an older archive.
ObjectsStay == [][stubs \subseteq stubs']_vars

Mishap == \E i \in Installer :
  \/ FetchFails(i) \/ (ArFails(i) /\ ~ArWrites(i)) \/ Kill(i)
  \/ ConvertFails(i) /\ Complete(i)
  \/ UnpackEnds(i) /\ source[sdkOf[i]] = "whole" /\ tree' = tree

\* Once nothing fails any more, asking again installs every SDK, unless an archive or
\* a tree was cut off before: those nothing replaces.
RetryInstalls ==
  <>[][~Mishap]_vars => <>[](\A s \in Sdk : Installed(s) \/ CutOff(s))

-----------------------------------------------------------------------------
(***************************************************************************)
(* The form of the scripts, which MCSdkInstall evaluates for its scripts   *)
(* and SdkProofs assumes.                                                  *)
(***************************************************************************)

\* A file that comes out of the tree as it is.
CopiedOnly(s, f) ==
  \A k \in 1 .. Len(Script[s]) : f \in Script[s][k].writes => Script[s][k].op = "copy"

\* A line that cannot succeed when nothing was copied.
Guard(s, g) ==
  /\ g \in 2 .. Len(Script[s]) /\ Script[s][g].op \in {"convert", "stubs"}
  /\ \E f \in Script[s][g].reads : CopiedOnly(s, f)

\* The Url line comes first, and only there.
UrlFirst(s) ==
  /\ Len(Script[s]) >= 2
  /\ Script[s][1].op \in {"archive", "git"} /\ Script[s][1].writes = {}
  /\ \A k \in 2 .. Len(Script[s]) : Script[s][k].op \notin {"archive", "git"}

\* A line reads what lines before it have written.
ReadsWritten(s) ==
  \A k \in 2 .. Len(Script[s]) : \A f \in Script[s][k].reads :
    \E j \in 1 .. k - 1 : Script[s][j].op # "stubs" /\ f \in Script[s][j].writes

\* The last line is a copy, or a line before it stops a script that copied nothing.
Guarded(s) ==
  Script[s][Len(Script[s])].op = "copy" \/ \E g \in 2 .. Len(Script[s]) : Guard(s, g)

\* The form of the .sdk files, and of their installation: one job for an SDK at a time,
\* and no file is installed by two of them.
ScriptsInForm ==
  /\ \A i, j \in Installer : sdkOf[i] = sdkOf[j] => i = j
  /\ \A s, t \in Sdk : s # t => Outputs(s) \cap Outputs(t) = {}
  /\ \A s \in Sdk : UrlFirst(s) /\ ReadsWritten(s) /\ Guarded(s)
=============================================================================
