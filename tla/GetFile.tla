------------------------------- MODULE GetFile -------------------------------
(***************************************************************************)
(* The get-file recipe of the Makefile: how one archive under download/ is *)
(* fetched, compared with the copy that is already there and replaced, and *)
(* how the rule that unpacks it decides that the archive is newer.         *)
(*                                                                         *)
(* Three files take part: f, f.bak and f.neu.  A file is abstracted to     *)
(* what the recipe can tell apart: how much of which release it holds and  *)
(* its modification time.  Every shell command is an action; make or the   *)
(* machine may be stopped between any two of them.                         *)
(***************************************************************************)
EXTENDS Naturals

CONSTANTS
  MaxVersion,   \* releases the server may offer (bound)
  MaxClock,     \* runs of wget, plus one (bound on the modification times)
  LastModified  \* the server sends a Last-Modified time, which wget sets on f.neu

ASSUME BoundsAssumption == MaxVersion \in Nat \ {0} /\ MaxClock \in Nat \ {0}
ASSUME LastModifiedAssumption == LastModified \in BOOLEAN

VARIABLES
  arc,       \* download/f, the target of the rule
  bak,       \* download/f.bak
  neu,       \* download/f.neu
  pc,        \* the next command of the recipe, "idle" when none runs
  server,    \* the release the server currently offers
  pub,       \* when the server's copy of that release was made
  clock,     \* the time; it advances when wget opens its output file
  seen,      \* modification time of f when make looked at it, 0 if f was absent
  old,       \* history: f when the recipe started, or f.bak if f was absent
  got,       \* history: what the last transfer brought
  tree,      \* the release the unpacked directory holds all of, 0 if none
  stamp      \* modification time of the stamp of the unpacked directory, 0 if none

vars == <<arc, bak, neu, pc, server, pub, clock, seen, old, got, tree, stamp>>

Versions == 1 .. MaxVersion

(***************************************************************************)
(* "cut" is a file whose transfer broke off: not empty, not whole.         *)
(***************************************************************************)
NoFile    == [size |-> "none", ver |-> 0, mtime |-> 0]
EmptyFile(t)  == [size |-> "empty", ver |-> 0, mtime |-> t]
CutFile(v, t) == [size |-> "cut", ver |-> v, mtime |-> t]
Whole(v, t)   == [size |-> "whole", ver |-> v, mtime |-> t]

File == {NoFile}
        \cup {EmptyFile(t)   : t \in 1 .. MaxClock}
        \cup {CutFile(v, t) : v \in Versions, t \in 1 .. MaxClock}
        \cup {Whole(v, t) : v \in Versions, t \in 1 .. MaxClock}

Exists(f)   == f.size # "none"
NotEmpty(f) == f.size \in {"cut", "whole"}

\* Mutant: the sizes are compared, not the bytes.
SameSize(f, g) == {f.size = g.size}

(***************************************************************************)
(* The answers cmp may give.  Two broken transfers of one release compare  *)
(* equal when they broke off at the same byte.                             *)
(***************************************************************************)
SameContent(f, g) ==
  IF f.size = "cut" /\ g.size = "cut" /\ f.ver = g.ver
    THEN BOOLEAN
    ELSE {f.size = g.size /\ f.ver = g.ver}

Init ==
  /\ arc = NoFile /\ bak = NoFile /\ neu = NoFile
  /\ pc = "idle"
  /\ server = 1
  /\ pub = 1 /\ clock = 1
  /\ seen = 0
  /\ old = NoFile /\ got = NoFile
  /\ tree = 0
  /\ stamp = 0

At(here, there) == pc = here /\ pc' = there

-----------------------------------------------------------------------------
(***************************************************************************)
(* The recipe.                                                             *)
(***************************************************************************)

\* make runs the recipe when the archive is missing, or when "make update"
\* asks for it with -B.
Start(forced) ==
  /\ At("idle", "mv")
  /\ forced \/ ~Exists(arc)
  /\ clock < MaxClock
  /\ seen' = arc.mtime
  /\ old' = IF Exists(arc) THEN arc ELSE bak
  /\ got' = NoFile
  /\ UNCHANGED <<arc, bak, neu, server, pub, clock, tree, stamp>>

\* Mutant: rm f
RemoveFirst ==
  /\ At("mv", "wget")
  /\ arc' = NoFile
  /\ UNCHANGED <<bak, neu, server, pub, clock, seen, old, got, tree, stamp>>

\* mv f f.bak: fails without effect when there is no f, and the recipe goes on.
MoveAside ==
  /\ At("mv", "wget")
  /\ IF Exists(arc) THEN bak' = arc /\ arc' = NoFile ELSE UNCHANGED <<arc, bak>>
  /\ UNCHANGED <<neu, server, pub, clock, seen, old, got, tree, stamp>>

\* wget -O f.neu truncates the file before the first byte arrives.
OpenNeu ==
  /\ At("wget", "transfer")
  /\ clock' = clock + 1
  /\ neu' = EmptyFile(clock')
  /\ UNCHANGED <<arc, bak, server, pub, seen, old, got, tree, stamp>>

\* Data arrive; the connection may break off later.
ReceiveSome ==
  /\ pc = "transfer" /\ neu.size = "empty"
  /\ neu' = CutFile(server, clock)
  /\ UNCHANGED <<arc, bak, pc, server, pub, clock, seen, old, got, tree, stamp>>

\* Mutant: the archive gets the time of the epoch.
EndTransferEpoch(all) ==
  /\ At("transfer", "test")
  /\ neu' = IF all THEN Whole(server, 0) ELSE neu
  /\ all => neu.size = "empty" \/ neu.ver = server
  /\ got' = neu'
  /\ UNCHANGED <<arc, bak, server, pub, clock, seen, old, tree, stamp>>

\* wget ends: with what has arrived, or with all of it.  Its exit status is not
\* looked at.
EndTransfer(all) ==
  /\ At("transfer", "test")
  /\ neu' = IF all THEN Whole(server, IF LastModified THEN pub ELSE clock) ELSE neu
  /\ all => neu.size = "empty" \/ neu.ver = server
  /\ got' = neu'
  /\ UNCHANGED <<arc, bak, server, pub, clock, seen, old, tree, stamp>>

\* Mutant: no cmp.
CompareNever(same) ==
  /\ pc = "test" /\ ~same
  /\ pc' = IF NotEmpty(neu) THEN "replace" ELSE "rmEmpty"
  /\ UNCHANGED <<arc, bak, neu, server, pub, clock, seen, old, got, tree, stamp>>

\* Mutant: no [ -s f.neu ].
CompareEmpty(same) ==
  /\ pc = "test" /\ same \in SameContent(neu, bak)
  /\ pc' = IF same THEN "restore" ELSE "replace"
  /\ UNCHANGED <<arc, bak, neu, server, pub, clock, seen, old, got, tree, stamp>>

\* [ -s f.neu ], and then cmp --silent f.neu f.bak.
Compare(same) ==
  /\ pc = "test"
  /\ \/ ~NotEmpty(neu) /\ ~same /\ pc' = "rmEmpty"
     \/ NotEmpty(neu) /\ same \in SameContent(neu, bak)
        /\ pc' = IF same THEN "restore" ELSE "replace"
  /\ UNCHANGED <<arc, bak, neu, server, pub, clock, seen, old, got, tree, stamp>>

\* mv f.bak f: nothing new, f keeps its old modification time.
Restore ==
  /\ At("restore", "rmSame")
  /\ arc' = bak /\ bak' = NoFile
  /\ UNCHANGED <<neu, server, pub, clock, seen, old, got, tree, stamp>>

\* mv f.neu f
Replace ==
  /\ At("replace", "rmBak")
  /\ arc' = neu /\ neu' = NoFile
  /\ UNCHANGED <<bak, server, pub, clock, seen, old, got, tree, stamp>>

\* rm f.neu, after Restore and after an empty reply
RemoveNeu ==
  /\ At("rmSame", "report") \/ At("rmEmpty", "report")
  /\ neu' = NoFile
  /\ UNCHANGED <<arc, bak, server, pub, clock, seen, old, got, tree, stamp>>

\* rm -f f.bak, after Replace
RemoveBak ==
  /\ At("rmBak", "report")
  /\ bak' = NoFile
  /\ UNCHANGED <<arc, neu, server, pub, clock, seen, old, got, tree, stamp>>

\* The status of the recipe is that of its last command, "cd ..": make takes
\* the target for updated whatever happened before.
Report ==
  /\ At("report", "idle")
  /\ UNCHANGED <<arc, bak, neu, server, pub, clock, seen, old, got, tree, stamp>>

-----------------------------------------------------------------------------
(***************************************************************************)
(* The rule that unpacks the archive, and the world.                       *)
(***************************************************************************)

Outdated == stamp < arc.mtime \/ stamp = 0

\* Mutant: the stamp is written whether or not unpacking succeeds.
UnpackUnchecked ==
  /\ pc = "idle" /\ Exists(arc) /\ Outdated
  /\ tree' = (IF arc.size = "whole" THEN arc.ver ELSE 0) /\ stamp' = clock
  /\ UNCHANGED <<arc, bak, neu, pc, server, pub, clock, seen, old, got>>

\* The unpack rule runs when its stamp is missing or older than the archive.
\* A broken archive leaves some of its files behind and no new stamp.
Unpack ==
  /\ pc = "idle" /\ Exists(arc) /\ Outdated
  /\ IF arc.size = "whole" THEN tree' = arc.ver /\ stamp' = clock
                           ELSE tree' = 0 /\ UNCHANGED stamp
  /\ UNCHANGED <<arc, bak, neu, pc, server, pub, clock, seen, old, got>>

\* The unpacker is stopped half way.
UnpackStopped ==
  /\ pc = "idle" /\ Exists(arc) /\ Outdated
  /\ tree' = 0
  /\ UNCHANGED <<arc, bak, neu, pc, server, pub, clock, seen, old, got, stamp>>

\* The shell is killed and make with it, or the machine stops: the files stay
\* as they are.
Kill ==
  /\ pc # "idle" /\ pc' = "idle"
  /\ UNCHANGED <<arc, bak, neu, server, pub, clock, seen, old, got, tree, stamp>>

\* Ctrl-C: before it exits make deletes the target of the recipe if that file
\* is not the one make saw when it started the recipe.
Interrupt ==
  /\ pc # "idle" /\ pc' = "idle"
  /\ arc' = IF arc.mtime # seen THEN NoFile ELSE arc
  /\ UNCHANGED <<bak, neu, server, pub, clock, seen, old, got, tree, stamp>>

\* The server offers another release.
Publish ==
  /\ server' \in Versions \ {server}
  /\ pub' = clock
  /\ UNCHANGED <<arc, bak, neu, pc, clock, seen, old, got, tree, stamp>>

Next ==
  \/ \E forced \in BOOLEAN : Start(forced)
  \/ MoveAside
  \/ OpenNeu
  \/ ReceiveSome
  \/ \E all \in BOOLEAN : EndTransfer(all)
  \/ \E same \in BOOLEAN : Compare(same)
  \/ Restore
  \/ Replace
  \/ RemoveNeu
  \/ RemoveBak
  \/ Report
  \/ Unpack
  \/ UnpackStopped
  \/ Kill
  \/ Interrupt
  \/ Publish

Spec == Init /\ [][Next]_vars

-----------------------------------------------------------------------------
(***************************************************************************)
(* Properties.                                                             *)
(***************************************************************************)

Commands == {"mv", "wget", "transfer", "test", "restore", "replace", "rmEmpty",
             "rmSame", "rmBak", "report"}

\* Every variable holds what its comment says.
TypeOK ==
  /\ arc \in File /\ bak \in File /\ neu \in File
  /\ pc \in Commands \cup {"idle"}
  /\ server \in Versions
  /\ pub \in 1 .. MaxClock /\ clock \in 1 .. MaxClock
  /\ seen \in 0 .. MaxClock
  /\ old \in File /\ got \in File
  /\ tree \in 0 .. MaxVersion
  /\ stamp \in 0 .. MaxClock

\* An archive that arrived whole is the archive the recipe leaves behind,
\* whatever f.bak and f.neu an earlier, killed run had left there.
WholeReplyIsInstalled ==
  pc = "report" /\ got.size = "whole" => arc.size = "whole" /\ arc.ver = got.ver

\* "make update" fetches again what has not changed; the recipe then puts the
\* old file back, with its old modification time, so that nothing that depends
\* on the archive is unpacked and built again.
UnchangedArchiveKeepsItsTime ==
  pc = "report" /\ got.size = "whole" /\ old.size = "whole" /\ got.ver = old.ver
    => arc = old

\* A transfer that brings nothing leaves no file under the name of the archive, so
\* that the next make tries again, and the former archive in f.bak, for that try.
\* Not so one that breaks off later: what it has brought replaces the archive
\* (Replace), and the former one is removed (RemoveBak).
EmptyReplyKeepsFormer ==
  /\ arc.size # "empty"
  /\ pc = "report" /\ got.size = "empty" => arc = NoFile /\ bak = old

HasCopy == NotEmpty(arc) \/ NotEmpty(bak)

\* No kill and no Ctrl-C loses the archive while it is being fetched: only an
\* interruption after the comparison, when make deletes the file that has just
\* been moved into place, can leave nothing behind.
LostOnlyAfterComparison ==
  [][HasCopy /\ ~HasCopy' => pc \in {"rmSame", "rmBak", "report"} /\ pc' = "idle"]_vars

\* When make takes the unpacked directory for up to date, it holds all of the
\* release in the archive: a broken archive, an unpacker that was stopped and
\* an old archive that came back are never hidden by the stamp.
UpToDateTreeIsWhole ==
  Exists(arc) /\ ~Outdated => arc.size = "whole" /\ tree = arc.ver
=============================================================================
