# A TLA+ verification project for amiga-gcc

bebbo/amiga-gcc builds a cross compiler for the Amiga: binutils, gcc, a dozen host tools,
the NDK and the C libraries. Its own program is the `Makefile` (1419 lines of rules, macros
and shell) and `sdk/install`, a shell script that installs SDKs. Nearly everything else in the
repository (patches, board descriptions, binaries, headers) is data; only a few of the headers
in `sys-include` hold code: the queues, trees and times of `sys/queue.h`, `sys/tree.h`,
`sys/time.h` and `sys/_timeval.h`.

What is hard about such a program is not any single command but the order of many: recipes
run in parallel, fail half way, are killed, and the next `make` goes by modification times
alone when it decides what is still to be done.

The project models how the Makefile downloads and pulls, what its rules say, how GNU make
carries them out, how it keeps its list of running jobs and its list of repositories, how SDKs
are installed side by side, and the code of the headers. TLC checks that on small instances
and on the real rules; TLAPS proves most of it for every value of the constants: for instance for
every table of rules that keeps to seven conditions, or, where no command fails and nothing is
killed, to weaker ones. Which rules of the Makefile do not keep to either is checked as well.

## 1. Inventory

Lines are those of `src/Makefile` unless another file is named.

### 1.1 Components

| component | state | operations | correct when |
|---|---|---|---|
| `get-file` (126-142) | `download/f`, `f.bak`, `f.neu` and their times | download by a missing file or by `make -B` from `update` (282-291); unpacking (697-703, 792-804) | a whole reply is installed, an empty one leaves the former archive as `f.bak`, for the next try (one that breaks off in between replaces it and the former one is deleted: 130, 134-136), an unchanged archive keeps its time, and the unpacked tree is that of the archive whenever its stamp is newer |
| rules of the compiler (398-494) | `build-*/binutils`, `build-*/gcc`, the programs in `$(PREFIX)/bin` | clone, configure, make, install, stamp | success means: everything installed, from the sources as they are |
| rules of the host tools (500-722) | their build folders, copies of sources made with rsync, installed tools | as above; patches for fd2sfd; archives for vbcc-target | as above |
| rules of the NDK (725-848) | `projects/NDK*`, `ndk-include`, the markers `build-*/ndk-include_*` | unpack, patch, copy, run sfdc over the result | as above |
| rules of the libraries (851-1022) | build folders, `$(PREFIX)/m68k-amigaos`, the libraries of gcc | as above | as above; every library is built with a finished compiler and finished libraries below it |
| multilib libraries (1154-1318) | one build folder for each library and flavour | nested shell loops | every flavour is built or the rule fails |
| clean and drop-prefix (195-275) | removes build folders, the prefix | `rm -rf` | what was removed is made again |
| update (277-371, 1121-1122) | `projects/*` | `git pull`, with a loop that deepens a shallow clone | what has changed is built again; the loop ends |
| sdk installer (`sdk/install`, 1025-1043) | archives, projects, installed headers and libraries, the lock in `/tmp` | interprets one `.sdk` file, downloads, clones, unpacks, converts | success means: everything installed; parallel installers do not disturb each other |
| list of repositories (31-42, 1045-1152) | `.repos`, `.repos.bak`, the remotes of the projects | `branch`, `update-repos`, `v`, lookups by grep | no module has two lines, `branch` changes the line of its module; the projects follow |
| pretty output (88-121) | `.state`, `.lock`, `log/*.log` | begin and end of a job | `.state` lists the jobs that run |
| headers with code (`sys-include/sys/queue.h`, `tree.h`, `time.h`, `_timeval.h`) | the pointers of queues and trees, a time | insert, remove, concatenate, swap, search; add, subtract, multiply, shift, convert | a queue is a sequence, a tree a set in order; times are exact, conversions round down |
| help, info, l, r, b, check | none | print | - |

GNU make is the part that ties them together. It is not in the repository, and it is modelled
from what the Makefile relies on: a target is made when it is missing or older than a
prerequisite, prerequisites come first, a recipe stops at the first command that fails, nothing
new is started after a failure (no `-k`), a partial target is left where it is (there is no
`.DELETE_ON_ERROR`), and up to `-j` recipes run at once.

### 1.2 How they interact

* **Through files.** A rule sees another rule only as a prerequisite, most often a stamp
  (`_done`). What the commands really use (the assembler in `$(PREFIX)/bin`, headers in the
  prefix, libraries) is not written down anywhere; it is implied by the stamps. Where it is not
  implied, the order is luck.
* **Through times.** A clone, a `git pull`, a downloaded archive (its time may be the
  server's) and `touch -t 0001010000` (406-409, 796) all influence what make does next.
* **Through the prefix.** gdb installs the programs of binutils again (431-436); `drop-prefix`
  empties the prefix and leaves the stamps (265-275); all SDKs add objects to one `libstubs.a`.
* **Through processes.** `ndk` and `all-sdk` call `$(MAKE)` again (731, 1039-1040), each with
  its own idea of what has been done. Jobs of several makes rewrite `.state` under one lock.
* **Through names.** `.repos` and `.state` are searched with grep, and a name may occur in a
  line that is not meant (117, 1137).

### 1.3 What is hard

Parallel recipes, failures between two commands of one recipe, kills at any point, statuses lost
behind `;`, `cd ..` and subshells, stamps written too early or missing, sources not listed as
prerequisites, results removed without their stamps, clocks of other machines, locks that are
removed while they are held, loops that only end when the network is there. In the headers: long
sequences of legal operations on pointers, macros that use what they have just written, and
carries. `PROJECT.json` lists 40 such hazards with their lines, and the properties that
watch over them or the reason why none does.

## 2. Modules

| module | models | state |
|---|---|---|
| `GetFile` | `get-file`, the rule that unpacks the archive | three files, the running command, the server's release, the unpacked tree and its stamp |
| `Deepen` | the loops of `update-gcc`, `update-binutils` and `v` | depth of the clone, `DEPTH`, the network |
| `Make` | GNU make over a table of rules, its user, failures and kills | files, times, the run in progress |
| `NestedMake` | a recipe that calls make: two instances of `Make` over the same files | both runs |
| `Rules` | the rules of the Makefile as such tables; what the clean targets remove | none |
| `JobLog` | the macros L1 and L2 | `.state`, `.state0`, the lock, the jobs |
| `RepoTable` | what `.repos` promises: a table of which `branch` changes one line | the table |
| `Repos` | `.repos` and the projects, command by command; implements `RepoTable` | `.repos`, `.repos.bak`, remotes, branches, the command to come |
| `SdkInstall` | `sdk/install`, several at once | archives, trees, installed files, `libstubs.a`, the lock file, each installer's line |
| `Pointers`, `Cells`, `ForwardList`, `SingleQueue`, `LinkedList`, `TailQueue` | SLIST, STAILQ, LIST and TAILQ, pointer by pointer | the pointers |
| `Lists` | what the four promise: sequences | a sequence for each head |
| `Queues` | the four in one specification, a variable says which; their properties | those of the four |
| `Trees` | what RB and SPLAY have in common: sides, loops, the outermost element | none |
| `RedBlack`, `Splay` | RB and SPLAY, pointer by pointer | the tree |
| `OrderedSet` | what both promise: a set in the order of its keys | the set |
| `Bintime` | `struct bintime`, its conversions, and the timer macros | one time |
| `FetchProofs` (`GetFile`, `Deepen`), `MakeProofs`, `SessionProofs` (`Repos`, `JobLog`), `SdkProofs`, `HeadersProofs` (`Queues`, `Bintime`), `TreesProofs`, `RedBlackProofs`, `SplayProofs` | the theorems | - |
| `MCGetFile`, `MCToolchain`, `MCSideBySide`, `MCAll`, `MCRetry`, `MCSession`, `MCNested`, `MCSdkInstall`, `MCHeaders` | instances for TLC | - |

Machines that share no file are checked in one run without their product: in `MCGetFile`,
`MCSession` and `MCHeaders`, `Init` chooses one of them, a variable says which (`part`, `kind`),
and the variables of the others stand still.

### 2.1 GetFile and Deepen: the network

One action for each command of the macro (`MoveAside`, `OpenNeu`, `ReceiveSome`,
`EndTransfer`, `Compare`, `Restore`, `Replace`, `RemoveNeu`, `RemoveBak`, `Report`); `pc`
names the command to come. A file is what the commands can tell apart: its size (none, empty,
cut off, whole), the release it comes from, its time. `cmp` of two files that broke off gives
either answer when both are of one release. `Kill` stops the recipe and leaves all files
as they are; `Interrupt` is Ctrl-C, after which make removes the target if its time has changed
since make looked at it (`seen`). `Publish` is a new release on the server. `Unpack` and
`UnpackStopped` are the rule at 697-703, which compares the archive's time with its stamp.
`LastModified` says whether the server sends a time, which wget then gives the file.

`Deepen` is `git pull || (export DEPTH=16; while true; ...)` (294, 1121-1122) and the loop of `v`
that looks for the last commit before a date. `DEPTH` doubles in the integers of the shell,
hence modulo `Width`; git refuses a depth that is not positive. The loop cannot tell a missing
network from a history that is too short, so that the depth doubles while the network is away.

### 2.2 Make and NestedMake

A rule is `target |-> [prereqs, recipe]`, a recipe a sequence of commands, a command what it
reads and what it writes. The kinds of commands differ in what they leave behind when they fail
or are killed (see `Command`): `echo done >$@` leaves all or nothing, an installation leaves
anything, a C compiler cleans up after a failure but not after a kill, a clone refuses a
directory that is there already, a command before `;` may fail unnoticed.

Two variables hold what the project is about. `newer` is what make can see: which prerequisite
is newer than which target. `unsynced` is the truth: which files were made from something that
has changed since. Time stamps themselves are not needed: writing a set of files makes them the
newest of all. The actions are those of make (`Invoke`, `Skip`, `Start`, `Succeed`, `Fail`,
`Overlook`, `Exit`, `Crash`) and of its user (`Pull`, `Remove`). `built` remembers the goal of
a run that succeeded, until something is done.

Prerequisites and goals are the stamps of the phony targets (`gcc` is `build/gcc/_done`). The
Makefile's `$(shell find ...)` over the sources of p is the node `src p`.

`NestedMake` has a second instance of `Make` with its own goal, statuses and program counters over
the same `content`, `newer` and `unsynced`. One command of one recipe (`Caller`) starts the
child and waits for it; the child runs in the slot of this recipe, and both share `Jobs`.

### 2.3 Rules

One table for each project, joined with `@@`. `src p` is the checked out source, `copy p` the
copy made with rsync, `obj p` what is compiled in the build folder, `bin p` and `prefix p` what
is installed. Commands in a row that write to one tree are one command, since nothing can tell
them apart: a kill or a failure leaves the tree in part in either case. The clones of binutils,
gcc and fd2sfd are tables of their own; but for binutils in the run `all`, the projects are checked
out, as after `make update`, and their files are sources. The `Clean...` sets are the nodes
in the folder that the clean target removes. A loop over the multilibs is two commands: one for the
last flavour, whose status is that of the loop, and one for all others, whose status is lost; so are
the other loops of the shell (`Loop`: the patches of fd2sfd and of the NDK, 528 and 794, the prototypes
of the NDK, 738-741, and all of ndk13, 814-836).

Sources are split where the rules treat them differently. `src binutils/grammars` are the four files
that the recipe of binutils itself makes old (406-409); they are prerequisites of its stamp, and a
command of the kind `backdate` comes first in its recipe. `src gcc` is what the `find` of gcc lists, the files
of ten directories (482-487), `src gcc/unlisted` what the compiler is built from besides (`include`,
`gcc/ginclude`, `gcc/common`, most of `gcc/config` and so on).

`NdkRules` is the rule at 728-733 when the NDK has been unpacked before make starts: make then knows
the headers (718-720), and `$(MAKE)` in the recipe has nothing to make but, at most, a stamp that no command reads. In the
first build of all make knows no headers, and the recipe calls a make that does:
`NdkNestedRules`, with the second make in `NestedMake`.

### 2.4 JobLog, Repos and RepoTable: the files beside the build

`JobLog` is L1 (append a line to `.state` under `.lock`) and L2 (`grep -v` into `.state0`, then
`mv`, under the lock), command by command, by any number of jobs; `StartMake` removes `.state`
without the lock (94). `HasFlock = FALSE` is a machine without flock, where the macro's `flock` is
an echo. Lines are represented by their jobs; `Contains` says which names contain which.

`Repos` has one action for each command of `branch` (move aside, grep into the new file, append),
of `update-repos` and `v` (one project after the other), and for what every starting make does:
copying `default-repos` when there is no `.repos`. A line is `[module, url, branch]`; `Match` is
grep, by the words that occur in others (`Holds`). A module is any word that is typed; only those of
`default-repos` are cloned (`Project`). `Kill` may come between any two commands.
`RepoTable` is the abstract specification, with the refinement `table <- the lines of .repos`, or those of
`.repos.bak` while `branch` is between `mv` and `echo`; `TableChangesAsPromised` is `Table!Spec`. What it promises is
limited by what grep can know: `SetBranch` changes the branch in the line of a module, but
`TakeOver` gives the URL of another module to one that has no line, and removes the line of the other.

### 2.5 SdkInstall

A `.sdk` file is a sequence of lines `[op, reads, writes]`, and an installer a position in it. The
lines differ in what becomes of their status: lost unless they are the last, or `|| exit 1` in
the script (`ExitScript`), or `exit 1` in a subshell, after which the script goes on
(`Discard`, `ArFails`). The Url line (10-60) tests whether the archive and the tree are there, not
whether they are whole. The lock file of `libstubs.a` (88-94) is modelled as the system has it:
a path that names a file or none, files that stay open after they were removed, and a lock
on the file, not on the path.

### 2.6 The containers and Bintime

A queue is its pointers. `Queues` chooses one of the four kinds at the beginning and then does the
operations of this kind; `EndOf` and `WalkFrom` are the loop of the FOREACH macros. A cell is a place that holds a pointer: the first of a head or the next of
an element; the cell stands for its address, which is what `stqh_last`, `tqe_prev` and `le_prev`
hold. Every macro that changes something is an action with the assignments in their
order. `QueuesActOnLists` says that each action is the operation of `Lists` of the same name under
the refinement that walks along the pointers.

A red-black tree is a record of root, children, parents and colours; each macro of `tree.h` is an
operator on such records, and its two mirrored halves are one operator with the side as argument. A
loop is `Repeat` of its body (`InsertRound`, `RemoveRound`, `SplayRound`), a function that leaves a
state alone in which the condition of the loop does not hold. It is applied as often as there are
elements, which is enough, since no loop of a tree meets an element twice; the proofs show
that the loop has ended by then. `RedBlackActsOnSet` and `SplayActsOnSet` refer to `OrderedSet` as the
queues do to `Lists`. `Splay`
does the same for the splay tree; its temporary node `__node` is the constant `Node`, no
element, from which the two parts of the tree hang that a search leaves behind. `RedBlackRules` is the
comment at the head of `tree.h`, in terms of the way from the root to an element (`Way`), the black
elements on it (`Blacks`), and elements that lack a child (`HasLeaf`).

`Bintime` is arithmetic on 64 bits: `Half` is 2^32, sums and products are taken modulo `Half^2` where
C does. A function that changes its argument is an operator that returns the new value. The timer
macros (`_timeval.h`, `timespecadd` and so on) are there with the number of units in a second as
argument.

## 3. What is checked

### 3.1 Properties

| property | says | why it could be wrong |
|---|---|---|
| `SuccessMeansBuilt` | after `make` has succeeded, every output of every rule of the goal is there, whole, and made from the sources as they are | an early stamp, an unlisted source, a target that is the result itself |
| `InputsReady` | whatever a command reads is there, whole, and no command that runs at the same time is writing it | a missing prerequisite; it shows only under some orders of `-j` |
| `OneWriter` | no two running commands write one file | gdb and binutils install the same programs |
| `NothingTwice` | `make` once more starts no recipe | a stamp that is not where make looks for it, a prerequisite that stays newer |
| `EveryRunEnds` | a run of make comes to its end | a target that waits for one that has failed |
| `RetrySucceeds` | if from some time on nothing fails any more, trying again leads to success and make stays there | leftovers that no later run can get past |
| `WholeReplyIsInstalled`, `UnchangedArchiveKeepsItsTime`, `EmptyReplyKeepsFormer`, `LostOnlyAfterComparison`, `UpToDateTreeIsWhole` | see `GetFile` | leftover `.bak` and `.neu` files, an empty file that replaces a good one; that a cut file replaces a good one is what the code does, and no property denies it |
| `DeepeningEnds` | with the network back for good, the loop ends, unless `DEPTH` has become 0 before or the commit does not exist | the depth doubles past 2^63 while the network is away, and git refuses it for ever |
| `OverflowNeedsOutage` | without an outage `DEPTH` never overflows in vain | a history longer than the largest depth that is tried |
| `ListedJobsRun` | a job in `.state` runs, or was killed | a rewriting of the list that brings back a line removed meanwhile |
| `LinesLeaveRightly` | a line leaves `.state` only with its job, with one whose name it contains, or when a make starts | a line appended between `grep` and `mv` |
| `TableChangesAsPromised` | `.repos` implements `RepoTable`, whenever make is killed and whatever words occur where: one line changes at a time, no module gets two, a kill loses one line or all; a module without a line can take that of another | the file is rewritten in three commands, and searched by grep |
| `BranchChangesItsLine` | of a module that has a line, `make branch` changes the branch in that line and nothing else | grep finds the name in another line, too, and removes what it finds |
| `UpdateRepairs` | when `update-repos` has ended, each project whose line is the only one with its name has the remote of that line | an earlier run was killed half way, or a project was cloned from an old line |
| `SuccessMeansInstalled` | an installer that reports success has installed every file, unless an archive or tree was cut off | most statuses are lost; only some later line may notice |
| `RetryInstalls` | once nothing fails any more, asking again installs every SDK that was not cut off | leftovers of a kill; a lock that nobody gives back |
| `ObjectsStay` | an object in `libstubs.a` stays there | see 3.3 |
| `OneWriterOfBoth` | parent and child make do not write one file at once | see 3.3 |
| `ArithmeticIsExact`, `TimersAreExact` | sums, differences, products and shifts of times are the exact ones | carries, masks, the order of additions |
| `ConversionsRoundDown` | a conversion never rounds up, loses less than one unit, and a detour through another format loses at most one | products of halves, the sign |
| `QueuesActOnLists`, `RedBlackActsOnSet`, `SplayActsOnSet` | each operation does to the pointers what its name says of the sequence or set | the order of assignments, a macro that reads a pointer it has just changed, an empty queue, the last element |
| `AnswersOfQueues`, `AnswersFromSet` | LAST and PREV, or FIND, NFIND, NEXT, MIN and MAX answer what the sequence or the set answers | LAST is computed from a back pointer that may be stale |
| `Linked`, `ParentsKnowChildren` | pointers and back pointers agree, and a queue ends where its head says | as above |
| `RedBlackRules` | no red element has a red parent, every way to a leaf has as many black ones, and the height is at most 2 lg (n + 1) | rebalancing after a removal |

### 3.2 Runs that pass

| run | instance | states |
|---|---|---|
| `getfile` | two releases, three downloads, every kill and Ctrl-C, no times from the server; or a clone whose commit is at one of six depths and a network that comes and goes | 16,891 |
| `toolchain` | binutils, gprof, gcc; `-j2`, failures, kills, two pulls, each of a file that the stamp's rule lists and of all others, `clean-binutils`, `clean-gcc` | 728,528 |
| `side_by_side` | binutils, gdb, vasm; `-j2`, failures, noticed or not, a pull, `clean-binutils` | 629,256 |
| `all` | `make all -j2` after `make clean drop-prefix`: an earlier make has unpacked the NDK, binutils is to be cloned; in all orders | 256,941 |
| `update` | the rules of the libraries, one job, four sources that may change any number of times | 71,568 |
| `retry` | binutils and gcc with failures, kills, pulls and clean targets, under fairness | 26,324 |
| `session` | `.state` with three jobs, or `.repos` with two modules, a third word that is part of the name of one, a branch named after the other, and kills | 3,246,709 |
| `sdk_install` | two installers, one SDK of an archive and one of a git repository, every failure, kills, `clean` | 115,227 |
| `headers` | two heads and four elements for each queue; red-black trees of eight elements with seven keys, splay trees of seven with six; all pairs of times of a small width | 7,902 |

Nothing in `Make` is bounded but `-j` and the rules that are built: a finite table has finitely
many states, so runs, failures, kills and pulls may follow each other without end. The same
is true of `JobLog`, `Repos`, `SdkInstall`, `Deepen` and the containers: their states are finite, and
their behaviours are not cut off anywhere. Two jobs are enough for the properties of pairs of
commands (`InputsReady`, `OneWriter`); the theorems cover any number. `all` leaves out gprof,
ira, vasm and ixemul, which touch none of the other rules beyond binutils and would multiply the
states, libSDL12, and gdb: that gdb installs the programs of binutils while gcc may be using them (435) is not in any
run, only that gdb and binutils keep apart (`side_by_side`). `all` is not the first build of all either, in which
the rule of the NDK calls a second make (731): that one violates `OneWriterOfBoth` in `nested_make`, so
that what `all` shows is not true of it.

Pulls in `toolchain` and `retry` change everything in a project. A pull of the four grammars
of binutils alone is forgotten when a later command of the recipe fails, since the recipe has made
them old (406-409), and one of unlisted sources of gcc alone is never noticed (482-487). Then make
reports success over what is not current: `SuccessMeansBuilt` is false of such pulls, and these two
runs do not have them (`ForgottenPulls` and `UnlistedSources`, 3.4). `update` has one job, because `SuccessMeansBuilt` and `NothingTwice` speak of
the time between runs, and takes the compiler as given, which `toolchain` builds.

In `GetFile`, `MaxClock = 4` allows three downloads: one that leaves `f.bak` or `f.neu` behind,
one that meets them, and one more; `MaxVersion = 2` is what a comparison can tell apart. The runs
of `GetFile` end when the clock is used up, hence `CHECK_DEADLOCK FALSE`; all other modules never
stop and are checked for deadlock. In `Deepen`, `Width = 256` stands for 2^64: the
history of 60 is reached after two doublings of 16, after three `DEPTH` is negative, after four it
is 0; the depths to be found are at and around the first two, the whole history, and one that
is not there.

In `session`, the name of the second job contains that of the first; a kill can come anywhere. `nix` is a word that
occurs in the lines of libnix, and `libnix-next` a branch that gcc can have, too. Together with kills they reach
the wrong lines that the code allows: `branch mod=nix` renames the line of libnix; and when `branch mod=libnix` is killed
before the `echo` (1142), libnix's line is lost, so that, after gcc was given the branch `libnix-next`, a
second `branch mod=libnix` finds gcc's line, counts one (1137), and writes a line of libnix with the URL of gcc
in its place. `RepoTable` has this step as `TakeOver`. In `headers`, four elements and two heads
are what CONCAT, SWAP and the removal after an element need to have something before and
after; seven keys make red-black trees of height four, in which each case of the removal
occurs, and an eighth element has the key of another one; a splay tree, which takes every shape, has one
element less. `Half = 8` leaves room for a carry in each of
the two halves, and the units 3 and 4 divide `Half^2` with and without remainder.

**Fairness.** `FairSpec` assumes weak fairness of `Step`: commands end one way or the other, and
make goes on as long as it can. It does not assume that commands succeed. `RetrySpec` of `Make`
adds that the user types `make` again after each run, which is what "trying again" means.
`RetrySucceeds` asks for success only if the mishaps (failures that need not be, kills, pulls, clean
targets) cease. `RetrySpec` of `SdkInstall` is the same for each installer: its commands end, and it
is asked again; since the lock is waited for with `Work(i)` under weak fairness, `RetryInstalls`
also shows that nobody waits for it for ever. `UpdateSpec` of `MCGetFile` has weak fairness of
the commands of a loop that deepens; that the network stays is a premise of `DeepeningEnds`, not an
assumption.

### 3.3 Runs that find a violation

Each checks what a comment or document of the repository says against what the code does.

| run | what happens |
|---|---|
| `getfile_server_time` | a new archive whose server time is older than the last unpacking is never unpacked (129) |
| `sdk_stubs` | the lock of `libstubs.a` is removed after it is given back: an installer that comes now makes a new lock file while one that waited holds the old, and one of their objects is lost (`sdk/install`:94) |
| `nested_make` | the make that the recipe of ndk calls builds sfdc while its parent builds sfdc (731) |

### 3.4 The rules and their conditions

`Make` states what a rule should keep to, each rule for itself. `MCRetry` lets TLC
evaluate the conditions for all targets of the Makefile that are modelled, the multilib libraries
included, in a tree that is checked out, with every source subject to change and every clean
target; the exceptions are listed in its assumptions, so that a change of the tables that adds one is
noticed. There a pull is of one source, which is the strictest reading of the two conditions that speak of
pulls; the tables of the runs have the pulls of 3.2.

| condition | meaning | exceptions (assumption in `MCRetry`) |
|---|---|---|
| `StampedLast` | the target is a stamp, written last | rules whose target is the result itself (ira, fd2sfd, sfdc, fd2pragma, the headers made by sfdc, libamiga.a, newlib's libc.a, libnix4.library, ixemul, vlink's Makefile, the multilib libraries), that do something after the stamp (vbcc-target), or that lose a status (vasm, the loops of the unpacked NDK, of `ndk-include_ndk0` and of ndk13, multilibs) (`ResultsAsTargets`); all clones (`ClonesAsTargets`) |
| `WrittenOnce` | an output has one command that writes it | binutils and gdb; newlib's libc.a, made and then touched (`SharedOutputs`) |
| `OrderComplete` | what a command reads is made above, or earlier in the recipe | ixemul, which unpacks with lha and does not wait for it (1020); zlib, which does not wait for gcc and libnix (`MissingPrerequisites`) |
| `BackdatesOwn` | what a recipe gives a time long ago is no prerequisite of another rule, and nothing that another rule uses that may run at the same time | none (`HarmlessUndisturbed`) |
| `SourcesListed` | a pull that changes what is read changes a prerequisite, here or above | gcc (its Makefile: headers of newlib; its stamp: all that is not in the ten directories of 482-487), vlink, both vbcc targets, ndk13, both libamiga.a, libgcc (sources of libstdc++) (`UnlistedSources`) |
| `PullsNoticed` | a pull that changes a prerequisite changes one that the recipe does not make old | the stamp of binutils (406-409), the unpacked NDK (796) (`ForgottenPulls`) |
| `CleanedWhole` | whoever removes an output removes the stamp, or a target above it | none of the clean targets (`CleanTargetsComplete`); `drop-prefix` leaves ten stamps of what it removes (`DroppedWithoutStamps`) |

What follows from an exception is what the condition is needed for in `MakeProofs`: a killed clone
leaves a directory that every later clone refuses, after `drop-prefix` `make all` installs nothing
of the ten, a libc.a whose installation failed is never installed by a later make, a change in `gcc/config`
alone makes no new gcc, and a new grammar of binutils whose build has failed is not tried again.

Nearly all exceptions of the first kind need a failure or a kill to do harm. `WellOrdered` is what
is enough without: some command makes the target (`MakesTarget`), outputs belong to one
rule (`OwnOutputs`), no command makes what an earlier one has used (`ReadsInOrder`), a prerequisite
is a source, a target, or comes with a target above (`PrereqsMade`), a clone comes first and is removed as a
whole (`ClonesFirst`), and of the table `BackdatesOwn`, `OrderComplete`, `SourcesListed` and `CleanedWhole`. Of the rules and clones of the
Makefile, all but binutils and gdb keep to the first six (`HarmlessUndisturbed`). What then remains
(`MostRulesOrdered`): without gdb, ixemul, zlib and what is built from zlib, the other 75 of the 87
rules and clones are a `WellOrdered` table, for all clean targets and for pulls of every source
but seven (`Unlisted`). (The unlisted sources of gcc and those of libstdc++ come with a clone in this
table and do not change.) The tables of the runs `all` and `update` are such tables as well
(`RunsOrdered`), so that the theorems about them say for any `-j` and any order what the runs show
for one and two jobs.

## 4. What is proved

All proofs are checked by TLAPS without any assumption but those of the modules, which TLC
evaluates for each instance: bounds are positive in `GetFile`; in `Make` the table is made of
nodes and commands, recipes are not empty, `Above` is the transitive closure of the prerequisites,
without a cycle, and goals, pulls and removals are sets of nodes; in `Repos` `default-repos` is
finite with one line for each module; in `SdkInstall` there are finitely many installers, scripts are
non-empty sequences of lines, and the file that is none is not one; in `Cells` heads, elements and the
null pointer differ, and the elements are finitely many; in `Bintime` the units and factors fit the word, as nanoseconds, microseconds and powers of two
do. Where a theorem needs more, it says so with a definition of its own.

**FetchProofs**, `GetFile`: type correctness and all five properties of `GetFile`, for any number of
releases and downloads. The inductive invariant `Recipe` says for each command what the
commands before it have made of the three files; it is needed because the properties speak of
the end of the recipe, while the files of an earlier, killed run may lie about in any
combination when it starts. `UpToDateTreeIsWhole` is proved for `LastModified = FALSE`; for `TRUE`
the run `getfile_server_time` shows that it does not hold.

**FetchProofs**, `Deepen`: `NoOverflow`, for every width of the shell's integers in which the
depth that reaches the whole history is not yet negative (`DepthsFit`). The invariant `InRange` says
that a loop that has had the network all the time tries a positive depth, or is about to stop: a
try that was not enough is less than the history, and twice that is in range (`OneTry`).

**MakeProofs**: type correctness holds for every table of rules. For every table that is
`WellFormed`, that is, meets the seven conditions, with any number of jobs, failures, kills,
pulls and removals:

* `SuccessBuilds`: `Spec => []SuccessMeansBuilt`
* `CommandsFindInputs`: `Spec => []InputsReady`
* `WritersDiffer`: `Spec => []OneWriter`
* `SecondRunIsIdle`: `Spec => NothingTwice`

None of the four is inductive. The invariant `IInv` has two parts. `FilesInv` speaks of the files: if
make has no reason to make a target nor any target above it (`DeepClean`), then its outputs are
whole and in sync; and what looks finished but for the prerequisites that the recipe itself makes old
is finished (`Kept`), since a recipe that has made them old may then fail. `RunInv` speaks of the run: what is above a running or finished target is
finished, a finished target is clean, and what the earlier commands of a running recipe have written
is whole and in sync. The heart of the proof are two lemmas: writing the intermediate outputs of a
running recipe changes nothing that make looks at and spoils nothing that is
`DeepClean` (`QuietKeepsFiles`), and writing the target at the end makes it clean and everything
below it unclean (`FinishKeepsFiles`). Both rest on `Dependence`: when n is made from m, the
command that writes m comes before the one that writes n.

The theorems apply to a table as a whole, and to the pulls that go with it. `TrustedRules` of `MCRetry` shows that binutils and gcc
are such a table when a pull always changes a file, too, that the stamp's rule lists and does not make old. With pulls of
the four grammars alone, or of unlisted sources of gcc alone, they are none, and
`SuccessMeansBuilt` does not hold of them. The other exceptions of 3.4 are what keeps the Makefile as a whole from being one.

For every table that is `WellOrdered`, where commands do not fail of themselves and nothing is
killed (`Undisturbed`), but with any number of jobs, pulls and removals, the same four properties hold
(`CalmSuccessBuilds`, `CalmCommandsFindInputs`, `CalmWritersDiffer`, `CalmSecondRunIsIdle`), and in
addition no run of make gives up (`NoRunStops`): no command is ever without what it needs,
and no clone meets a directory that is there. This covers nearly all rules (3.4). The second invariant,
`CalmInv`, is needed because a target may now look finished while its recipe is still running: it
speaks of the files only where nothing above is being made (`Settled`), and of a running recipe
it says that the target, once it is made, is newer than everything below it, and that an output is whole
and in sync after the last command that makes it (`CalmRecipe`). `MadeFrom` takes the place
of `Dependence`. `WellFormedIsOrdered` shows that the conditions are weaker indeed.

**SessionProofs**, `JobLog`: `Listed` and `LinesLeave`, for any jobs and names, where flock is installed. The
invariant `LogInv` is mutual exclusion, and that `.state0` of the job that holds the lock is what
`.state` would be without the lines that grep found, less what a starting make has removed.

**SessionProofs**, `Repos`: three invariants, the first two of which hold whatever the words of the lines are. `AnyWordsInv` types the
state (`Typed`), and says that `update-repos` repairs what it has reached, whatever was killed
before (`Repairs`). `TableInv` says what `branch` knows at each command: the list that it has moved away has one
line that grep finds, and its URL is the one that will be written. That line is the line of the module if the module has one, since
grep finds that in any case (`FoundFirst`). Hence `make branch` changes the line of a module that has one and
no other (`BranchChanges`), and the list of repositories implements `RepoTable` (`TableChanges`, a
refinement), where a module that has no line may take over another one's. `ReposInv` holds where no name occurs in the line of another module
(`OwnWords`): each module has at most one line, and grep finds no other. That is so in `default-repos`, but nothing in
the code keeps the user from a branch that breaks it. Only `RepairsAll`, that `update-repos` reaches every remote, needs it.

**SdkProofs**: the types hold for any scripts (`WellTyped`). `Succeeds` holds for any number of SDKs
with one installer each, whose scripts have the form of the `.sdk` files (`ScriptsInForm`: the Url
line comes first, a line reads what earlier ones wrote, and a file that is copied is converted, or
copied by the last line). The argument: over a whole tree, every line leaves whole files, one after the
other (`LinesDone`). Without a tree nothing was ever fetched, so that no copied file is there
(`NothingFetched`), and the script cannot get past the first line that converts one (`StopsAtGuard`).

**HeadersProofs**, `Queues`: the four kinds of queues of `sys/queue.h`, for any number of heads and elements. All
invariants and the refinement are proved: every operation does to the sequences what its name says
(`ActOnLists`), what a LIST or TAILQ points to points back and `stqh_last` is at the
end (`LinkedAlways`), and what is read from the fields is what the sequences say (`AnswersRight`). The
properties speak of what a loop over the pointers finds (`Walk`). The argument has three layers:
what insertion and removal do to a sequence (`WithElem`, `WithoutElem`); what assigning two or three
pointers does to sequences that pointers represent (`Chained`, `BackChained`, `KnowsEnd`); and that
each macro assigns these pointers. `WalkFinds` connects the loop with the sequence: where pointers
represent a sequence, the loop finds it. It needs no induction over the pointers: that the walk and the
sequence differ somewhere is refuted at the first place where they do (`LeastNumber`). The invariant
`QueuesInv` says that the pointers of all cells represent sequences without a common element, so that no
walk runs in circles or into another queue.

**HeadersProofs**, `Bintime`: `Typed`, `Exact`, `TimersExact` and `RoundDown`, for every width of the
fraction and every unit that meets `BintimeAssumption`, hence for 64 bits, nanoseconds and
microseconds. The invariant is only that the time is normal; the proofs are about `\div` and `%`:
`DivMod` and `DivUnique` characterise them, the other lemmas follow the carries.

**RedBlackProofs**: all that is checked of red-black trees holds for any number of elements with
any keys, duplicates included: `ParentsRight`, `RulesHold`, `RbActs` and `AnswersRight`. The
properties speak of what can be reached by pointers, where nothing can be said by
looking at a single edge. The inductive invariant `Sound` (`SoundAlways`) therefore has two witnesses:
a family `u` that gives each element the set of the elements below it (`IsTree` in
`TreesProofs`: the set of a child is the part of its parent's set on that side of its key), and a function `h`
that gives it the number of black elements on the ways below it (`Level`: this and the colour of an
element determine `h` at its children). Both are conditions on single edges, and what can be
reached is what they say (`BelowIs`). The proofs follow the code:

* a rotation changes the family at two elements (`Turn`), and the order of the keys nowhere;
* `Inserting` is the invariant of the loop of RB_INSERT_COLOR: all rules hold but that one red
  element may have a red parent; `Removing` is that of RB_REMOVE_COLOR: below `p` on side `s` one black
  element is missing (`Lack`). The cases of the code are a lemma each (`InsertUncle`, `InsertInner`,
  `InsertOuter`; `RemoveRedSibling`, `RemoveBlackSibling`, `RemoveInnerRed`, `RemoveOuterRed`).
  Both loops end because the set above the element in question grows smaller (`RepeatEnds`);
* RB_REMOVE of an element with two children unlinks its successor (`Detach`) and puts it into the
  element's place (`Replace`), in the tree and in the colours (`Leave`, `Rename`);
* a search keeps the elements that may have the key below it (`SearchIs`, `NSearchIs`), and RB_NEXT
  climbs as long as nothing that is greater lies below (`ClimbIs`);
* the height: the numbers of black elements on two ways differ by the levels (`WayIs`), below an
  element of level n there are at least 2^n - 1 others (`ManyBelow`), and at most half of
  a way is red.

**SplayProofs**: `SplayActs`, for any number of elements and any keys: every operation, the questions
included, keeps the set or changes it as its name says, and answers what the set answers. The
inductive invariant is that the pointers form a tree in the order of the keys
(`SplaySoundAlways`). `Searching` is the invariant of the loop of SPLAY and SPLAY_MINMAX: the elements
are divided between the tree that is left and two trees that hang on `__node`, each open at one
place (`Hung`), on the side of the key to which it belongs; this needs no more of the comparison than that
it grows with the key (`Monotone`), which also covers MINMAX. The number of elements that the
comparison can still reach decreases (`Rest`). At the end nothing lies between the root and the key
(`Closest`), and SPLAY_ASSEMBLE fills the two open places and joins the three trees (`Fill`,
`Join`). SPLAY_REMOVE is right because its second search, for a key that is greater than all that is left,
ends at an element without a right child.

**Left to TLC**: liveness (`EveryRunEnds`, `RetrySucceeds`, `RetryInstalls`, `DeepeningEnds`),
which needs ENABLED, and the transitive closure `AboveOf`, which is recursive and therefore
defined in `Rules`, where nothing is proved, and enters `Make` as an assumption. Every invariant and
every action property of a passing run is a theorem.

## 5. What is not modelled

* **Content** of files, compilers and their options; `mkdir`; what L0 to L2 print, `log/`; the help
  and info targets; `check`, which runs gcc's own tests; the data folders; CI.
* **Make**: `-k`, `-n`, `.PHONY` as nodes; GMP, MPC and MPFR below `OWNGMP` and `update-gmp`,
  `-mpc`, `-mpfr`, which `update` does not call. The multilib rules are examined by the conditions of
  3.4 and not built in a run. The clones other than those of binutils, gcc and fd2sfd, which have
  the same form.
* **Times of copies**: `rsync -a`, `lha x` and `cp -p` keep the times of what they copy. Where such a copy
  is a prerequisite or a target (the Makefile among the sources of vasm, vbcc, libpthread and libSDL12, 598; the
  files of ixemul, 1020) it is modelled as written anew.
* **lha**: the four commands before `./configure` (668) lose their statuses behind semicolons. `LhaRules` has them and
  `configure` as one checked command, because `configure` is what they make and fails without it. Every other
  group of the recipe ends with the `exit` of L2.
* **v**: checking out the commit of a date.
* **SDKs**: two installers of one SDK at once, which `make all all-sdk` can start (1309). `SdkInstall`
  allows them, and TLC finds `SuccessMeansInstalled` violated when `sdkOf` maps both installers to `cgx`:
  one copies from the tree that the other is unpacking. The run and the theorem have one each. `git pull` in the wrong folder after a failed `pushd`
  (`sdk/install`:20) is a failure of the line like any other.
* **Bintime**: the seconds are unbounded integers: the width of `time_t` is not modelled, nor the shift counts at or above the
  width of a word, which C leaves undefined (`sys/time.h` 114-126).
* **repositories**: the user edits a URL into one that no other module's name occurs in. A call of `branch` without `mod`.
* **Headers**: the checks and traces of `QUEUE_MACRO_DEBUG`, the augmentation hook of the red-black
  tree, the conversions of `sbintime_t` to timespec and timeval, which are those of bintime
  once more. All other headers of `sys-include` hold declarations, types and constants, and no rule
  copies them any more (880 is a comment): there is no behaviour in them to model. They are most
  of the lines of the repository, which is why the map covers a small share of all lines although
  it covers nearly all that is executed.

## 6. Plan

Done: everything in section 2. What is left, most important first:

1. Two installers of one SDK (1309): the conditions under which `Succeeds` still holds.
2. A run that builds a multilib library, and a run for each group of exceptions where it
   says something that 3.3 does not.
