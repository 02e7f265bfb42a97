------------------------------ MODULE MCRetry -------------------------------
(***************************************************************************)
(* binutils and gcc, tried again and again.  What MakeProofs assumes of a  *)
(* table of rules holds of this one; of the rules of the Makefile taken    *)
(* together, and of pulls that change one thing only, it holds but for the *)
(* rules that are named below, and binutils and gcc are among them.        *)
(***************************************************************************)
EXTENDS Make, Rules

MCRules == BinutilsRules @@ GccRules
MCNode  == NodesOf(MCRules)
MCAbove == AboveOf(MCRules)
MCGiven == SourcesOf(MCRules)
MCGoals == {{"build/gcc/_done"}}
MCPulls == {{"src binutils", "src binutils/grammars"},
            {"src gcc", "src gcc/unlisted", "projects/gcc/configure"}}
MCRemovals == {S \cap MCNode : S \in {CleanBinutils, CleanGcc}}

ASSUME TrustedRules == WellFormed

-----------------------------------------------------------------------------
(***************************************************************************)
(* All rules, in a tree that is checked out: any source may change, any    *)
(* clean target may be called.  drop-prefix is not among these: it leaves  *)
(* the stamps of all it removes.                                           *)
(***************************************************************************)
AllRules ==
  BinutilsRules @@ GdbRules @@ GprofRules @@ GccRules
  @@ Fd2sfdRules @@ Fd2pragmaRules @@ IraRules @@ SfdcRules @@ VasmRules @@ VbccRules
  @@ VlinkRules @@ LhaRules @@ VbccKick13Rules @@ VbccAmigaosRules
  @@ NdkUnpackRules @@ Ndk0Rules @@ NdkMarkerRules @@ NdkSfdcRules @@ NdkRules @@ Ndk13Rules
  @@ NetincludeRules @@ LibamigaRules @@ NewlibConfigure @@ NewlibRules @@ LibnixRules
  @@ LibpthreadRules @@ LibgccRules @@ Libnix4Rules @@ Clib2Rules @@ LibdebugRules
  @@ IxemulRules
  @@ ZlibRules @@ LibpngRules @@ FreetypeRules @@ SdlmixerRules @@ SdlttfRules @@ LibSDL12Rules

Multilibs == {<<"zlib", "libz.a">>, <<"libpng", "libpng.a">>, <<"freetype", "libfreetype.a">>,
              <<"SDL_mixer", "libSDL_mixer.a">>, <<"SDL_ttf", "libSDL_ttf.a">>}

CleanTargets ==
  {CleanGcc, CleanLibgcc, CleanGprof, CleanBinutils, CleanNewlib, CleanLibnix,
   CleanLibpthread, CleanClib2, CleanLibdebug, CleanVasm, CleanVbcc, CleanVlink, CleanSfdc,
   CleanFd2sfd, CleanFd2pragma, CleanIra, CleanNdk, CleanIxemul, CleanLibSDL12}
  \cup {CleanMultilib(m[1], m[2]) : m \in Multilibs}

Makefile == INSTANCE Make WITH
  Rules    <- AllRules,
  Node     <- NodesOf(AllRules) \cup UNION CleanTargets \cup DropPrefix,
  Above    <- AboveOf(AllRules),
  Given    <- SourcesOf(AllRules),
  Goals    <- {},
  Pulls    <- {{n} : n \in SourcesOf(AllRules)},
  Removals <- CleanTargets,
  Jobs     <- 1,
  CanFail  <- FALSE,
  CanCrash <- FALSE

\* Three of the projects are not even cloned.
Clones == BinutilsClone @@ GccClone @@ Fd2sfdClone
ScratchRules == AllRules @@ Clones

Scratch == INSTANCE Make WITH
  Rules    <- ScratchRules,
  Node     <- NodesOf(ScratchRules),
  Above    <- AboveOf(ScratchRules),
  Given    <- SourcesOf(ScratchRules),
  Goals    <- {},
  Pulls    <- {},
  Removals <- {DropPrefix},
  Jobs     <- 1,
  CanFail  <- FALSE,
  CanCrash <- FALSE

Targets == DOMAIN AllRules

\* The target is the result itself and not a stamp, or something comes after the stamp, or
\* the status of a command is lost before it.
\* Killed, or failed where the compiler does not clean up, such a rule may be taken for
\* done.
ASSUME ResultsAsTargets ==
  {t \in Targets : ~Makefile!StampedLast(t)} =
    {"bin fd2sfd", "build/fd2pragma/fd2pragma", "bin fd2pragma", "build/ira/ira", "bin ira",
     "bin sfdc", "build/vasm/_done", "build/vlink/Makefile",
     "build/vbcc_target_m68k-kick13/_done", "build/vbcc_target_m68k-amigaos/_done",
     "projects/NDK.info", "build/ndk-include_ndk0", "build/ndk-include_ndk13",
     "ndk inline", "ndk inline vbcc", "ndk lvo", "ndk proto",
     "lib libamiga.a", "lib libb/libamiga.a", "build/newlib/newlib/libc.a",
     "build/libnix/libb/libnix4.library", "build/ixemul/lib/libc.a", "prefix ixemul/lib/libc.a"}
    \cup UNION {{"build/" \o m[1] \o "/Makefile", "build/" \o m[1] \o "/" \o m[2],
                 "lib " \o m[2]} : m \in Multilibs}

\* A clone makes its target with everything else, or before: killed, it is never finished,
\* and a patch that fails after it is never tried again.
ASSUME ClonesAsTargets == \A t \in DOMAIN Clones : ~Scratch!StampedLast(t)

\* "make drop-prefix" leaves these stamps although it removes what they stand for; the
\* other things that it removes are made again, with one of their prerequisites.
ASSUME DroppedWithoutStamps ==
  {t \in Targets : ~Scratch!CleanedWhole(t)} =
    {"build/binutils/_done", "build/binutils/_gdb", "build/binutils/_gprof",
     "build/gcc/_done", "build/vasm/_done", "build/vbcc/_done", "build/vlink/_done",
     "build/_lha_done", "build/vbcc_target_m68k-kick13/_done",
     "build/vbcc_target_m68k-amigaos/_done"}

\* gdb installs the binutils again; newlib makes libc.a and then touches it.
ASSUME SharedOutputs ==
  {t \in Targets : ~Makefile!WrittenOnce(t)} =
    {"build/binutils/_done", "build/binutils/_gdb", "build/newlib/newlib/libc.a"}

\* ixemul is unpacked by a lha that nobody has asked for, and zlib is configured and made
\* by a gcc and a libnix.
ASSUME MissingPrerequisites ==
  {t \in Targets : ~Makefile!OrderComplete(t)} =
    {"build/ixemul/lib/libc.a", "build/zlib/Makefile", "build/zlib/libz.a"}

\* A command reads a source that is no prerequisite: headers of newlib for gcc, all but
\* the Makefile of vlink, the .config files of vbcc, patches/ndk13, lib/libamiga.a, the
\* sources of libstdc++ for libgcc; for the stamp of gcc, all that is not in one of the ten
\* directories that its find looks into. A pull of only these leaves what is installed as it
\* was, and make says that all is done.
ASSUME UnlistedSources ==
  {t \in Targets : ~Makefile!SourcesListed(t)} =
    {"build/gcc/Makefile", "build/vlink/Makefile", "build/vbcc_target_m68k-kick13/_done",
     "build/vbcc_target_m68k-amigaos/_done", "build/ndk-include_ndk13", "lib libamiga.a",
     "lib libb/libamiga.a", "build/gcc/_done", "build/gcc/_libgcc_done"}

\* The recipe makes a prerequisite look old: the four grammars of binutils, the archive of the
\* NDK. When nothing else has changed and a later command fails, make has forgotten that the
\* target is out of date, and its next run takes it for done.
ASSUME ForgottenPulls ==
  {t \in Targets : ~Makefile!PullsNoticed(t)} = {"build/binutils/_done", "projects/NDK.info"}

\* No "make clean-..." leaves a stamp whose files it has removed.
ASSUME CleanTargetsComplete == \A t \in Targets : Makefile!CleanedWhole(t)

-----------------------------------------------------------------------------
(***************************************************************************)
(* As long as no command fails and nothing is killed, WellOrdered is       *)
(* enough, and few of these exceptions remain.                             *)
(***************************************************************************)

\* Results as targets, work after a stamp, lost statuses, what is made to look old, libc.a that
\* is made and touched, and clones do no harm.
ASSUME HarmlessUndisturbed ==
  /\ \A t \in DOMAIN ScratchRules :
       /\ Scratch!MakesTarget(t) /\ Scratch!BackdatesOwn(t) /\ Scratch!ClonesFirst(t)
       /\ Scratch!ReadsInOrder(t) /\ Scratch!PrereqsMade(t)
  /\ {t \in DOMAIN ScratchRules : ~Scratch!OwnOutputs(t)} =
       {"build/binutils/_done", "build/binutils/_gdb"}

\* Without gdb, ixemul and zlib, and what is built from these, the rules are a table that
\* WellOrdered is true of. Any source may change that is not among the unlisted ones; what
\* is cloned stays as it is.
Doubtful ==
  {"build/binutils/_gdb", "build/ixemul/lib/libc.a", "build/zlib/Makefile", "build/zlib/libz.a"}
Unlisted ==
  {"src newlib/sys", "src vlink", "patches/vc.config", "patches/kick13.config",
   "patches/ndk13", "lib/libamiga.a", "lib/libb/libamiga.a"}

ScratchAbove == AboveOf(ScratchRules)
OrderedTable ==
  [t \in {u \in DOMAIN ScratchRules : (ScratchAbove[u] \cup {u}) \cap Doubtful = {}} |->
     ScratchRules[t]]

Undoubted == INSTANCE Make WITH
  Rules    <- OrderedTable,
  Node     <- NodesOf(OrderedTable) \cup UNION CleanTargets,
  Above    <- AboveOf(OrderedTable),
  Given    <- SourcesOf(OrderedTable),
  Goals    <- {},
  Pulls    <- {{n} : n \in SourcesOf(OrderedTable) \ Unlisted},
  Removals <- CleanTargets,
  Jobs     <- 1,
  CanFail  <- FALSE,
  CanCrash <- FALSE

ASSUME MostRulesOrdered ==
  /\ Undoubted!WellOrdered
  /\ Cardinality(DOMAIN OrderedTable) = 75 /\ Cardinality(DOMAIN ScratchRules) = 87
  /\ Unlisted \subseteq SourcesOf(OrderedTable)
  /\ UNION CleanTargets \cap SourcesOf(OrderedTable) = {}
  /\ \A t \in DOMAIN OrderedTable : t \notin AboveOf(OrderedTable)[t]

\* The tables of MCAll are such tables, too.
Library == INSTANCE Make WITH
  Rules    <- LibraryRules,
  Node     <- NodesOf(LibraryRules),
  Above    <- AboveOf(LibraryRules),
  Given    <- SourcesOf(LibraryRules),
  Goals    <- {},
  Pulls    <- {{"download/NDK.lha"}, {"src sfdc"}, {"src pthreads"}, {"src newlib"}},
  Removals <- {},
  Jobs     <- 1,
  CanFail  <- FALSE,
  CanCrash <- FALSE

AllButGdb == MCRules @@ BinutilsClone @@ LibraryRules

Everything == INSTANCE Make WITH
  Rules    <- AllButGdb,
  Node     <- NodesOf(AllButGdb),
  Above    <- AboveOf(AllButGdb),
  Given    <- SourcesOf(AllButGdb),
  Goals    <- {},
  Pulls    <- {},
  Removals <- {},
  Jobs     <- 2,
  CanFail  <- FALSE,
  CanCrash <- FALSE

ASSUME RunsOrdered == Library!WellOrdered /\ Everything!WellOrdered
=============================================================================
