------------------------------- MODULE MCAll --------------------------------
(***************************************************************************)
(* "make all -j2" without gdb, gprof, ira, vasm, ixemul and libSDL12, when *)
(* an earlier make has unpacked the NDK and "make clean drop-prefix" came  *)
(* after it.  The projects are checked out but for binutils, which is      *)
(* cloned.  Of the very first build nothing is claimed here: its rule for  *)
(* the NDK calls make again, see MCNested.                                 *)
(***************************************************************************)
EXTENDS Make, Rules

MCRules == BinutilsRules @@ GccRules @@ LibraryRules
MCNode  == NodesOf(MCRules)
MCAbove == AboveOf(MCRules)
MCGiven == SourcesOf(MCRules)
MCGoals == {{"build/gcc/_done", "build/binutils/_done",
             "build/fd2sfd/_done", "build/fd2pragma/_done", "build/sfdc/_done",
             "build/libnix/_done", "build/gcc/_libgcc_done", "build/clib2/_done",
             "build/libdebug/_done", "build/libpthread/_done", "build/ndk-include_ndk",
             "build/ndk-include_ndk13", "build/libnix/libb/libnix4.library"}}
MCPulls == {}
MCRemovals == {}

\* binutils is cloned first.
ScratchRules == MCRules @@ BinutilsClone
ScratchNode  == NodesOf(ScratchRules)
ScratchAbove == AboveOf(ScratchRules)
ScratchGiven == SourcesOf(ScratchRules)

LibraryNode  == NodesOf(LibraryRules)
LibraryAbove == AboveOf(LibraryRules)
LibraryGiven == SourcesOf(LibraryRules)
LibraryGoals == {g \ {"build/gcc/_done", "build/binutils/_done"} : g \in MCGoals}

\* A new NDK, a new sfdc, new pthreads or a new newlib between two runs; the compiler is
\* there already.
Updates == {{"download/NDK.lha"}, {"src sfdc"}, {"src pthreads"}, {"src newlib"}}
=============================================================================
