---------------------------- MODULE MCToolchain -----------------------------
(***************************************************************************)
(* binutils, gprof and gcc, with all that can happen to a build: failures, *)
(* crashes, pulls and the clean targets.  A pull of binutils or gcc always *)
(* changes a file that the rule for its stamp lists and does not itself    *)
(* make look old: of other pulls nothing is claimed here, see MCRetry.     *)
(***************************************************************************)
EXTENDS Make, Rules

MCRules == BinutilsRules @@ GprofRules @@ GccRules
MCNode  == NodesOf(MCRules)
MCAbove == AboveOf(MCRules)
MCGiven == SourcesOf(MCRules)
MCGoals == {{"build/binutils/_gprof", "build/gcc/_done"}}
MCPulls == {{"src binutils", "src binutils/grammars", "src gprof"},
            {"src gcc", "src gcc/unlisted", "projects/gcc/configure"}}
MCRemovals == {S \cap MCNode : S \in {CleanBinutils, CleanGcc}}
=============================================================================
