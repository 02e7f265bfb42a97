---------------------------- MODULE MCSideBySide ----------------------------
(***************************************************************************)
(* binutils, gdb and vasm at the same time.  gdb installs the programs of  *)
(* binutils again; vasm is built in a copy of its sources, and one of its  *)
(* commands may fail without anybody noticing.                             *)
(***************************************************************************)
EXTENDS Make, Rules

MCRules == BinutilsRules @@ GdbRules @@ VasmRules
MCNode  == NodesOf(MCRules)
MCAbove == AboveOf(MCRules)
MCGiven == SourcesOf(MCRules)
MCGoals == {{"build/binutils/_done", "build/binutils/_gdb", "build/vasm/_done"}}
MCPulls == {{"src vasm"}}
MCRemovals == {S \cap MCNode : S \in {CleanBinutils}}
=============================================================================
