------------------------------- MODULE MCNested -------------------------------
(***************************************************************************)
(* "make sfdc ndk -j2", two of the targets of make all, in a tree where    *)
(* the NDK was never unpacked.                                             *)
(***************************************************************************)
EXTENDS NestedMake, Rules

Generated == {"ndk proto", "ndk lvo", "ndk inline", "ndk inline vbcc"}

MCRules ==
  NdkNestedRules @@ NdkSfdcRules @@ NdkMarkerRules @@ Ndk0Rules @@ NdkUnpackRules
  @@ SfdcRules @@ Fd2sfdRules @@ Fd2pragmaRules @@ LhaRules
MCNode  == NodesOf(MCRules)
MCAbove == AboveOf(MCRules)
MCGiven == SourcesOf(MCRules)
MCGoals == {{"build/sfdc/_done", "build/ndk-include_ndk"}}
MCChildGoal == Generated \cup {"build/sfdc/_done", "build/ndk-include_inline"}
=============================================================================
