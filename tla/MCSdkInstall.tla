----------------------------- MODULE MCSdkInstall -----------------------------
(***************************************************************************)
(* Scripts of the shapes that the .sdk files have: cgx (an archive, copies,*)
(* conversions, stubs, a symlink at the end), sdi (a git repository,       *)
(* copies only), camd (stubs at the end), mmu (several stubs).             *)
(***************************************************************************)
EXTENDS SdkInstall

L(op, reads, writes) == [op |-> op, reads |-> reads, writes |-> writes]

MCScript ==
  [cgx  |-> << L("archive", {}, {}),
               L("copy", {}, {"cybergraphics.fd"}),
               L("convert", {"cybergraphics.fd"}, {"cybergraphics.sfd"}),
               L("stubs", {"cybergraphics.sfd"}, {"cybergraphics.o"}),
               L("edit", {}, {"include/cybergraphics"}) >>,
   sdi  |-> << L("git", {}, {}), L("copy", {}, {"SDI_hook.h"}) >>,
   camd |-> << L("archive", {}, {}),
               L("copy", {}, {"camd.fd"}),
               L("convert", {"camd.fd"}, {"camd.sfd"}),
               L("stubs", {"camd.sfd"}, {"camd.o"}) >>,
   mmu  |-> << L("archive", {}, {}),
               L("copy", {}, {"68040.sfd", "mmu.sfd"}),
               L("stubs", {"68040.sfd"}, {"68040.o"}),
               L("stubs", {"mmu.sfd"}, {"mmu.o"}) >>]

MCFile == {"cybergraphics.fd", "cybergraphics.sfd", "include/cybergraphics",
           "SDI_hook.h", "camd.fd", "camd.sfd", "68040.sfd", "mmu.sfd",
           "cybergraphics.o", "camd.o", "68040.o", "mmu.o"}

CgxAndSdi  == [one |-> "cgx", two |-> "sdi"]
CamdAndMmu == [one |-> "camd", two |-> "mmu"]
Jobs == DOMAIN CgxAndSdi

ASSUME MCScriptsInForm == ScriptsInForm
=============================================================================
