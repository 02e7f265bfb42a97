-------------------------------- MODULE Rules --------------------------------
(***************************************************************************)
(* The rules of the Makefile, one definition for each project.             *)
(*                                                                         *)
(* A rule is target |-> [prereqs, recipe].  The prerequisites are those    *)
(* that the Makefile lists.  The commands of a recipe are named by what    *)
(* they read and write: "src p" is the checked out source of the project   *)
(* p, "copy p" the copy of it that rsync puts into the build folder, "obj  *)
(* p" what is compiled there, "bin p" and "prefix p" what is installed.    *)
(* Commands in a row that write into the same tree are one command.  The   *)
(* mkdir commands are left out.                                            *)
(*                                                                         *)
(* The find of a rule lists "src p" as a prerequisite only when the        *)
(* project was checked out before make was started; otherwise the chain of *)
(* the rules from the clone upwards has the same effect.                   *)
(***************************************************************************)
EXTENDS Naturals, Sequences, FiniteSets, TLC

Rule(prereqs, recipe) == [prereqs |-> prereqs, recipe |-> recipe]

Tool(reads, writes)      == [kind |-> "tool", reads |-> reads, writes |-> writes]
Atomic(reads, writes)    == [kind |-> "atomic", reads |-> reads, writes |-> writes]
Unchecked(reads, writes) == [kind |-> "unchecked", reads |-> reads, writes |-> writes]
Compiler(reads, writes)  == [kind |-> "compiler", reads |-> reads, writes |-> writes]
Clone(writes)            == [kind |-> "clone", reads |-> {}, writes |-> writes]

\* @touch -t 0001010000
TouchOld(file) == [kind |-> "backdate", reads |-> {}, writes |-> {file}]

\* A loop of the shell: the status is that of the last round, which is the second command;
\* whatever the other rounds fail to do, nobody notices.
Loop(reads, writes) == << Unchecked(reads, writes), Tool(reads, {}) >>

\* @echo "done" >$@ and @touch $@
Done(target) == Atomic({}, {target})

-----------------------------------------------------------------------------
(***************************************************************************)
(* The compiler and its tools.                                             *)
(***************************************************************************)

\* "src binutils/grammars" are the four files arparse.y, arlex.l, ldgram.y and plural.y, whose
\* parsers are part of the sources and are not to be made again. They are found with the
\* other sources, hence prerequisites of the stamp, too.

\* Mutant: the stamp is written before the install step.
BinutilsStampedEarly ==
  "build/binutils/Makefile" :> Rule(
    {"projects/binutils/configure"},
    << Atomic({"projects/binutils/configure"}, {"build/binutils/Makefile"}) >>)
  @@
  "build/binutils/_done" :> Rule(
    {"build/binutils/Makefile", "src binutils", "src binutils/grammars"},
    << TouchOld("src binutils/grammars"),
       Tool({"build/binutils/Makefile", "src binutils", "src binutils/grammars"},
            {"obj binutils"}),
       Done("build/binutils/_done"),
       Tool({"obj binutils"}, {"bin binutils"}) >>)

BinutilsRules ==
  "build/binutils/Makefile" :> Rule(
    {"projects/binutils/configure"},
    << Atomic({"projects/binutils/configure"}, {"build/binutils/Makefile"}) >>)
  @@
  "build/binutils/_done" :> Rule(
    {"build/binutils/Makefile", "src binutils", "src binutils/grammars"},
    << TouchOld("src binutils/grammars"),
       Tool({"build/binutils/Makefile", "src binutils", "src binutils/grammars"},
            {"obj binutils"}),
       Tool({"obj binutils"}, {"bin binutils"}),
       Done("build/binutils/_done") >>)

BinutilsClone ==
  "projects/binutils/configure" :> Rule({},
    << Clone({"projects/binutils/configure", "src binutils", "src binutils/grammars",
              "src gprof"}) >>)

\* Mutant: gdb does not wait for binutils.
GdbUnordered ==
  "build/binutils/_gdb" :> Rule(
    {"build/binutils/Makefile"},
    << Tool({"src binutils", "src binutils/grammars"}, {"obj gdb"}),
       Tool({"obj gdb"}, {"bin binutils", "bin gdb"}),
       Done("build/binutils/_gdb") >>)

\* gdb installs gas, binutils and ld once more.
GdbRules ==
  "build/binutils/_gdb" :> Rule(
    {"build/binutils/_done"},
    << Tool({"src binutils", "src binutils/grammars", "obj binutils"}, {"obj gdb"}),
       Tool({"obj binutils", "obj gdb"}, {"bin binutils", "bin gdb"}),
       Done("build/binutils/_gdb") >>)

\* Mutant: the stamp goes into another folder.
GprofStampElsewhere ==
  "build/binutils/gprof/Makefile" :> Rule(
    {"projects/binutils/configure", "build/binutils/_done"},
    << Atomic({"projects/binutils/configure"}, {"build/binutils/gprof/Makefile"}) >>)
  @@
  "build/binutils/_gprof" :> Rule(
    {"build/binutils/gprof/Makefile", "src gprof"},
    << Tool({"build/binutils/gprof/Makefile", "src gprof", "obj binutils"}, {"obj gprof"}),
       Tool({"obj gprof"}, {"bin gprof"}),
       Done("build/binutils/gprof/_gprof") >>)

\* The Makefile that configure makes for gprof looks after gprof/configure itself.
GprofRules ==
  "build/binutils/gprof/Makefile" :> Rule(
    {"projects/binutils/configure", "build/binutils/_done"},
    << Atomic({"projects/binutils/configure"}, {"build/binutils/gprof/Makefile"}) >>)
  @@
  "build/binutils/_gprof" :> Rule(
    {"build/binutils/gprof/Makefile", "src gprof"},
    << Tool({"build/binutils/gprof/Makefile", "src gprof", "obj binutils"}, {"obj gprof"}),
       Tool({"obj gprof"}, {"bin gprof"}),
       Done("build/binutils/_gprof") >>)

\* "src gcc" is what the find of the rule lists: the files of ten directories, without those
\* below. The other sources of the compiler, "src gcc/unlisted", are in include, gcc/ginclude,
\* gcc/common, most of gcc/config, libcpp/include, libbacktrace and so on.

\* Mutant: gcc does not wait for binutils.
GccWithoutBinutils ==
  "build/gcc/Makefile" :> Rule(
    {"projects/gcc/configure"},
    << Atomic({"projects/gcc/configure", "bin binutils", "src newlib/sys"},
              {"build/gcc/Makefile"}) >>)
  @@
  "build/gcc/_done" :> Rule(
    {"build/gcc/Makefile", "src gcc"},
    << Tool({"build/gcc/Makefile", "src gcc", "src gcc/unlisted", "bin binutils"},
            {"obj gcc"}),
       Tool({"obj gcc"}, {"bin gcc"}),
       Done("build/gcc/_done") >>)

\* configure copies the Amiga headers of newlib (--with-headers) into the prefix.
GccRules ==
  "build/gcc/Makefile" :> Rule(
    {"projects/gcc/configure", "build/binutils/_done"},
    << Atomic({"projects/gcc/configure", "bin binutils", "src newlib/sys"},
              {"build/gcc/Makefile"}) >>)
  @@
  "build/gcc/_done" :> Rule(
    {"build/gcc/Makefile", "src gcc"},
    << Tool({"build/gcc/Makefile", "src gcc", "src gcc/unlisted", "bin binutils"},
            {"obj gcc"}),
       Tool({"obj gcc"}, {"bin gcc"}),
       Done("build/gcc/_done") >>)

GccClone ==
  "projects/gcc/configure" :> Rule({},
    << Clone({"projects/gcc/configure", "src gcc", "src gcc/unlisted", "src libgcc",
              "src libstdc++"}) >>)

-----------------------------------------------------------------------------
(***************************************************************************)
(* The host tools.                                                         *)
(***************************************************************************)

Fd2sfdRules ==
  "build/fd2sfd/Makefile" :> Rule(
    {"projects/fd2sfd/configure"},
    << Atomic({"projects/fd2sfd/configure"}, {"build/fd2sfd/Makefile"}) >>)
  @@
  "bin fd2sfd" :> Rule(
    {"build/fd2sfd/Makefile", "src fd2sfd"},
    << Tool({"build/fd2sfd/Makefile", "src fd2sfd"}, {"obj fd2sfd"}),
       Tool({"obj fd2sfd"}, {"bin fd2sfd"}) >>)
  @@
  "build/fd2sfd/_done" :> Rule({"bin fd2sfd"}, << Done("build/fd2sfd/_done") >>)

\* The clone is followed by the patches of patches/fd2sfd.
Fd2sfdClone ==
  "projects/fd2sfd/configure" :> Rule({},
    << Clone({"projects/fd2sfd/configure", "cloned fd2sfd"}) >>
    \o Loop({"cloned fd2sfd"}, {"src fd2sfd"}))

Fd2pragmaRules ==
  "build/fd2pragma/fd2pragma" :> Rule(
    {"projects/fd2pragma/makefile", "src fd2pragma"},
    << Compiler({"src fd2pragma"}, {"build/fd2pragma/fd2pragma"}) >>)
  @@
  "bin fd2pragma" :> Rule(
    {"build/fd2pragma/fd2pragma"},
    << Tool({"build/fd2pragma/fd2pragma"}, {"bin fd2pragma"}) >>)
  @@
  "build/fd2pragma/_done" :> Rule({"bin fd2pragma"}, << Done("build/fd2pragma/_done") >>)

IraRules ==
  "build/ira/ira" :> Rule(
    {"projects/ira/Makefile", "src ira"},
    << Compiler({"src ira"}, {"build/ira/ira"}) >>)
  @@
  "bin ira" :> Rule({"build/ira/ira"}, << Tool({"build/ira/ira"}, {"bin ira"}) >>)
  @@
  "build/ira/_done" :> Rule({"bin ira"}, << Done("build/ira/_done") >>)

SfdcRules ==
  "build/sfdc/Makefile" :> Rule(
    {"projects/sfdc/configure", "src sfdc"},
    << Tool({"src sfdc"}, {"copy sfdc"}),
       Atomic({"copy sfdc"}, {"build/sfdc/Makefile"}) >>)
  @@
  "bin sfdc" :> Rule(
    {"build/sfdc/Makefile"},
    << Tool({"build/sfdc/Makefile", "copy sfdc"}, {"obj sfdc"}),
       Tool({"obj sfdc"}, {"bin sfdc"}) >>)
  @@
  "build/sfdc/_done" :> Rule({"bin sfdc"}, << Done("build/sfdc/_done") >>)

\* Mutant: the build does not wait for the copy of the sources.
VasmWithoutCopy ==
  "build/vasm/Makefile" :> Rule(
    {"projects/vasm/Makefile", "src vasm"},
    << Tool({"projects/vasm/Makefile", "src vasm"}, {"copy vasm"}),
       Done("build/vasm/Makefile") >>)
  @@
  "build/vasm/_done" :> Rule(
    {"src vasm"},
    << Tool({"copy vasm"}, {"obj vasm"}),
       Unchecked({"obj vasm"}, {"bin vasm"}),
       Tool({"obj vasm"}, {"bin vobjdump"}),
       Done("build/vasm/_done") >>)

\* The first of the two install commands ends with a semicolon. rsync -a brings a Makefile
\* along, with the time it has among the sources: until it is touched, make takes it for as
\* old as it was. The same in vbcc, libpthread and libSDL12.
VasmRules ==
  "build/vasm/Makefile" :> Rule(
    {"projects/vasm/Makefile", "src vasm"},
    << Tool({"projects/vasm/Makefile", "src vasm"}, {"copy vasm"}),
       Done("build/vasm/Makefile") >>)
  @@
  "build/vasm/_done" :> Rule(
    {"build/vasm/Makefile"},
    << Tool({"copy vasm"}, {"obj vasm"}),
       Unchecked({"obj vasm"}, {"bin vasm"}),
       Tool({"obj vasm"}, {"bin vobjdump"}),
       Done("build/vasm/_done") >>)

VbccRules ==
  "build/vbcc/Makefile" :> Rule(
    {"projects/vbcc/Makefile", "src vbcc"},
    << Tool({"projects/vbcc/Makefile", "src vbcc"}, {"copy vbcc"}),
       Done("build/vbcc/Makefile") >>)
  @@
  "build/vbcc/_done" :> Rule(
    {"build/vbcc/Makefile"},
    << Tool({"copy vbcc"}, {"obj vbcc"}),
       Tool({"obj vbcc"}, {"bin vbcc"}),
       Done("build/vbcc/_done") >>)

\* rsync brings the Makefile along with all the other files.
VlinkRules ==
  "build/vlink/Makefile" :> Rule(
    {"projects/vlink/Makefile"},
    << Tool({"projects/vlink/Makefile", "src vlink"},
            {"copy vlink", "build/vlink/Makefile"}) >>)
  @@
  "build/vlink/_done" :> Rule(
    {"build/vlink/Makefile", "src vlink"},
    << Tool({"copy vlink"}, {"obj vlink"}),
       Tool({"obj vlink"}, {"bin vlink"}),
       Done("build/vlink/_done") >>)

\* On a host that has no lha; otherwise only the stamp is written.
LhaRules ==
  "build/_lha_done" :> Rule({}, << Tool({}, {"bin lha"}), Done("build/_lha_done") >>)

VbccKick13Rules ==
  "build/vbcc_target_m68k-kick13.info" :> Rule(
    {"download/vbcc_target_m68k-kick13.lha", "build/_lha_done"},
    << Tool({"download/vbcc_target_m68k-kick13.lha", "bin lha"}, {"copy kick13"}),
       Done("build/vbcc_target_m68k-kick13.info") >>)
  @@
  "build/vbcc_target_m68k-kick13/_done" :> Rule(
    {"build/vbcc_target_m68k-kick13.info", "patches/vc.config", "build/vasm/_done"},
    << Tool({"copy kick13"}, {"prefix kick13"}),
       Done("build/vbcc_target_m68k-kick13/_done"),
       Unchecked({"patches/kick13.config"}, {"build/vasm/kick13.config"}),
       Tool({"build/vasm/kick13.config"}, {"bin kick13.config"}) >>)

VbccAmigaosRules ==
  "build/vbcc_target_m68k-amigaos.info" :> Rule(
    {"download/vbcc_target_m68k-amigaos.lha", "build/_lha_done"},
    << Tool({"download/vbcc_target_m68k-amigaos.lha", "bin lha"}, {"copy amigaos"}),
       Done("build/vbcc_target_m68k-amigaos.info") >>)
  @@
  "build/vbcc_target_m68k-amigaos/_done" :> Rule(
    {"build/vbcc_target_m68k-amigaos.info", "build/vasm/_done"},
    << Tool({"copy amigaos"}, {"prefix amigaos"}),
       Done("build/vbcc_target_m68k-amigaos/_done"),
       Unchecked({"patches/vc.config"}, {"build/vasm/vc.config"}),
       Tool({"build/vasm/vc.config"}, {"bin vc.config"}) >>)

-----------------------------------------------------------------------------
(***************************************************************************)
(* The NDK.                                                                *)
(***************************************************************************)

NdkUnpackRules ==
  "projects/NDK.info" :> Rule(
    {"build/_lha_done", "download/NDK.lha", "patches/NDK"},
    << Tool({"download/NDK.lha", "bin lha"}, {"src NDK"}),
       TouchOld("download/NDK.lha") >>
    \o Loop({"src NDK", "patches/NDK"}, {"patched NDK"})
    \o << Done("projects/NDK.info") >>)

\* The headers are copied, and a loop puts __stdargs into the prototypes among them, those
\* below clib.
NdkHeaders == {"ndk-include", "ndk-include/clib"}

Ndk0Rules ==
  "build/ndk-include_ndk0" :> Rule(
    {"projects/NDK.info", "src NDK", "build/fd2sfd/_done", "build/fd2pragma/_done"},
    << Tool({"patched NDK"}, {"copy NDK"}) >>
    \o Loop({"copy NDK"}, {"ndk-include/clib"})
    \o << Tool({"patched NDK", "src fd2sfd", "src fd2pragma"}, {"ndk-include", "ndk/lib"}),
          Done("build/ndk-include_ndk0") >>)

NdkMarkerRules ==
  [t \in {"build/ndk-include_inline", "build/ndk-include_lvo", "build/ndk-include_proto"} |->
     Rule({"projects/NDK.info"}, << Done(t) >>)]

\* What sfdc makes of the NDK, once the NDK is there when make reads the Makefile.
NdkSfdcRules ==
  [t \in {"ndk inline", "ndk inline vbcc"} |->
     Rule({"bin sfdc", "src NDK", "build/ndk-include_inline", "build/ndk-include_lvo",
           "build/ndk-include_proto", "build/ndk-include_ndk0"},
          << Tool({"bin sfdc", "patched NDK"}, {t}) >>)]
  @@
  "ndk lvo" :> Rule(
    {"bin sfdc", "src NDK", "build/ndk-include_lvo", "build/ndk-include_ndk0"},
    << Tool({"bin sfdc", "patched NDK"}, {"ndk lvo"}) >>)
  @@
  "ndk proto" :> Rule(
    {"bin sfdc", "src NDK", "build/ndk-include_proto", "build/ndk-include_ndk0"},
    << Tool({"bin sfdc", "patched NDK"}, {"ndk proto"}) >>)

\* This is so when the NDK is there before make starts. $(MAKE) in the recipe then finds at
\* most one thing left to do, the stamp of sfdc, which no command reads.
NdkRules ==
  "build/ndk-include_ndk" :> Rule(
    {"build/ndk-include_ndk0", "ndk inline", "ndk inline vbcc", "ndk lvo", "ndk proto",
     "projects/fd2sfd/configure", "projects/fd2pragma/makefile"},
    << Done("build/ndk-include_ndk") >>)

\* The same on the first build, where make has found no NDK when it read the Makefile: the
\* first command is $(MAKE) for what sfdc makes.
NdkNestedRules ==
  "build/ndk-include_ndk" :> Rule(
    {"build/ndk-include_ndk0", "projects/fd2sfd/configure", "projects/fd2pragma/makefile"},
    << Tool({}, {}), Done("build/ndk-include_ndk") >>)

\* Loops over lists of files, one after the other.
Ndk13Rules ==
  "build/ndk-include_ndk13" :> Rule(
    {"build/ndk-include_ndk", "build/fd2sfd/_done", "build/sfdc/_done"},
    Loop({"ndk/lib", "patches/ndk13", "bin fd2sfd", "bin sfdc"} \cup NdkHeaders,
         {"ndk13-include"})
    \o << Done("build/ndk-include_ndk13") >>)

\* Mutant: no stamp.
NetincludeUnstamped ==
  "build/_netinclude" :> Rule(
    {"projects/amiga-netinclude/README.md", "build/ndk-include_ndk", "src netinclude"},
    << Tool({"src netinclude"} \cup NdkHeaders, {"net-include"}) >>)

NetincludeRules ==
  "build/_netinclude" :> Rule(
    {"projects/amiga-netinclude/README.md", "build/ndk-include_ndk", "src netinclude"},
    << Tool({"src netinclude"} \cup NdkHeaders, {"net-include"}),
       Done("build/_netinclude") >>)

-----------------------------------------------------------------------------
(***************************************************************************)
(* The libraries.                                                          *)
(***************************************************************************)

LibamigaRules ==
  "lib libamiga.a" :> Rule({}, << Tool({"lib/libamiga.a"}, {"lib libamiga.a"}) >>)
  @@
  "lib libb/libamiga.a" :> Rule({},
    << Tool({"lib/libb/libamiga.a"}, {"lib libb/libamiga.a"}) >>)

\* configure runs once; later the Makefile is only touched.
NewlibConfigure ==
  "build/newlib/newlib/Makefile" :> Rule(
    {"projects/newlib-cygwin/newlib/configure", "build/ndk-include_ndk", "build/gcc/_done"},
    << Atomic({"bin gcc"}, {"build/newlib/newlib/Makefile"}) >>)

\* libc.a, the target, is there as soon as newlib is compiled.
NewlibRules ==
  "build/newlib/newlib/libc.a" :> Rule(
    {"build/newlib/newlib/Makefile", "src newlib"},
    << Tool({"src newlib"}, {"sys-include"}),
       Tool({"build/newlib/newlib/Makefile", "src newlib", "bin gcc"} \cup NdkHeaders,
            {"build/newlib/newlib/libc.a", "obj newlib"}),
       Tool({"obj newlib"}, {"prefix newlib"}),
       Done("build/newlib/newlib/libc.a") >>)
  @@
  "build/newlib/_done" :> Rule(
    {"build/newlib/newlib/libc.a"}, << Done("build/newlib/_done") >>)

LibnixRules ==
  "build/libnix/_done" :> Rule(
    {"build/newlib/_done", "build/ndk-include_ndk", "build/ndk-include_ndk13",
     "build/_netinclude", "build/binutils/_done", "build/gcc/_done",
     "projects/libnix/Makefile.gcc6", "lib libamiga.a", "src libnix"},
    << Tool({"projects/libnix/Makefile.gcc6", "src libnix", "bin gcc", "ndk13-include",
             "net-include", "prefix newlib"} \cup NdkHeaders, {"obj libnix"}),
       Tool({"obj libnix", "src libnix"}, {"prefix libnix"}),
       Done("build/libnix/_done") >>)

\* Mutant: the find of the sources is missing.
LibpthreadWithoutSources ==
  "build/libpthread/Makefile" :> Rule(
    {"build/libnix/_done", "projects/aros-stuff/pthreads/Makefile"},
    << Tool({"src pthreads"}, {"copy pthreads"}),
       Done("build/libpthread/Makefile") >>)
  @@
  "build/libpthread/_done" :> Rule(
    {"build/libpthread/Makefile"},
    << Tool({"copy pthreads"}, {"prefix pthread.h"}),
       Tool({"copy pthreads", "bin gcc", "prefix libnix"}, {"obj pthreads"}),
       Tool({"obj pthreads"}, {"prefix libpthread"}),
       Done("build/libpthread/_done") >>)

LibpthreadRules ==
  "build/libpthread/Makefile" :> Rule(
    {"build/libnix/_done", "projects/aros-stuff/pthreads/Makefile", "src pthreads"},
    << Tool({"src pthreads"}, {"copy pthreads"}),
       Done("build/libpthread/Makefile") >>)
  @@
  "build/libpthread/_done" :> Rule(
    {"build/libpthread/Makefile"},
    << Tool({"copy pthreads"}, {"prefix pthread.h"}),
       Tool({"copy pthreads", "bin gcc", "prefix libnix"}, {"obj pthreads"}),
       Tool({"obj pthreads"}, {"prefix libpthread"}),
       Done("build/libpthread/_done") >>)

LibgccRules ==
  "build/gcc/_libgcc_done" :> Rule(
    {"build/libnix/_done", "build/libpthread/_done", "lib libamiga.a", "src libgcc"},
    << Tool({"src libgcc", "src libstdc++", "bin gcc", "prefix libnix", "prefix libpthread"},
            {"obj libgcc"}),
       Tool({"obj libgcc"}, {"prefix libgcc"}),
       Done("build/gcc/_libgcc_done") >>)

Libnix4Rules ==
  "build/libnix/libb/libnix4.library" :> Rule(
    {"build/gcc/_libgcc_done", "build/libnix/_done"},
    << Tool({"src libnix", "obj libnix", "bin gcc", "prefix libgcc"},
            {"build/libnix/libb/libnix4.library"}) >>)

\* Mutant: clib2 does not wait for libnix, and so for gcc.
Clib2WithoutLibnix ==
  "build/clib2/_done" :> Rule(
    {"projects/clib2/LICENSE", "src clib2", "lib libamiga.a"},
    << Tool({"src clib2"}, {"copy clib2"}),
       Tool({"copy clib2", "bin gcc"}, {"obj clib2"}),
       Tool({"obj clib2"}, {"prefix clib2"}),
       Done("build/clib2/_done") >>)

Clib2Rules ==
  "build/clib2/_done" :> Rule(
    {"projects/clib2/LICENSE", "src clib2", "build/libnix/_done", "lib libamiga.a"},
    << Tool({"src clib2"}, {"copy clib2"}),
       Tool({"copy clib2", "bin gcc"}, {"obj clib2"}),
       Tool({"obj clib2"}, {"prefix clib2"}),
       Done("build/clib2/_done") >>)

LibdebugRules ==
  "build/libdebug/Makefile" :> Rule(
    {"build/libnix/_done", "projects/libdebug/configure", "src libdebug"},
    << Atomic({"projects/libdebug/configure", "bin gcc", "prefix libnix"},
              {"build/libdebug/Makefile"}) >>)
  @@
  "build/libdebug/_done" :> Rule(
    {"build/libdebug/Makefile"},
    << Tool({"build/libdebug/Makefile", "src libdebug", "bin gcc"}, {"obj libdebug"}),
       Tool({"obj libdebug"}, {"prefix libdebug"}),
       Done("build/libdebug/_done") >>)

\* ixemul comes as an archive; the rule does not ask for lha. (lha and rsync -a keep the times
\* of the files; here they are written anew.)
IxemulRules ==
  "build/ixemul/lib/libc.a" :> Rule(
    {"download/ixemul-sdk.lha"},
    << Tool({"download/ixemul-sdk.lha", "bin lha"}, {"build/ixemul/lib/libc.a"}) >>)
  @@
  "prefix ixemul/lib/libc.a" :> Rule(
    {"build/ixemul/lib/libc.a"},
    << Tool({"build/ixemul/lib/libc.a"}, {"prefix ixemul/lib/libc.a"}) >>)

-----------------------------------------------------------------------------
(***************************************************************************)
(* The libraries that are built once for each of eight multilibs.  A loop  *)
(* over them joins its commands with semicolons: the status is that of the *)
(* last multilib, and touch makes the target whatever has happened.        *)
(***************************************************************************)

\* MULTICONFIGURE, MULTIMAKE, MULTICC_SDLMIXER, COPY_MULTILIBS, INSTALL_MULTILIBS
EachMultilib(reads, read, write, p) ==
  << Unchecked(reads \cup {r \o p : r \in read}, {write \o p}),
     Tool(reads \cup {r \o "last " \o p : r \in read}, {write \o "last " \o p}) >>

\* p is the project, lib the library, waits what the rule that unpacks it depends on.
Multilib(p, lib, waits) ==
  LET archive   == "download/" \o p
      configure == "projects/" \o p \o "/configure"
      makefile  == "build/" \o p \o "/Makefile"
      made      == "build/" \o p \o "/" \o lib
      installed == "lib " \o lib
      done      == "build/" \o p \o "/_done"
      src       == "src " \o p
      cc        == {"bin gcc", "prefix libnix"}
  IN  configure :> Rule({archive} \cup waits, << Tool({archive}, {src}), Done(configure) >>)
      @@ makefile :> Rule({configure},
                          EachMultilib({src} \cup cc, {}, "conf ", p) \o << Done(makefile) >>)
      @@ made :> Rule({makefile},
                      EachMultilib({src} \cup cc, {"conf "}, "obj ", p) \o << Done(made) >>)
      @@ installed :> Rule({made},
                           << Tool({src}, {"include " \o p}) >>
                           \o EachMultilib({}, {"obj "}, "prefix ", p) \o << Done(installed) >>)
      @@ done :> Rule({installed}, << Done(done) >>)

\* zlib waits for nothing.
ZlibRules == Multilib("zlib", "libz.a", {})
LibpngRules == Multilib("libpng", "libpng.a", {"build/zlib/_done", "build/libnix/_done"})
FreetypeRules == Multilib("freetype", "libfreetype.a", {"build/libnix/_done"})
SdlmixerRules ==
  Multilib("SDL_mixer", "libSDL_mixer.a", {"build/libSDL12/_done", "build/libnix/_done"})
SdlttfRules ==
  Multilib("SDL_ttf", "libSDL_ttf.a", {"build/libSDL12/_done", "build/libnix/_done"})

\* $(MAKE) sdk=ahi and sdk=cgx install two SDKs first; they are a matter of SdkInstall.
LibSDL12Rules ==
  "build/libSDL12/Makefile" :> Rule(
    {"build/libnix/_done", "projects/libSDL12/Makefile", "src libSDL12"},
    << Tool({"src libSDL12"}, {"copy libSDL12"}), Done("build/libSDL12/Makefile") >>)
  @@
  "build/libSDL12/_done" :> Rule(
    {"build/libSDL12/Makefile"},
    << Tool({"prefix libnix"}, {"sdk ahi", "sdk cgx"}),
       Tool({"copy libSDL12", "sdk ahi", "sdk cgx", "bin gcc", "prefix libnix"},
            {"obj libSDL12"}),
       Tool({"obj libSDL12", "copy libSDL12"}, {"prefix libSDL12", "bin sdl-config"}),
       Done("build/libSDL12/_done") >>)

-----------------------------------------------------------------------------
(***************************************************************************)
(* What "make all" builds beside binutils and gcc: the tools, the NDK,     *)
(* which an earlier make has unpacked, and the libraries of the compiler.  *)
(* gdb, gprof, ira, vasm, ixemul and libSDL12 are left out.                *)
(***************************************************************************)
LibraryRules ==
  Fd2sfdRules @@ Fd2pragmaRules @@ SfdcRules
  @@ LhaRules @@ NdkUnpackRules @@ Ndk0Rules @@ NdkMarkerRules @@ NdkSfdcRules @@ NdkRules
  @@ Ndk13Rules @@ NetincludeRules @@ LibamigaRules @@ NewlibConfigure @@ NewlibRules
  @@ LibnixRules @@ LibpthreadRules @@ LibgccRules @@ Libnix4Rules @@ Clib2Rules
  @@ LibdebugRules
-----------------------------------------------------------------------------
(***************************************************************************)
(* What the clean targets and drop-prefix remove.                          *)
(***************************************************************************)
CleanGcc == {"build/gcc/Makefile", "build/gcc/_done", "obj gcc",
             "build/gcc/_libgcc_done", "obj libgcc"}
CleanLibgcc == {"build/gcc/_libgcc_done", "obj libgcc"}
CleanGprof == {"build/binutils/gprof/Makefile", "obj gprof"}
CleanBinutils == {"build/binutils/Makefile", "build/binutils/_done", "obj binutils",
                  "build/binutils/_gprof", "build/binutils/_gdb", "obj gdb"}
                 \cup CleanGprof
CleanNewlib == {"build/newlib/newlib/Makefile", "build/newlib/newlib/libc.a",
                "build/newlib/_done", "obj newlib"}
CleanLibnix == {"build/libnix/_done", "obj libnix", "build/libnix/libb/libnix4.library"}
CleanLibpthread == {"build/libpthread/Makefile", "build/libpthread/_done",
                    "copy pthreads", "obj pthreads"}
CleanClib2 == {"build/clib2/_done", "copy clib2", "obj clib2"}
CleanLibdebug == {"build/libdebug/Makefile", "build/libdebug/_done", "obj libdebug"}
CleanVasm == {"build/vasm/Makefile", "build/vasm/_done", "copy vasm", "obj vasm",
              "build/vasm/kick13.config", "build/vasm/vc.config"}
CleanVbcc == {"build/vbcc/Makefile", "build/vbcc/_done", "copy vbcc", "obj vbcc"}
CleanVlink == {"build/vlink/Makefile", "build/vlink/_done", "copy vlink", "obj vlink"}
CleanSfdc == {"build/sfdc/Makefile", "build/sfdc/_done", "copy sfdc", "obj sfdc"}
CleanFd2sfd == {"build/fd2sfd/Makefile", "build/fd2sfd/_done", "obj fd2sfd"}
CleanFd2pragma == {"build/fd2pragma/fd2pragma", "build/fd2pragma/_done"}
CleanIra == {"build/ira/ira", "build/ira/_done"}
CleanNdk == {"build/ndk-include_ndk0", "build/ndk-include_inline", "build/ndk-include_lvo",
             "build/ndk-include_proto", "build/ndk-include_ndk", "build/ndk-include_ndk13"}
CleanIxemul == {"build/ixemul/lib/libc.a"}
CleanLibSDL12 == {"build/libSDL12/Makefile", "build/libSDL12/_done",
                  "copy libSDL12", "obj libSDL12"}
CleanMultilib(p, lib) ==
  {"build/" \o p \o x : x \in {"/Makefile", "/" \o lib, "/_done"}}
  \cup {w \o p : w \in {"conf ", "conf last ", "obj ", "obj last "}}

\* Everything below $(PREFIX) but $(PREFIX)/include, $(PREFIX)/m68k-kick13 and what
\* is in $(PREFIX)/lib outside of lib/gcc.
DropPrefix == {"bin binutils", "bin gdb", "bin gprof", "bin gcc", "bin fd2sfd",
               "bin fd2pragma", "bin ira", "bin sfdc", "bin vasm", "bin vobjdump",
               "bin vbcc", "bin vlink", "bin lha", "bin kick13.config", "bin vc.config",
               "bin sdl-config", "prefix amigaos", "copy NDK", "ndk-include",
               "ndk-include/clib", "ndk/lib", "ndk inline", "ndk inline vbcc", "ndk lvo",
               "ndk proto", "ndk13-include", "net-include", "lib libamiga.a",
               "lib libb/libamiga.a", "sys-include", "prefix newlib", "prefix libnix",
               "prefix pthread.h", "prefix libpthread", "prefix libgcc", "prefix clib2",
               "prefix libdebug", "prefix ixemul/lib/libc.a"}

-----------------------------------------------------------------------------
(***************************************************************************)
(* What the parameters of Make are for a table of rules.                   *)
(***************************************************************************)
CommandsOf(rules) ==
  UNION {{rules[t].recipe[i] : i \in DOMAIN rules[t].recipe} : t \in DOMAIN rules}

NodesOf(rules) ==
  DOMAIN rules \cup UNION {rules[t].prereqs : t \in DOMAIN rules}
               \cup UNION {c.reads \cup c.writes : c \in CommandsOf(rules)}

\* The nodes that no rule makes.
SourcesOf(rules) ==
  NodesOf(rules) \ (DOMAIN rules \cup
                    UNION {c.writes : c \in {d \in CommandsOf(rules) : d.kind # "backdate"}})

RECURSIVE Climb(_, _)
Climb(rules, S) ==
  LET more == S \cup UNION {rules[t].prereqs \cap DOMAIN rules : t \in S}
  IN  IF more = S THEN S ELSE Climb(rules, more)

AboveOf(rules) == [t \in DOMAIN rules |-> Climb(rules, rules[t].prereqs \cap DOMAIN rules)]
=============================================================================
