---------------------------- MODULE SysrootSetup ----------------------------
(***************************************************************************)
(* .nanvix/z.py: how the binaries of Nanvix that the tests run on get into *)
(* the sysroot.  "setup" fills it from a local build of Nanvix or, through *)
(* the inherited setup, from the pinned release, and on Windows adds host  *)
(* binaries from a zip file it keeps in a cache; every command copies a    *)
(* local build over it once one was named.  A command may be killed        *)
(* between any two steps and inside each, and the network may fail it.     *)
(*                                                                         *)
(* ZScript.setup(), the file operations and GitHub are outside the         *)
(* repository.                                                             *)
(***************************************************************************)
EXTENDS ToolBootstrap, Sequences

CONSTANTS
  Locals,     \* directories that WITH_NANVIX may name
  MaxBuilds,  \* bound: how often Nanvix is built in any of them
  Windows     \* whether the host is one

ASSUME SysrootAssumption ==
  None \notin Locals /\ MaxBuilds \in Nat \ {0} /\ Windows \in BOOLEAN

\* The binaries copied, in this order (z.py:306); "vfsd" stands for all that
\* nobody checks.  setup() and test() check the first three and two of them.
Order == <<"nanvixd", "kernel", "mkramfs", "vfsd">>
Names == {"nanvixd", "kernel", "mkramfs", "vfsd"}
Required == {"nanvixd", "kernel", "mkramfs"}
Tested == {"nanvixd", "mkramfs"}

\* What the sysroot holds under a name: nothing, part of a binary, the binary
\* of the release, or that of one build of a local directory.
Content(from) == [from |-> from, dir |-> None, build |-> 0]
Missing == Content("nothing")
Torn == Content("interrupted")
Release == Content("release")
Built(d, n) == [from |-> "local", dir |-> d, build |-> n]

VARIABLES
  file,    \* name -> what sysroot/bin holds under it
  sysroot, \* env.json has CFG_SYSROOT
  kept,    \* local_nanvix_path in env.json, or None
  local,   \* directory -> [builds, has]: whether and how often it was built,
           \* and which binaries it has; 0 if it is not there
  cache,   \* the zip file in the cache: "none", "whole", without "vfsd"
           \* ("partial"), or "torn"
  cmd,     \* "setup", "test" (build() begins as test() does) or "distclean"
  given,   \* WITH_NANVIX, or None
  step,    \* the point the command is at, or how the last one ended
  k,       \* the index in Order of the file to be copied next
  setup    \* history: the last setup is "none", has "begun", or ended "ok"

sysvars == <<file, sysroot, kept, local, cache, cmd, given, step, k, setup>>
vars == <<zvars, sysvars>>

Contents == {Missing, Torn, Release} \cup {Built(d, n) : d \in Locals, n \in 1..MaxBuilds}
Rest == {"idle", "ok", "failed"}
Steps == Rest \cup { "remove", "copy", "verify", "save", "base", "download", "fetch",
          "extract", "overlay", "overlay_copy", "check", "started"}

SysInit ==
  /\ file = [n \in Names |-> Missing] /\ sysroot = FALSE /\ kept = None
  /\ local \in [Locals -> {[builds |-> 0, has |-> {}]} \cup
                          [builds : {1}, has : {Names, Names \ {"vfsd"}, Names \ {"kernel"}}]]
  /\ cache = "none"
  /\ cmd = "test" /\ given = None /\ step = "idle" /\ k = 1
  /\ setup = "none"
-----------------------------------------------------------------------------
There(d) == d \in Locals /\ local[d].builds > 0
Current(d) == Built(d, local[d].builds)

\* self._local_nanvix_path or self.config.get(local_nanvix_path)
Path == IF given # None THEN given ELSE kept

At(s) == at = "command" /\ step = s
Goto(s) == step' = s /\ k' = 1 /\ UNCHANGED <<at, given, setup>>
Again == k' = k + 1 /\ UNCHANGED <<step, at, given, setup>>
End(how) ==
  /\ step' = how /\ k' = 1 /\ at' = "done" /\ given' = None
  /\ setup' = IF how = "ok" /\ cmd = "setup" THEN "ok" ELSE setup
Fail == End("failed")
AfterBase == IF Windows THEN "download" ELSE "overlay"

\* What no step of a command changes.
Quiet == UNCHANGED <<pin, global, venv, asked, tool, kills, local, cmd>>

\* The command and WITH_NANVIX of this invocation; z.py:296-297 takes the
\* sysroot away first.
Begin ==
  /\ at = "command" /\ step \in Rest
  /\ cmd' \in {"setup", "test"} /\ given' \in Locals \cup {None}
  /\ step' = CASE cmd' = "test" -> "overlay"
               [] cmd' = "setup" /\ There(given') -> "remove"
               [] OTHER -> "base"
  /\ setup' = IF cmd' = "setup" THEN "begun" ELSE setup
  /\ UNCHANGED <<zvars, file, sysroot, kept, local, cache, k>>

RemoveSysroot ==
  /\ At("remove")
  /\ file' = [n \in Names |-> Missing] /\ Goto("copy")
  /\ Quiet /\ UNCHANGED <<sysroot, kept, cache>>

AfterCopy(s) ==
  CASE s = "copy" -> Goto("verify")
    [] s = "overlay_copy" /\ cmd = "setup" -> End("ok")
    [] OTHER -> Goto("check")

\* Copy what the directory d has, one file at a time, and go on.
\* Mutant: the list of the files misses the last one.
CopyFromRequired(d, s) ==
  /\ At(s)
  /\ file' = IF Order[k] \in local[d].has \cap Required
             THEN [file EXCEPT ![Order[k]] = Current(d)] ELSE file
  /\ IF k < Len(Order) THEN Again ELSE AfterCopy(s)
  /\ Quiet /\ UNCHANGED <<sysroot, kept, cache>>
\* Mutant: the loop goes on past the end of the list.
CopyFromPastEnd(d, s) ==
  /\ At(s)
  /\ file' = IF Order[k] \in local[d].has THEN [file EXCEPT ![Order[k]] = Current(d)]
             ELSE file
  /\ IF k <= Len(Order) THEN Again ELSE AfterCopy(s)
  /\ Quiet /\ UNCHANGED <<sysroot, kept, cache>>
CopyFrom(d, s) ==
  /\ At(s)
  /\ file' = IF Order[k] \in local[d].has THEN [file EXCEPT ![Order[k]] = Current(d)]
             ELSE file
  /\ IF k < Len(Order) THEN Again ELSE AfterCopy(s)
  /\ Quiet /\ UNCHANGED <<sysroot, kept, cache>>

SetupCopy == CopyFrom(given, "copy")

Verify ==
  /\ At("verify")
  /\ IF \A n \in Required : file[n] # Missing THEN Goto("save") ELSE Fail
  /\ Quiet /\ UNCHANGED <<file, sysroot, kept, cache>>

Save ==
  /\ At("save")
  /\ sysroot' = TRUE /\ kept' = given /\ Goto(AfterBase)
  /\ Quiet /\ UNCHANGED <<file, cache>>

\* super().setup() installs the release anew, on Windows perhaps not all of it.
\* It is outside the repository; that nothing of an earlier sysroot is left by
\* it, and nothing changed if it fails, is taken from how setup() goes on.
Base ==
  /\ At("base")
  /\ \E S \in {Names} \cup IF Windows THEN {Required} ELSE {} :
       file' = [n \in Names |-> IF n \in S THEN Release ELSE Missing]
  /\ sysroot' = TRUE /\ Goto(AfterBase)
  /\ Quiet /\ UNCHANGED <<kept, cache>>

BaseFails ==
  At("base") /\ Fail /\ Quiet /\ UNCHANGED <<file, sysroot, kept, cache>>
-----------------------------------------------------------------------------
(***************************************************************************)
(* _download_windows_binaries()                                            *)
(***************************************************************************)
\* Nothing to do; without an answer of the API, or without an asset, there is
\* a warning and setup goes on.
Download ==
  /\ At("download")
  /\ Goto(IF \A n \in Names : file[n] # Missing THEN "overlay" ELSE "fetch")
  /\ Quiet /\ UNCHANGED <<file, sysroot, kept, cache>>

DownloadUnavailable ==
  /\ At("fetch")
  /\ Goto("overlay")
  /\ Quiet /\ UNCHANGED <<file, sysroot, kept, cache>>

\* urlretrieve() writes to the name under which the cache is looked up.
Fetch ==
  /\ At("fetch")
  /\ cache' \in IF cache = "none" THEN {"whole", "partial"} ELSE {cache}
  /\ Goto("extract")
  /\ Quiet /\ UNCHANGED <<file, sysroot, kept>>

FetchFails ==
  /\ At("fetch") /\ cache = "none"
  /\ cache' \in {"none", "torn"}
  /\ Fail
  /\ Quiet /\ UNCHANGED <<file, sysroot, kept>>

InZip == IF cache = "whole" THEN Names ELSE Names \ {"vfsd"}

\* A name that the zip file lacks must be there already.
Extract ==
  /\ At("extract") /\ cache # "torn"
  /\ file' = IF Order[k] \in InZip THEN [file EXCEPT ![Order[k]] = Release] ELSE file
  /\ IF k < Len(Order) THEN Again
     ELSE IF \A n \in Names : file'[n] # Missing THEN Goto("overlay") ELSE Fail
  /\ Quiet /\ UNCHANGED <<sysroot, kept, cache>>

\* zipfile refuses a file that is cut off.
ExtractFails ==
  /\ At("extract") /\ cache = "torn"
  /\ Fail
  /\ Quiet /\ UNCHANGED <<file, sysroot, kept, cache>>
-----------------------------------------------------------------------------
(***************************************************************************)
(* _overlay_local_nanvix(), the last part of setup() and the first of the  *)
(* other commands                                                          *)
(***************************************************************************)
AfterOverlay == IF cmd = "setup" THEN End("ok") ELSE Goto("check")

\* Mutant: the path is saved once it was copied, and only by setup.
OverlaySetupOnly ==
  /\ At("overlay")
  /\ UNCHANGED kept
  /\ IF cmd = "setup" /\ There(Path) /\ sysroot THEN Goto("overlay_copy") ELSE AfterOverlay
  /\ Quiet /\ UNCHANGED <<file, sysroot, cache>>
\* Mutant: the overlay, too, takes the sysroot away before it copies.
OverlayAnew ==
  /\ At("overlay")
  /\ kept' = IF There(Path) THEN Path ELSE kept
  /\ IF There(Path) /\ sysroot THEN Goto("overlay_copy") ELSE AfterOverlay
  /\ file' = IF There(Path) /\ sysroot THEN [n \in Names |-> Missing] ELSE file
  /\ Quiet /\ UNCHANGED <<sysroot, cache>>
\* No path, or a warning that it is no longer there: the sysroot stays as it
\* is.  The path is saved before anything is copied.
Overlay ==
  /\ At("overlay")
  /\ kept' = IF There(Path) THEN Path ELSE kept
  /\ IF There(Path) /\ sysroot THEN Goto("overlay_copy") ELSE AfterOverlay
  /\ Quiet /\ UNCHANGED <<file, sysroot, cache>>

OverlayCopy == CopyFrom(Path, "overlay_copy")

\* _run_tests_native()
Check ==
  /\ At("check")
  /\ IF sysroot /\ \A n \in Tested : file[n] # Missing THEN Goto("started") ELSE Fail
  /\ Quiet /\ UNCHANGED <<file, sysroot, kept, cache>>

Finish ==
  At("started") /\ End("ok") /\ Quiet /\ UNCHANGED <<file, sysroot, kept, cache>>

\* A kill, or an error of the disk half way: rmtree() leaves some of the files,
\* copying or extracting leaves part of one, and a download part of the zip file.
KillCommand ==
  /\ at = "command" /\ step \notin Rest /\ kills < MaxKills
  /\ CASE step = "remove" ->
            \E S \in SUBSET Names : file' = [n \in Names |-> IF n \in S THEN file[n] ELSE Missing]
       [] \/ step = "copy" /\ Order[k] \in local[given].has
          \/ step = "overlay_copy" /\ Order[k] \in local[Path].has
          \/ step = "extract" /\ cache # "torn" /\ Order[k] \in InZip ->
            file' = [file EXCEPT ![Order[k]] = Torn]
       [] OTHER -> UNCHANGED file
  /\ cache' = IF step = "fetch" /\ cache = "none" THEN "torn" ELSE cache
  /\ kills' = kills + 1 /\ Fail
  /\ UNCHANGED <<pin, global, venv, asked, tool, sysroot, kept, local, cmd>>

CommandStep ==
  \/ Begin \/ RemoveSysroot \/ SetupCopy \/ Verify \/ Save \/ Base \/ BaseFails
  \/ Download \/ DownloadUnavailable \/ Fetch \/ FetchFails \/ Extract \/ ExtractFails
  \/ Overlay \/ OverlayCopy \/ Check \/ Finish \/ KillCommand
=============================================================================
