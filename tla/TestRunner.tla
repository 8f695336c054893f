----------------------------- MODULE TestRunner -----------------------------
(***************************************************************************)
(* ./z test: the loops of .nanvix/z.py that run the test binaries one      *)
(* after the other (_run_tests_standalone, _run_tests_non_standalone), the *)
(* files they leave on disk, and what happens to them when a run fails, is *)
(* interrupted or killed and started again.                                *)
(*                                                                         *)
(* The suites are taken in any order: nothing below depends on the order   *)
(* of the lists.  make_initrd, mkramfs and nanvixd are external; each may  *)
(* succeed or fail in the ways the code distinguishes.                     *)
(***************************************************************************)
EXTENDS Naturals, FiniteSets

CONSTANTS
  TestableSuites,        \* TESTABLE_SUITES
  InfrastructureSuites,  \* STANDALONE_INFRASTRUCTURE_SUITES
  LoaderSuites,          \* STANDALONE_ONLY_SUITES, which need a shared library;
                         \* empty while SDK_DYNAMIC_LOADER (z.py:66) is False
  MaxRuns,               \* bound: how often ./z test is started
  MaxStops,              \* bound: how often it is interrupted or killed
  DiskFails              \* TRUE: writing a file may fail half way

Suites == TestableSuites \cup InfrastructureSuites \cup LoaderSuites

ASSUME ConstantsAssumption ==
  /\ MaxRuns \in Nat /\ MaxStops \in Nat
  /\ DiskFails \in BOOLEAN

(***************************************************************************)
(* What a file at the repository root may hold: nothing, a file of the     *)
(* user's, an unfinished copy, or one of two builds of the suite.          *)
(***************************************************************************)
Builds == {"old", "new"}
RootContents == {"none", "user", "partial"} \cup Builds

VARIABLES
  pc,          \* the statement the runner is at; "idle" between two runs
  built,       \* suite -> its binary in build/, or "none"
  lib,         \* suite -> is the shared library it needs in build/
  root,        \* suite -> the file of its name at the repository root
  initrds,     \* the suites whose initrd image is in test_out()
  mode,        \* config.deployment_mode: "standalone", or any other
  todo,        \* the suites the loop has not come to
  suite,       \* the suite of this turn
  copied_elf, initrd,  \* the locals of this turn: did we copy; is it set
  raised,      \* an exception no except clause of the turn catches
  failed,      \* the list of the suites that failed
  passed,      \* the suites reported OK in this run
  ran,         \* suite -> the build nanvixd ran in this run, or "none"
  verdict,     \* how the last run ended
  before,      \* history: <<root, initrds>> when this run started
  runs, stops  \* counters for the bounds

disk == <<built, lib, root, initrds>>
turn == <<suite, copied_elf, initrd, raised>>
report == <<failed, passed, ran, verdict, before>>
bounds == <<runs, stops>>
vars == <<pc, disk, mode, todo, turn, report, bounds>>

NoSuite == "no_suite"

Labels == {"idle", "next", "exists", "copy", "copying", "copied", "initrd",
           "made", "libs", "mkramfs", "nanvixd", "ok", "finally", "unlink_elf"}

\* Inside the try statement of a turn.
Trying == Labels \ {"idle", "next", "finally", "unlink_elf"}

NoFiles == [s \in Suites |-> "none"]

Init ==
  /\ pc = "idle"
  /\ built \in [Suites -> {"none", "old"}]
  /\ lib = [s \in Suites |-> TRUE]
  /\ root = NoFiles
  /\ initrds = {}
  /\ mode = "standalone"
  /\ todo = {} /\ suite = NoSuite
  /\ copied_elf = FALSE /\ initrd = FALSE /\ raised = FALSE
  /\ failed = {} /\ passed = {} /\ ran = NoFiles
  /\ verdict = "none" /\ before = <<NoFiles, {}>>
  /\ runs = 0 /\ stops = 0

-----------------------------------------------------------------------------
(***************************************************************************)
(* Between two runs: a build, a missing library, a file of the user's.     *)
(***************************************************************************)
Build(s) ==
  /\ pc = "idle" /\ runs < MaxRuns
  /\ built' = [built EXCEPT ![s] = "new"]
  /\ UNCHANGED <<pc, lib, root, initrds, mode, todo, turn, report, bounds>>

LoseLibrary(s) ==
  /\ pc = "idle" /\ runs < MaxRuns
  /\ s \in LoaderSuites
  /\ lib' = [lib EXCEPT ![s] = FALSE]
  /\ UNCHANGED <<pc, built, root, initrds, mode, todo, turn, report, bounds>>

UserPuts(s) ==
  /\ pc = "idle" /\ runs < MaxRuns
  /\ root[s] = "none"
  /\ root' = [root EXCEPT ![s] = "user"]
  /\ UNCHANGED <<pc, built, lib, initrds, mode, todo, turn, report, bounds>>

-----------------------------------------------------------------------------
(***************************************************************************)
(* One run.                                                                *)
(***************************************************************************)
\* _run_tests_native: refuses to start without any binary.
Start(m) ==
  /\ pc = "idle" /\ runs < MaxRuns
  /\ \E s \in Suites \ LoaderSuites : built[s] # "none"
  /\ pc' = "next"
  /\ mode' = m
  /\ todo' = IF m = "standalone" THEN Suites ELSE TestableSuites
  /\ verdict' = "running" /\ before' = <<root, initrds>>
  /\ runs' = runs + 1
  /\ UNCHANGED <<disk, turn, failed, passed, ran, stops>>

\* if not binary.is_file(): print SKIP; continue
Skip(s) ==
  /\ pc = "next" /\ s \in todo
  /\ built[s] = "none"
  /\ todo' = todo \ {s}
  /\ UNCHANGED <<pc, disk, mode, turn, report, bounds>>

Turn(s) ==
  /\ pc = "next" /\ s \in todo
  /\ built[s] # "none"
  /\ todo' = todo \ {s}
  /\ suite' = s
  /\ copied_elf' = FALSE /\ initrd' = FALSE /\ raised' = FALSE
  /\ pc' = IF mode = "standalone" THEN "exists" ELSE "mkramfs"
  /\ UNCHANGED <<disk, mode, report, bounds>>

\* A statement of the turn that only moves on.
Go(from, to) ==
  /\ pc = from
  /\ pc' = to
  /\ UNCHANGED <<disk, mode, todo, turn, report, bounds>>

\* Mutants: the suite is reported but not recorded; it is tried again.
FailPrinted(from) ==
  /\ pc = from
  /\ pc' = "finally"
  /\ UNCHANGED <<disk, mode, todo, turn, report, bounds>>
FailRetried(from) ==
  /\ pc = from
  /\ pc' = "finally"
  /\ failed' = failed \cup {suite}
  /\ todo' = todo \cup {suite}
  /\ UNCHANGED <<disk, mode, turn, passed, ran, verdict, before, bounds>>

\* One of the except clauses: FAIL suite.
Fail(from) ==
  /\ pc = from
  /\ pc' = "finally"
  /\ failed' = failed \cup {suite}
  /\ UNCHANGED <<disk, mode, todo, turn, passed, ran, verdict, before, bounds>>

\* An exception none of the except clauses is for.
Raise(from) ==
  /\ pc = from
  /\ pc' = "finally"
  /\ raised' = TRUE
  /\ UNCHANGED <<disk, mode, todo, suite, copied_elf, initrd, report, bounds>>

\* Mutants: what is there is overwritten; it is used as it is.
ExistsIgnored == Go("exists", "copy")
ExistsReused ==
  /\ pc = "exists"
  /\ \/ root[suite] # "none" /\ Go("exists", "initrd")
     \/ root[suite] = "none" /\ Go("exists", "copy")

\* if repo_elf.exists(): raise FileExistsError
Exists ==
  /\ pc = "exists"
  /\ \/ root[suite] # "none" /\ Fail("exists")
     \/ root[suite] = "none" /\ Go("exists", "copy")

\* shutil.copy2(binary, repo_elf), first creating the file ...
CopyBegins ==
  /\ pc = "copy"
  /\ pc' = "copying"
  /\ root' = [root EXCEPT ![suite] = "partial"]
  /\ UNCHANGED <<built, lib, initrds, mode, todo, turn, report, bounds>>

\* Mutant: a link takes the place of the copy.
CopyLinks ==
  /\ pc = "copying"
  /\ pc' = "copied"
  /\ root' = [root EXCEPT ![suite] = "link"]
  /\ UNCHANGED <<built, lib, initrds, mode, todo, turn, report, bounds>>

\* ... then filling it, which may fail with an OSError.
CopyEnds ==
  \/ /\ pc = "copying"
     /\ pc' = "copied"
     /\ root' = [root EXCEPT ![suite] = built[suite]]
     /\ UNCHANGED <<built, lib, initrds, mode, todo, turn, report, bounds>>
  \/ DiskFails /\ Raise("copying")

Copied ==
  /\ pc = "copied"
  /\ pc' = "initrd"
  /\ copied_elf' = TRUE
  /\ UNCHANGED <<disk, mode, todo, suite, initrd, raised, report, bounds>>

\* make_initrd() builds the image of the file at the root, or fails without
\* leaving one; ...
MakeInitrd ==
  \/ /\ pc = "initrd"
     /\ pc' = "made"
     /\ initrds' = initrds \cup {suite}
     /\ ran' = [ran EXCEPT ![suite] = root[suite]]
     /\ UNCHANGED <<built, lib, root, mode, todo, turn,
                    failed, passed, verdict, before, bounds>>
  \/ Fail("initrd") \/ Raise("initrd")

\* ... then the local is set by which the finally clause knows of it.
InitrdMade ==
  /\ pc = "made"
  /\ pc' = "libs"
  /\ initrd' = TRUE
  /\ UNCHANGED <<disk, mode, todo, suite, copied_elf, raised, report, bounds>>

\* The shared libraries of the suite go into the ramfs, or it fails.
Libraries ==
  /\ pc = "libs"
  /\ \/ suite \in LoaderSuites /\ ~lib[suite] /\ Fail("libs")
     \/ (suite \in LoaderSuites => lib[suite]) /\ Go("libs", "mkramfs")

\* The temporary directory and its image; a full disk is not caught.
Mkramfs ==
  \/ Go("mkramfs", "nanvixd")
  \/ Fail("mkramfs")
  \/ DiskFails /\ Raise("mkramfs")

\* nanvixd runs the image, or the binary itself without one.
Nanvixd ==
  \/ /\ pc = "nanvixd"
     /\ pc' = "ok"
     /\ ran' = IF mode = "standalone" THEN ran
               ELSE [ran EXCEPT ![suite] = built[suite]]
     /\ UNCHANGED <<disk, mode, todo, turn, failed, passed, verdict, before, bounds>>
  \/ Fail("nanvixd")

PrintOk ==
  /\ pc = "ok"
  /\ pc' = "finally"
  /\ passed' = passed \cup {suite}
  /\ UNCHANGED <<disk, mode, todo, turn, failed, ran, verdict, before,
                 bounds>>

(***************************************************************************)
(* finally: remove the image, then the copy.  Single-process turns have no *)
(* such clause and nothing to remove.                                      *)
(***************************************************************************)
FinallyInitrd ==
  /\ pc = "finally"
  /\ pc' = "unlink_elf"
  /\ initrds' = IF initrd THEN initrds \ {suite} ELSE initrds
  /\ UNCHANGED <<built, lib, root, mode, todo, turn, report, bounds>>

\* The locals go with the turn, and the lists with the run.
ForgetTurn ==
  suite' = NoSuite /\ copied_elf' = FALSE /\ initrd' = FALSE /\ raised' = FALSE

EndTurn ==
  /\ pc' = "next"
  /\ ForgetTurn
  /\ UNCHANGED <<todo, report>>

EndRun(v) ==
  /\ pc' = "idle" /\ verdict' = v
  /\ ForgetTurn
  /\ todo' = {} /\ failed' = {} /\ passed' = {}
  /\ ran' = NoFiles /\ before' = <<NoFiles, {}>>

\* Mutant: the copy is removed only when the suite did not fail.
FinallyElfOnSuccess ==
  /\ pc = "unlink_elf"
  /\ root' = IF copied_elf /\ suite \in passed
             THEN [root EXCEPT ![suite] = "none"] ELSE root
  /\ IF raised THEN EndRun("error") ELSE EndTurn
  /\ UNCHANGED <<built, lib, initrds, mode, bounds>>

FinallyElf ==
  /\ pc = "unlink_elf"
  /\ root' = IF copied_elf THEN [root EXCEPT ![suite] = "none"] ELSE root
  /\ IF raised THEN EndRun("error") ELSE EndTurn
  /\ UNCHANGED <<built, lib, initrds, mode, bounds>>

\* if failed: sys.exit(...); print("POSIX tests PASSED")
Finish ==
  /\ pc = "next" /\ todo = {}
  /\ EndRun(IF failed # {} THEN "failed" ELSE "passed")
  /\ UNCHANGED <<disk, mode, bounds>>

Runner ==
  \/ \E s \in Suites : Skip(s) \/ Turn(s)
  \/ Exists \/ CopyBegins \/ CopyEnds \/ Copied \/ MakeInitrd \/ InitrdMade
  \/ Libraries \/ Mkramfs \/ Nanvixd \/ PrintOk \/ FinallyInitrd \/ FinallyElf \/ Finish

(***************************************************************************)
(* Control-C raises KeyboardInterrupt, for which there is only the finally *)
(* clause; a kill leaves everything as it is, and so does Control-C within *)
(* the finally clause, which is not carried on.                            *)
(***************************************************************************)
Interrupt ==
  /\ stops < MaxStops
  /\ pc \in Trying
  /\ pc' = "finally"
  /\ raised' = TRUE
  /\ stops' = stops + 1
  /\ UNCHANGED <<disk, mode, todo, suite, copied_elf, initrd, report, runs>>

Kill ==
  /\ stops < MaxStops
  /\ pc # "idle"
  /\ EndRun("error")
  /\ stops' = stops + 1
  /\ UNCHANGED <<disk, mode, runs>>

Stop == pc = "idle" /\ UNCHANGED vars

Next ==
  \/ \E s \in Suites : Build(s) \/ LoseLibrary(s) \/ UserPuts(s)
  \/ \E m \in {"standalone", "other"} : Start(m)
  \/ Runner \/ Interrupt \/ Kill \/ Stop

Spec == Init /\ [][Next]_vars

\* A run goes on until it ends: nanvixd and mkramfs are under a timeout.
FairSpec == Spec /\ WF_vars(Runner)
-----------------------------------------------------------------------------
(***************************************************************************)
(* Types of the variables.                                                 *)
(***************************************************************************)
TypeOK ==
  /\ pc \in Labels
  /\ built \in [Suites -> Builds \cup {"none"}]
  /\ lib \in [Suites -> BOOLEAN]
  /\ root \in [Suites -> RootContents]
  /\ initrds \subseteq Suites
  /\ mode \in {"standalone", "other"}
  /\ todo \subseteq Suites
  /\ suite \in Suites \cup {NoSuite}
  /\ pc \in Trying \cup {"finally", "unlink_elf"} => suite \in Suites
  /\ copied_elf \in BOOLEAN /\ initrd \in BOOLEAN /\ raised \in BOOLEAN
  /\ failed \subseteq Suites /\ passed \subseteq Suites
  /\ ran \in [Suites -> RootContents]
  /\ before \in [Suites -> RootContents] \X SUBSET Suites
  /\ verdict \in {"none", "running", "passed", "failed", "error"}
  /\ runs \in Nat /\ stops \in Nat

(***************************************************************************)
(* "refusing to clobber existing" (z.py:538): a file of the user's at the  *)
(* repository root is never overwritten or removed, whatever stops a run   *)
(* and however many runs follow.                                           *)
(***************************************************************************)
UserFileKept ==
  [][\A s \in Suites : root[s] = "user" => root'[s] = "user"]_vars

(***************************************************************************)
(* A suite reported OK (z.py:603, :693) was run from the binary that is in *)
(* build/, not from what an earlier run left at the repository root.       *)
(***************************************************************************)
TestedInRun == pc # "idle" => \A s \in passed : ran[s] = built[s]

(***************************************************************************)
(* "POSIX tests PASSED" (z.py:624, :706) is printed only if every suite of *)
(* this mode that has a binary was reported OK, and none failed.           *)
(***************************************************************************)
PassedMeansOk ==
  pc = "next" /\ todo = {} /\ failed = {} =>
    \A s \in IF mode = "standalone" THEN Suites ELSE TestableSuites :
      built[s] # "none" => s \in passed

(***************************************************************************)
(* A run that comes to its end, PASSED or not, leaves the repository root  *)
(* as it found it, with the left-overs of others, and no image of its own. *)
(***************************************************************************)
LeavesNoTrace ==
  [][pc # "idle" /\ pc' = "idle" /\ verdict' # "error" =>
       root' = before[1] /\ initrds' \subseteq before[2]]_vars

(***************************************************************************)
(* "The ELF is temporarily copied to the repo root" (z.py:519): between    *)
(* two runs the root holds no copy of the runner's, and test_out() no      *)
(* image.  Not true once a run was stopped, nor once the copy itself       *)
(* failed: the local that tells the finally clause is set after it.        *)
(***************************************************************************)
CopyIsTemporary ==
  pc = "idle" => /\ \A s \in Suites : root[s] \in {"none", "user"}
                 /\ initrds = {}

(***************************************************************************)
(* Every run comes to an end.                                              *)
(***************************************************************************)
RunEnds == (pc # "idle") ~> (pc = "idle")
=============================================================================
