---------------------------- MODULE BuildOutputs ----------------------------
(***************************************************************************)
(* What a checkout keeps between commands: the sources, the object files   *)
(* next to them, the binaries in build/, and the copies staged in          *)
(* bin_out() and test_out(); and the commands that carry one over into the *)
(* next: ./z build (natively or in Docker), ./z clean, ./z test, and the   *)
(* host Makefile.                                                          *)
(*                                                                         *)
(* A suite has one object file here; it stands for any one of those the    *)
(* suite has.  make compares time stamps; a version number plays that      *)
(* part.  Headers are no prerequisite of an object, and neither are the    *)
(* compiler flags, which depend on the deployment mode.                    *)
(***************************************************************************)
EXTENDS Naturals, FiniteSets

CONSTANTS
  Suites,      \* ALL_SUITES
  Modes,       \* values of config.deployment_mode, PROCESS_MODE
  Toolchains,  \* how ./z build may compile: subset of {"native", "docker"}
  UsesMake,    \* TRUE: the direct Make flow is used in this checkout too
  MaxChanges,  \* bound: edits and changes of the mode
  MaxKills     \* bound: commands stopped half way

ASSUME ConstantsAssumption ==
  /\ Toolchains \subseteq {"native", "docker"}
  /\ UsesMake \in BOOLEAN
  /\ MaxChanges \in Nat /\ MaxKills \in Nat

VARIABLES
  mode,             \* the configured deployment mode
  source, header,   \* suite -> version of its .c and of its .h files
  object,           \* suite -> what its .o was compiled from, or None
  build,            \* suite -> what build/<suite>.elf was, or None
  staged,           \* suite -> what test_out()/<suite>.elf was, or None
  pc,               \* the running command: "idle", "make" or "stage"
  todo,             \* the suites its loop has not come to
  last,             \* the last command that ended well, or what undid it
  cleaned,          \* no source or mode changed since ./z clean
  released,         \* history: the .c files as the last ./z build that ended
                    \* well found them, 0 if none did
  stopped,          \* history: staging was stopped since
  changes, kills    \* counters for the bounds

tree == <<mode, source, header>>
outputs == <<object, build, staged>>
command == <<pc, todo, last, cleaned>>
release == <<released, stopped>>
bounds == <<changes, kills>>
vars == <<tree, outputs, command, release, bounds>>

\* What a compiler makes of a suite: its sources, with the flags of a mode.
None == [source |-> 0, header |-> 0, mode |-> "none"]
CompiledFor(s, m) == [source |-> source[s], header |-> header[s], mode |-> m]
Current(s) == CompiledFor(s, mode)
Compiled == [source : Nat \ {0}, header : Nat \ {0}, mode : Modes] \cup {None}

Init ==
  /\ mode \in Modes
  /\ source = [s \in Suites |-> 1] /\ header = [s \in Suites |-> 1]
  /\ object = [s \in Suites |-> None]
  /\ build = [s \in Suites |-> None]
  /\ staged = [s \in Suites |-> None]
  /\ pc = "idle" /\ todo = {} /\ last = "none" /\ cleaned = FALSE
  /\ released = [s \in Suites |-> 0] /\ stopped = FALSE
  /\ changes = 0 /\ kills = 0

-----------------------------------------------------------------------------
(***************************************************************************)
(* Between two commands the developer edits a file or changes the mode.    *)
(***************************************************************************)
Changed ==
  /\ pc = "idle" /\ changes < MaxChanges
  /\ changes' = changes + 1
  /\ last' = "changed" /\ cleaned' = FALSE
  /\ UNCHANGED <<outputs, pc, todo, release, kills>>

EditSource(s) ==
  /\ Changed
  /\ source' = [source EXCEPT ![s] = @ + 1]
  /\ UNCHANGED <<mode, header>>

EditHeader(s) ==
  /\ Changed
  /\ header' = [header EXCEPT ![s] = @ + 1]
  /\ UNCHANGED <<mode, source>>

Configure(m) ==
  /\ Changed
  /\ mode # m /\ mode' = m
  /\ UNCHANGED <<source, header>>

-----------------------------------------------------------------------------
(***************************************************************************)
(* %.o: %.c                                                                *)
(***************************************************************************)
\* Mutant: any object will do.
UpToDateOnceBuilt(s) == object[s] # None

UpToDate(s) == object[s].source = source[s]

\* Mutant: CFLAGS is not exported to the makefile of the suite.
LinkedUnflagged(s, m) ==
  IF UpToDate(s) THEN object[s] ELSE CompiledFor(s, "none")

\* What `make -C <suite> all` links with the flags of m: the object there is,
\* or a new one.
Linked(s, m) == IF UpToDate(s) THEN object[s] ELSE CompiledFor(s, m)

(***************************************************************************)
(* ./z build with the SDK on this host: make -C src all, suite by suite,   *)
(* which stops at the first that does not compile or link.  One that does  *)
(* not link leaves its object, for a later build to take.                  *)
(***************************************************************************)
BuildNative ==
  /\ pc = "idle" /\ "native" \in Toolchains
  /\ pc' = "make" /\ todo' = Suites /\ last' = "started"
  /\ UNCHANGED <<tree, outputs, cleaned, release, bounds>>

MakeSuite(s) ==
  /\ pc = "make" /\ s \in todo
  /\ object' = [object EXCEPT ![s] = Linked(s, mode)]
  /\ build' = [build EXCEPT ![s] = Linked(s, mode)]
  /\ todo' = todo \ {s}
  /\ UNCHANGED <<tree, staged, pc, last, cleaned, release, bounds>>

\* What a make that does not come to its end leaves of the suite it was at.
LeavesObject ==
  \/ UNCHANGED object
  \/ \E s \in todo : object' = [object EXCEPT ![s] = Linked(s, mode)]

\* Mutant: ./z build goes on to staging when make fails.
MakeFailsUnseen ==
  /\ pc = "make" /\ todo # {}
  /\ pc' = "stage" /\ todo' = Suites
  /\ LeavesObject
  /\ UNCHANGED <<tree, build, staged, last, cleaned, release, bounds>>

MakeFails ==
  /\ pc = "make" /\ todo # {}
  /\ pc' = "idle" /\ todo' = {} /\ last' = "failed"
  /\ LeavesObject
  /\ UNCHANGED <<tree, build, staged, cleaned, release, bounds>>

MakeEnds ==
  /\ pc = "make" /\ todo = {}
  /\ pc' = "stage" /\ todo' = Suites
  /\ UNCHANGED <<tree, outputs, last, cleaned, release, bounds>>

(***************************************************************************)
(* docker build: the same make in a container, on a copy of src/ that      *)
(* takes the object files along.  The binaries come out together or not at *)
(* all; the container's own objects are thrown away.                       *)
(***************************************************************************)
DockerExport(m) == build' = [s \in Suites |-> Linked(s, m)]

DockerBuild ==
  /\ pc = "idle" /\ "docker" \in Toolchains
  /\ \/ DockerExport(mode) /\ pc' = "stage" /\ todo' = Suites /\ last' = "started"
     \/ UNCHANGED <<build, pc, todo>> /\ last' = "failed"
  /\ UNCHANGED <<tree, object, staged, cleaned, release, bounds>>

(***************************************************************************)
(* _stage_release_outputs: copy what is in build/.                         *)
(***************************************************************************)
StageSuite(s) ==
  /\ pc = "stage" /\ s \in todo
  /\ staged' = IF build[s] # None THEN [staged EXCEPT ![s] = build[s]]
               ELSE staged
  /\ todo' = todo \ {s}
  /\ UNCHANGED <<tree, object, build, pc, last, cleaned, release, bounds>>

BuildEnds ==
  /\ pc = "stage" /\ todo = {}
  /\ pc' = "idle" /\ last' = "build"
  /\ released' = source /\ stopped' = FALSE
  /\ UNCHANGED <<tree, outputs, todo, cleaned, bounds>>

(***************************************************************************)
(* ./z clean, which leaves what was staged.  On Windows it removes build/  *)
(* only; builds run in Docker there, and no object is ever made.           *)
(***************************************************************************)
\* Mutant: the objects stay.
CleanBinaries ==
  /\ pc = "idle"
  /\ build' = [s \in Suites |-> None]
  /\ last' = "clean" /\ cleaned' = TRUE
  /\ UNCHANGED <<tree, object, staged, pc, todo, release, bounds>>

Clean ==
  /\ pc = "idle"
  /\ object' = [s \in Suites |-> None]
  /\ build' = [s \in Suites |-> None]
  /\ last' = "clean" /\ cleaned' = TRUE
  /\ UNCHANGED <<tree, staged, pc, todo, release, bounds>>

(***************************************************************************)
(* make on the host, for a process mode of its own.  build/%.elf depends   *)
(* on the directory src/, which does not change when a file in a suite     *)
(* does, and on Makefile and Dockerfile: docker build runs if a binary is  *)
(* missing or one of those two was edited, which is left open here, and    *)
(* otherwise, or if docker build fails, build/ stays as it is.             *)
(***************************************************************************)
HostMake ==
  /\ pc = "idle" /\ UsesMake
  /\ UNCHANGED build \/ \E m \in Modes : DockerExport(m)
  /\ last' = "make"
  /\ UNCHANGED <<tree, object, staged, pc, todo, cleaned, release, bounds>>

\* make clean: rm -rf build.
HostClean ==
  /\ pc = "idle" /\ UsesMake
  /\ build' = [s \in Suites |-> None]
  /\ last' = "make_clean" /\ cleaned' = FALSE
  /\ UNCHANGED <<tree, object, staged, pc, todo, release, bounds>>

Kill ==
  /\ pc # "idle" /\ kills < MaxKills
  /\ pc' = "idle" /\ todo' = {} /\ last' = "failed"
  /\ IF pc = "make" THEN LeavesObject ELSE UNCHANGED object
  /\ stopped' = (stopped \/ pc = "stage")
  /\ kills' = kills + 1
  /\ UNCHANGED <<tree, build, staged, cleaned, released, changes>>

Next ==
  \/ \E s \in Suites : EditSource(s) \/ EditHeader(s)
  \/ \E m \in Modes : Configure(m)
  \/ BuildNative \/ MakeFails \/ MakeEnds
  \/ \E s \in Suites : MakeSuite(s) \/ StageSuite(s)
  \/ DockerBuild \/ BuildEnds
  \/ Clean \/ HostMake \/ HostClean \/ Kill

Spec == Init /\ [][Next]_vars

-----------------------------------------------------------------------------
(***************************************************************************)
(* ./z test takes its binaries from build/, if there is one, or else from  *)
(* test_out().                                                             *)
(***************************************************************************)
FromBuild == \E s \in Suites : build[s] # None
UnderTest(s) == IF FromBuild THEN build[s] ELSE staged[s]

(***************************************************************************)
(* Types of the variables.                                                 *)
(***************************************************************************)
TypeOK ==
  /\ mode \in Modes
  /\ source \in [Suites -> Nat \ {0}] /\ header \in [Suites -> Nat \ {0}]
  /\ object \in [Suites -> Compiled]
  /\ build \in [Suites -> Compiled]
  /\ staged \in [Suites -> Compiled]
  /\ pc \in {"idle", "make", "stage"}
  /\ todo \subseteq Suites
  /\ last \in {"none", "changed", "started", "failed", "build", "clean",
               "make", "make_clean"}
  /\ cleaned \in BOOLEAN
  /\ released \in [Suites -> Nat] /\ stopped \in BOOLEAN
  /\ changes \in Nat /\ kills \in Nat

(***************************************************************************)
(* After ./z build ended well, the binaries ./z test runs are of the .c    *)
(* files as they are, whatever objects and binaries earlier builds,        *)
(* failures and kills left: make recompiles what was edited.               *)
(***************************************************************************)
SourceEditsReach ==
  last = "build" => \A s \in Suites : UnderTest(s).source = source[s]

(***************************************************************************)
(* ./z clean is a remedy for every left-over: the build that follows it    *)
(* has the current headers and the flags of the current mode, whichever    *)
(* commands ran in between.                                                *)
(***************************************************************************)
CleanBuildIsCurrent ==
  last = "build" /\ cleaned => \A s \in Suites : UnderTest(s) = Current(s)

(***************************************************************************)
(* With nothing in build/, ./z test falls back on test_out() (z.py:474).   *)
(* These are binaries of one and the same state of the .c files, that of   *)
(* the last ./z build that ended well, whatever was edited, failed, killed *)
(* or cleaned since; but not if staging was stopped half way.              *)
(***************************************************************************)
FallbackIsLastBuild ==
  ~FromBuild /\ ~stopped => \A s \in Suites : UnderTest(s).source = released[s]

(***************************************************************************)
(* "Forwards the build configuration (platform, process mode, memory       *)
(* size)" (z.py:412): ./z build makes binaries for the configured mode.    *)
(* Not so when objects of another mode are there, which "Exclude build     *)
(* artifacts ... from Docker context" (.dockerignore:1) does not exclude.  *)
(***************************************************************************)
BuiltForMode ==
  last = "build" => \A s \in Suites : build[s].mode = mode

=============================================================================
