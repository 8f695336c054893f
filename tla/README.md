# TLA+ models of posix-tests

posix-tests is a set of POSIX conformance programs for the Nanvix operating system (`src/src/<suite>`), and
the scripts that build them and run them on a host (`src/.nanvix/z.py`, `src/z.sh`, the Makefiles and the
Dockerfile). Paths below are relative to `src/`.

The project asks three questions of it, because they are what makes a test suite right:

1. **Does it end and pass on a conforming library, in every schedule?** A test that fails or hangs by itself
   is worse than none.
2. **What does a pass say?** A library with one fault is put under the test; the fault must be reported.
3. **Can the harness be stopped anywhere and started again?** What one command leaves behind (files, objects,
   staged binaries) is what the next one starts from.

The POSIX library, the file system, `make`, `docker`, `pip`, `nanvix-zutil`, `nanvixd` and `make_initrd` are
outside the repository: they are modelled from what the code relies on and marked external in `PROJECT.json`.

## Inventory

| Component | State it keeps | Operations | Hard behaviour |
|---|---|---|---|
| thread-c, read-write locks (`rwlock_static_init.c`, `rwlock_dynamic_init.c`) | the lock; flags and a stage counter shared without a lock | lock, unlock, poll, announce, assert | every interleaving of three threads; handshakes by polling; verdict from racy reads |
| thread-c, mutexes (`mutex_*_init.c`, `mutex_trylock.c`, `mutex_timedlock.c`) | the mutex, `initialized`, a copy in main | hold, poll, try, time out | a flag left over from the previous call; progress of a polling lock; deadline as the only way out |
| thread-c, condition variables (`cond_static_init.c`, `cond_timedwait.c`) | mutex, sleepers, `initialized` | wait, signal, timed wait | lost and spurious wakeups; the clock a deadline is measured by |
| thread-c, per-thread data (`tda.c`, `thread_local.c`) | one value per thread and name | set, look, create, join | values of another or an earlier thread |
| thread-c, exit (`nowait.c`) and `main.c` | the process | the calls in order, "ok", exit | a thread that never ends; a test disturbing the next |
| thread-c, attributes and identity (`self.c`, `attr_init_destroy.c`, `getstack.c`, `getattr.c`, `create_join.c`) | none | straight-line checks | none |
| file-c | names in the working directory, open files, offsets | 44 tests of file system calls | names left by an aborted run; offsets and links |
| network-c | sockets, one port, one socket file | create, bind, listen, name, pair, send, shut down | sockets left open; a socket file left behind; two processes at one address |
| memory-c | the heap, arrays of blocks | allocation patterns | exhaustion, fragmentation, coalescing |
| misc-c, c-bindings, hello, noop, echo | none, or one buffer | single calls, read/write loop | short writes |
| dlfcn suites | handles, symbol scopes | open, resolve, close | not built with the pinned SDK |
| z.py, test runner | ELF copies at the root, initrd images, lists of failed suites | copy, initrd, mkramfs, run, clean up | exceptions, interrupts and kills at every statement; left-overs of the last run |
| z.py, build and staging; Makefiles; Dockerfile | objects, `build/`, staged copies | build, stage, clean, choose | stale objects, half-finished builds, two build flows over one tree |
| z.py, setup, overlay, Windows download | sysroot, cache, `env.json` | download, copy, verify, remember a local build | interrupted setup and downloads; local builds that change or go away |
| z.sh, z.ps1 | the venv and its record | resolve, install, exec | interrupted installs, switched sources and pins |
| CI | none here | calls a workflow elsewhere | not in this repository |

How they interact: `z.sh` installs and executes `nanvix-zutil`, which runs the hooks of `z.py`; `./z build`
leaves `build/` and staged copies, `./z test` takes one or the other and runs each suite under `nanvixd`, whose
exit code is all it looks at; inside a suite `main()` calls the tests one after the other in one process, so
that threads, descriptors and files of one test are there for the next.

### What makes each part correct

- **Lock, mutex and condition tests**: with a conforming library no schedule makes an assertion fail or a thread
  wait for ever; a pass implies that the lock did what its name says; the flags are what the holders of the lock
  make of them; a test is over when its threads are.
- **file-c**: every test gives back names, descriptors and the working directory; a run finds a library that
  does one thing wrong; what a killed run leaves behind is healed by the next one, or stops it.
- **network-c**: the suite passes wherever it has the host to itself, whatever an earlier process left; a test gives
  back its address; a failure beside another process is that process's doing.
- **memory-c**: every test gives back what it took, so that the next one has the whole heap; a pass rules out the
  faults an allocator is likely to have; how much memory the suite needs.
- **Test runner**: a file of the user's is never touched; what is reported OK was run and is what was built;
  a run that ends leaves no trace; "PASSED" means that all suites passed.
- **Build and staging**: what is tested is what was built, from the sources of now, for the mode configured.
- **Setup and bootstrap**: a command runs with the pinned tool, or the one asked for; tests start on the binaries of
  one build, the one in force, and never on half a file that a setup which succeeded left, nor without a file that
  setup required.

## Modules

| Module | Models | State and actions in the code |
|---|---|---|
| `TestProcess` | what all threaded tests share | `pc` is the statement each thread is at; `Assert` is `assert()`, which ends the process; `Create`, `Join` are the thread calls |
| `RwLock` | abstract: one read-write lock | who holds it; the duty to unlock only what one holds |
| `RwlockDynamicInit` | `thread-c/rwlock_dynamic_init.c` | one action per statement that touches shared data; `writer_inside`, `reader_inside`, `reader_started_after_writer` keep the names of the code |
| `RwlockStaticInit` | `thread-c/rwlock_static_init.c` | `stage` 0 to 4 and the two readers that hand it on |
| `MutexTests` | the four mutex tests | a round is one call of a `main_thread()`; `initialized` is shared by the two calls of the dynamic test, as in the code |
| `CondTests` | the two condition variable tests | `sleepers` is the wait queue; `StaticRelock` is the way out of `pthread_cond_wait()` |
| `ThreadData` | `tda.c`, `thread_local.c` | `store`: name, thread, value |
| `ThreadExit` | `nowait.c` | the mutex main holds for ever, the worker that waits for it |
| `ThreadSuite` | `thread-c/main.c` | composes the six test modules by `INSTANCE`: `at` is the call main() is in; they share `aborted`, the process, and a library with at most one wrong part |
| `FileScripts` | the 44 tests of `file-c` | one sequence of calls per test, with the names, flags and data of the code; `Tests(standalone)` is main() with and without `__NANVIX_STANDALONE__` |
| `FileTests` | the process that runs them, over a file system | `dir` maps names to inodes, `node` inodes to what they hold; one action per system call; `GoOn` is the way through main() |
| `NetTests` | network-c, in several processes on one host | the tests are sequences of calls, and one action is one call with the assertions about its result; `fds` are the descriptors by local variable, `lost` those no variable holds any more; `port` and `files` are the host's; `Start` and `Kill` are the user |
| `HeapScripts` | the eight tests of `memory-c` | one sequence of operations per test, with the sizes, counts and generator of the code |
| `HeapTests` | the process that runs them, over a heap | `free` is the heap as intervals, `held` the arrays of pointers of the test by their names; one action per operation and turn of its loop |
| `TestRunner` | the two loops of `z.py` that run the suites | `pc` is the statement of the turn; `root` is the repository root, `initrds` is `test_out()`; `copied_elf`, `initrd`, `failed` are the locals |
| `BuildOutputs` | `z.py` build, stage, clean; the Makefiles; the Dockerfile | objects, `build/`, staged copies, each with the version and mode it was made of; `released` and `stopped` are history: what the last completed build was made of, and whether staging was stopped half way since |
| `ToolBootstrap` | `z.sh` | `at` is the point of the script: choose, clear, install, record, exec; `venv` has the executable, the package, where it came from, and the record |
| `SysrootSetup` | `setup()`, the overlay and the Windows download of `z.py` | `step` is the statement of the command; `file` is `sysroot/bin`, `kept` is `local_nanvix_path` in `env.json`; `setup` is history: how the last setup ended |
| `HostSetup` | `./z.sh setup`, `test`, `distclean`, again and again | composes the two over their shared `at`; between commands the pin and the local builds change |
| `MCHostSetup` | | the symmetry of versions, of trees and of directories, and the constraint that varies one thing at a time |
| `RwlockDynamicInit_proofs`, `ThreadSuite_proofs`, `FileTests_proofs`, `NetTests_proofs`, `HeapTests_proofs`, `TestRunner_proofs`, `BuildOutputs_proofs`, `HostSetup_proofs` | theorems | below; `ThreadSuite_proofs` takes the proofs of the first read-write lock test by `INSTANCE` |

`TestRunner.built` is what `BuildOutputs` says is under test; a turn's verdict is the exit code of the processes
that `ThreadSuite`, `FileTests`, `NetTests` and `HeapTests` model, on the binaries `HostSetup` speaks of. The mutants, definitions marked so in the modules, are the bugs each
property was tried against; they are used nowhere.

Abstractions that all modules make:

- A step is one access to shared memory or one call. The `volatile int` flags are read and written one at a time
  and in order; the orders a weaker memory would add are left out.
- Loops of 4000 and 2000 `sched_yield()` calls are the constants `WriterYields` and `ReaderYields`.
- In `FileTests`, contents are sequences of pieces, not bytes: "Hello " and "Nanvix!" are one each, so that an
  offset between them, within the file and past its end can be told apart. Times are small numbers. Results of
  calls that cannot fail here (space, signals, limits) are not enumerated: the library's faults are, one at a time.
- In `NetTests` an address is the port, or the name of the socket file, which `rand()` makes of one of two seeds;
  the contents of `sockaddr` are that name. `connect()` and `accept()` do not occur in the suite.
- In `HeapTests` sizes are the bytes of the code. Of what is written to a block only the first byte is told apart;
  blocks that overlap are found by their intervals.
- In `HostSetup` the nine binaries are four: the three that setup() requires, of which test() requires two, and one
  that nobody checks. A binary is the release's or one build's of one directory, whole or torn.
- In `BuildOutputs` a suite has one source, one header and one object; version numbers stand for time stamps. The host
  `make` runs docker in a mode of its own (`PROCESS_MODE`, Makefile:25), or does nothing; whether an edit of the Makefile or
  Dockerfile makes it run is left open. A suite that make fails at may leave its object without its binary. `clean` is
  the one of Linux: that of Windows keeps objects, but no build puts any into a checkout there.
- In `TestRunner` a step is a statement; `Kill` in the finally clause also stands for a Control-C there, which has no handler
  left. An error of the disk inside a copy of `z.py` is `KillCommand` in `HostSetup`: both leave the part that was written.
- Calls that only read and cannot interfere are taken together: `getsockname()` and `getpeername()` of
  `unix.c:43-48`. `pthread_key_create()` and `pthread_key_delete()` always succeed.

## Runs

| Run | What it shows | Distinct states |
|---|---|---|
| `rwlock_dynamic` | The test never lets writer and reader be inside together, fails only by its racy check, ends once main has seen the writer, and implements `RwLock`. 9 and 6 yields: longer than any polling of main needs to overlap both loops. | 111 |
| `rwlock_dynamic_spin` | Finding: the check of line 93 reads two flags one after the other and can fail with a correct lock. | |
| `thread_suite` | The whole of thread-c with a conforming library and with each faulty one: it ends with exit code 0 in every schedule but those named below; what exit code 0 excludes; which part of the library a failed assertion blames (`FailureTells`); no thread is left to the next test; and the properties of each test inside the suite. | 7202 |
| `mutex_loop` | Finding: the second call of the dynamic mutex test does not wait for its worker. | |
| `file_tests` | file-c with each of 35 library faults, with and without privileges and a used errno, in both builds; up to three runs over one directory, killed at any call. | 46886 |
| `network_tests` | network-c, two processes that are started three times and killed at any call, of either build; and one process over 15 libraries with one fault and 18 sizes of the descriptor table. | 854880 |
| `heap_tests` | memory-c over 15 allocators, with and without headers, first and best fit, and eight sizes of heap: one just too small for the suite and one just enough for each way to count, and up to 64 MB. | 750806 |
| `test_runner` | Two runs in both modes with every failure the code distinguishes, an interrupt or a kill at any statement, user files, new builds and a full disk. | 818672 |
| `test_runner_disk` | Finding: a copy that fails half way stays at the root and blocks the suite. | |
| `build_outputs` | Both build flows with three changes of sources or mode and two commands stopped half way; what the tests fall back on when `build/` is empty. | 4147676 |
| `build_mode` | Finding: objects of one deployment mode are linked into a build for another. | |
| `host_setup` | Any sequence of setups, tests and distcleans on a Windows host, with two kills anywhere: which tool runs, and which binaries the tests start on. | 8343321 |

**Bounds.** `MaxRuns`, `MaxStops`, `MaxKills`, `MaxChanges` count what the environment does, and each property
speaks of one thing left behind and one later run that meets it: two runs and one stop make such a pair, and a
third run (file-c) meets what a second, blocked one made of it. Two suites are enough for the loops, which treat
them independently; `test_runner` has one suite of each list of `z.py`. The yields of the rwlock test only matter
by whether the other side gets through its loop meanwhile; the proofs hold for every number.
In `network_tests` a third start meets what a killed process left, with or without a neighbour; 18 descriptors are
what the suite takes in all, so that a leak in every `close()` is met and not met. The capacities of `heap_tests` lie
on both sides of each limit of `PassTells`. In `host_setup` two versions, trees, directories and builds make the
switches from one to another. The bootstrap and the sysroot share only where the script is, and the constraint
`OneAtATime` keeps one of them at its default: with a local directory the tool is the wheel of the pinned version, or part
of it; with another tool the sysroot is the release, or part of it. Two kills are one that leaves something and
one in the command that meets it; the proofs hold for any number, without the constraint. A Linux host downloads no
zip file, and does nothing else that Windows does not.
`LoaderSuites` is not empty although `SDK_DYNAMIC_LOADER` (z.py:66) is False with the pinned SDK: the branch is
in the code, and `{}` is the special case without its actions.

**Deadlock** is checked except in `ThreadSuite.cfg` and `MutexTestsLoop.cfg`, where a faulty library makes a test
wait for ever; that is how the test reports it. In all others the process, the runner or the checkout
may only stop where `Stop` says so. For `heap_tests`, a loop-free sequential program, this says that it ends.

**Fairness.** Every thread that can go on does (`WF`, a preemptive scheduler). A thread that waits for a mutex another
one takes and gives back in a polling loop gets it in the end (`SF` on the lock): the polling loops call
`sched_yield()` with the mutex free. `FileTests` assumes that calls return: the files are regular ones and the
timeouts of `poll()` and `select()` are finite. `TestRunner` assumes that a run goes on: mkramfs and nanvixd are
under a timeout (z.py:601). `NetTests`: every process makes its next call; only `read()` may wait. `BuildOutputs`, `HeapTests` and `HostSetup`
assume nothing.

## What file-c is blind to

`PassTells` of `FileTests` says exactly which faults pass unseen. In the full build: `pread()` and `pwrite()` that
ignore their offset (the test uses 0, or the offset the file is at anyway) or move it; `rename()` that keeps the old
name; a wrong link count; a `readlinkat()` that stops early (the comparison stops with it); `mkdir()` of what is
there, `O_EXCL` and `O_CREAT` on an existing file, since no test meets one; `fchmod()` and `lchmod()` that do nothing,
since the file is created with mode 0600 and the bits they take away were never there. A standalone build
leaves out 17 tests and with them ten more faults.

A run that is killed is healed by the next one unless it leaves `README.link`, `testfile.link`,
`poll_testfile.tmp`, `select_testfile.tmp`, `testdir`, `testdir_chdir` or `testdir_fchdir`, or `testfile.tmp` without
write permission: then no later run passes until somebody removes the file. The suite fails for a process that
may write read-only files (`access.c:47`), and always if the calls that succeed leave `errno` set, as POSIX lets them
(`dirent.c:42`): `PassTells` says that such a library fails, and `ConformingPasses` is about one that keeps `errno`.

## What network-c and memory-c are blind to

network-c: a `bind()` that shares an address in use, since no test binds twice; `listen()` and `shutdown()` that do
nothing, since nobody connects or reads afterwards; `getpeername()` that returns the socket's own name, which is what
the test compares it with, and equal for a pair (`unix.c:52`). A standalone build has only the tests of `inet.c` and
misses six more. The suite needs 4 descriptors and not 2, because `test_getpeername()` closes neither of its own
(`unix.c:36`).

memory-c needs four blocks of a megabyte with an anchor after each (`heap_shrink.c:154`), 4 MB and 256 bytes plus headers.
An allocator whose blocks have no headers and that hands out the memory of small blocks twice, or unmaps the last one,
passes, since nobody reads an anchor again (`heap_stress.c:114`, `heap_shrink.c:163`); so does one without headers that
ignores the alignment, since the aligned blocks are taken from an empty heap. With 32 MB or more the loops that fill the
heap stop before it is full (`heap_stress.c:50`), and with twice as much free neighbours that are never joined do not
show. A `realloc()` that leaks is noticed only if nearly no room is left. The suite refuses an allocator that reports
the rounded size of a block, as POSIX systems may, and says so (`malloc_usable_size.c:42`).

## Setup and bootstrap

What the properties of `HostSetup` leave room for, each reachable in the model:

- A run with `--with-zutils` may execute a venv whose package a killed install removed while executable and record stayed: the
  record is compared, not the package (`z.sh:158`). It fails, and does so until a run without the flag, or for another
  tree, reinstalls. An editable install that reports the pinned version serves runs without the flag (`z.sh:165`).
- A `distclean` that fails ends the script before it removes the venv (`set -e`, `z.sh:189`); `z.ps1` removes it.
- A torn zip file in the cache is not fetched again: every setup that needs it fails until somebody removes it
  (`z.py:775`).
- A directory remembered in `env.json` is used until another one is named; a setup without the flag installs the release
  and then copies the directory over it (`z.py:346`). When the directory is gone the sysroot stays what it is.
- After a kill the sysroot may hold part of a file, and the next test of another command starts on it, unless the overlay
  writes it anew: only existence is checked (`z.py:461`).
- After a setup that failed or was killed tests may also start without a kernel, since only two of the three required
  files are looked at again (`z.py:445`). `RequiredOnceSetUp` says that a setup that ends well leaves them whole, and that
  nothing else leads there: not an overlay, a rebuild, a kill of a later test or a test that fails.
- A failed install leaves some of the executable and the package, or neither (`HalfInstalled`), as a killed one does.

`ZScript.setup()` is assumed to install a release as a whole or not at all; what `distclean` removes besides the venv is
left open.

## Findings

The runs marked above. Each states in one property what the comment, assertion or file header quoted in
`PROJECT.json` says, and TLC shows the schedule in which the code does otherwise. The conforming properties
name these exceptions, so that anything else that goes wrong is a violation. `ConformingPasses` of the thread
suite names two more: main can miss the flag the writer raises and lowers without a handshake, and then polls
for ever (`rwlock_dynamic_init.c:83`; `EndsOnceWriterSeen` says that nothing else keeps it); and the timed wait has no
loop around it, so that a spurious wakeup fails the test (`cond_timedwait.c:49`). The prerequisite of the host Makefile
is the directory `src`, so that an edit of a file in it rebuilds nothing (`Makefile:41`).

## Proofs

All eight proof modules take the constants as they come, with only the named assumptions (naturals for the bounds
and the lengths of the yield loops, Booleans for the switches).

- **`RwlockDynamicInit_proofs`**: types; that writer and reader are never both inside; that only the check of line 93
  can fail; that the test implements `RwLock`, so that its sections exclude (`SectionsExclude`). None of these is
  inductive: the flags follow from who holds the lock, and that from the labels. `MainInv` is what each label of main says about the workers, `HolderInv` what the
  labels say about the lock, `FlagInv` about the flags, for a lock that excludes and for one that does not;
  `ExclusiveInv` is what exclusion adds. The proof goes action by action; it holds for every length of the yield loops.
- **`ThreadSuite_proofs`**: first the read-write lock of the static initializer on its own: the table of stages tells who
  holds the lock (`StagesTell`); the test cannot fail on a lock that counts its readers (`SharedNeverFails`); and it passes
  on no other of the four (`PassMeansShared`). `StageInv` ties the stage to the labels of the readers, for every lock;
  `HolderInv` says who holds a good one, and how far reader B gets with each bad one; `MainInv` carries this to main's
  assertions. That the test ends is liveness, and with TLC.
  Then all six invariants of the run, in the one process of `main.c`. Each test has an invariant of its
  own, which holds as long as nothing failed: for the read-write locks those already proved, for the others
  who holds the mutex, who sleeps and what the flag says, told from the labels (`MutexOwners`, `CondOwner`, `CondFlag`,
  `DataApart`). A step of one test leaves the variables of the others alone; a failed assertion ends them all. That a
  test passed implies that none of its threads can go on (`MutexPassed` and its like), which is why the next one has
  the process to itself (`NoThreadIsLeft`). `MutexFailures`, `CondFailures` and `DataFailures` say which assertions are left with which fault: together they
  are `FailureTells`, and with a test that passed, what a pass tells. The run has one faulty part; `ManyFaults` says
  that what a pass and a failure tell does not depend on it.
- **`NetTests_proofs`**: all three safety properties, for any number of processes, starts and kills. First that only a
  neighbour makes a process fail on a library without a fault (`FailsOnlyByNeighbour`), and
  what the tests give back (`CleanBetween`). The call a process is at
  tells what it holds: `SocketInv`, `PairInv` and `FileInv` say so by test and step, and `Script` that the suite of
  the code is the list they go by. The frame is `Effect`: a call changes what is its process's own, and the file of
  its build. `NeighboursInv`, that two that run know each other's builds, makes the file of a process without a
  neighbour its own. `SocketpairOwn` has the two descriptors that `test_getpeername()` loses (`unix.c:36`).
  All this is shown for every fault that no assertion sees (`Passing`), a `close()` that leaks among them, for
  which `LostAt` counts what was lost so far.
  Then what a verdict tells (`SuiteTells`, the theorem of `PassTells`). That a process passes with those faults is the
  first part. That it does not with the others is not visible in one state: `WallInv` names for each such fault, and for a
  table of fewer than 4 descriptors, the call that no process gets past (`WallTest`, `WallStep`), and what the process
  carries to it from the call where the fault showed (`Carries`: a socket without a name, the port of the socket
  before, a file that is still there, ...). One lemma for each says that its calls keep this up to the wall and fail
  at it (`BindNoneWall`, ..., `FewWall`). `RoomInv` is the limit for a `close()` that leaks: what was made so far is
  open, and fits.
- **`FileTests_proofs`**: no call of the 44 scripts changes or removes `README.md` (`ReadmeKept`), with any fault but an
  `unlink()` that takes all names, however often a run is killed and started again. `ScriptsAreCareful` goes through the
  scripts: which names their calls are about. `AliasInv` is what that leaves to show: no name but `README.link`, and no
  descriptor, leads to the inode of `README.md`, and no other name is a symbolic link. It rests on `FreeInode`: there is an inode
  that nothing refers to, by counting names and descriptors, so a new one is not in use. One lemma for each call
  says that it keeps this (`OpenKeeps`, `LinkKeeps`, ...).
  Its second part is `BlockedNeverPasses`: a run over what a killed one left fails. `NeedTest` and `NeedStep` are the first
  call of the suite that a leftover name makes fail. `BlockInv`: a name in the way of a run is still there while the run is
  ahead of that call; `TestsSpare` and `ScriptsSpare` say that nothing before it removes the name, and `NeededFails` that the
  call then aborts the process, which leaves the name to the next run (`EndedInv`). It is about the build whose tests
  are one program and a library without a fault, as the property is.
  Its third part is that each test gives back what it took (`TestsLeaveNothing`) and that a run that passes removes what
  killed ones left (`PassingHeals`), on a library without a fault. Neither is inductive: in the middle of a test there
  are names and descriptors, and a later run meets names of earlier ones. `TidyInv` says of each name this run made or
  removed, of each descriptor and of the working directory that what is out of place now is put right by a call still
  to come in the script; that a name this run removed stays away until a test makes it again; and that an inode is free exactly if
  nothing refers to it. `ScriptsAreTidy` goes through the scripts: each call that takes is followed by one that gives
  back. One lemma for each call says what it changes (`OpenTidy`, ...), and `AllRemoved` that every name the tests make is
  removed by some test, so that after all of them none is left.
- **`HeapTests_proofs`**: on an allocator without a fault every test of memory-c gives back what it took (`Drained`), for any
  sizes of heap, headers and fit. It has two halves. That of the scripts: `Tidy`, a script frees what it allocates and
  has one block in `ptr` where it uses one, is shown for the eight tests (`SuiteTidy`), through their loops, the
  32 rounds and the four phases; `TidyBy` asks for what is held before each operation, and `Window` and `TidyConcat` put
  scripts together. That of the heap: `Divided`, free intervals that do not touch and blocks that do not overlap
  make up the heap to the last byte; `Taking` and `Giving` say that malloc() and free() with coalescing keep it,
  and `NothingTaken` that it is one interval when no block is held. The invariant (`HeapIsDivided`) joins the two by
  `AsScripted`: an array holds something only if the script says so, and each block is held once, which is why
  realloc() and the anchors taken out of `blocks` lose none. `DrainedBetween` alone is not inductive: in the
  middle of a test nothing says what is missing from the free list.
- **`TestRunner_proofs`**: types, and the four safety properties of the runner, for any suites, any number of runs and
  stops, and a disk that fails. `CopyInv` says what each statement of a turn knows of the file at the root (nothing
  there before the copy, a partial one during it, the binary after it) and that `copied_elf` implies a copy, which is
  why the finally clause removes nothing else (`UserFileSafe`); `ImageInv` carries the contents on to the image and
  the report (`ReportedIsBuilt`). `RecordInv`: no suite is lost between the loop, its turn and the lists
  (`PassedIsOk`). `TraceInv`: a turn without an exception is one file and one image away from what the run found
  (`EndsClean`). The exceptions are needed in each: a turn left by one records and removes less.
- **`BuildOutputs_proofs`**: types, the three safety properties, and that a build that ended well staged what it built, for any suites, modes and toolchains and any number of
  edits and kills. `BuildInv` says which suites the loops of make and of staging have been to, and what that means for
  `build/` and the staged copies; `CleanInv` that once objects were removed the ones there are current, as long as
  nothing changes. `LinkedFacts` is why make may keep an object it finds, `LeftFacts` what a suite that was stopped
  leaves. `ReleaseInv`: unless staging was stopped the staged copies are of the sources of the last build that ended well, and
  while it goes on, of the ones already copied.
- **`HostSetup_proofs`**: all five properties of the run, for any versions, trees, directories and bounds, on Linux and Windows.
  `ToolInv`: a record is written into a venv that was cleared before, beside the package it is about, and a kill
  takes away and never mixes. `SourceInv`: nothing happens to a directory while a command copies from it. `SetupInv`: what a
  setup put in so far is whole, and what it requires is there once it is past its own check. `OverlayInv`: the first `k - 1`
  files are those of the directory in force. `BuildInv`: outside of the copying loops the sysroot holds one build, or
  nothing; it needs that no command was killed.
  `RequiredInv`: from the end of a setup that ended well until the next setup or distclean what it requires is there.

Only model-checked:

- Everything about ending and about what must happen in the end (`EndsOnceWriterSeen`, `ConformingPasses`, `RunEnds`,
  `CaughtInTheAct`), which is liveness.
- `PassTells` of `HeapTests`: whether a megabyte fits depends on how far the heap is cut up at that point, and which
  fault is noticed on the sizes of the heap; TLC runs the suite for each allocator.
- `PassTells` of `FileTests`: which of the faults the assertions of 44 scripts notice is what each of them sees of each
  fault, which is to run them. The model is close to deterministic for a fixed fault, and TLC runs them all.

## Not modelled

- `self.c`, `attr_init_destroy.c`, `getstack.c`, `getattr.c`, `create_join.c`, misc-c, c-bindings, hello, noop:
  straight-line checks of single calls, without state that outlives a line. `ThreadSuite` leaves their calls out.
- A file put at the repository root between `exists()` and the copy (z.py:536-540), and two runs of `./z test` at once.
- The dlfcn suites, which the pinned SDK does not build (z.py:66); echo, a loop of `read()` and `write()`.
- `z.ps1`, the counterpart of `z.sh`; `ZScript`, the base class of `z.py`; the choice of the zip file on Windows, whose name
  has the configuration in it: `HostSetup` keeps to one.
- Contents of messages and socket addresses beyond what the tests compare; the static assertions of the suites.
- CI: a call of a workflow in another repository.
- Wording of messages, and which of several failing suites is named first.

## Plan

In the order of what it would show:

1. `TwoRunners`: two `./z test` over one root and one `test_out()` (z.py:537), from `TestRunner`.
2. `Loader`: scopes and reference counts of the dlfcn suites; `Streams`: echo.
3. Proofs: `PassTells` of `HeapTests` and `FileTests`, by the walls of `NetTests_proofs`, for the faults one
   call of one test notices.
