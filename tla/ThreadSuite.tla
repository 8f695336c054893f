---------------------------- MODULE ThreadSuite ----------------------------
(***************************************************************************)
(* The process of thread-c: main() of src/thread-c/main.c calls the tests  *)
(* one after the other.  Every test brings its own threads and variables;  *)
(* they share the process, which an assertion of any of them ends, and the *)
(* library.  The tests without threads and without state of their own      *)
(* (self, attr, getstack, getattr, create_join) are left out.              *)
(*                                                                         *)
(* The library is POSIX's in all parts but at most one: each part has its  *)
(* own faulty variants, described in the module of its test.               *)
(***************************************************************************)
EXTENDS Naturals, FiniteSets, Sequences

CONSTANTS
  WriterYields, ReaderYields  \* of RwlockDynamicInit

ASSUME YieldsAssumption == WriterYields \in Nat /\ ReaderYields \in Nat

VARIABLES
  at,        \* the test main() has called last
  aborted,   \* "none", or the assertion that ended the process
  status,    \* "running", "ok" once that is written, "exited" in the end
  exit_waits \* a faulty exit() that waits for the other threads

VARIABLES
  mutex_pc, mutex_kind, mutex_round, mutex_owner, mutex_initialized,
  mutex_initialized_copy,
  static_pc, static_kind, static_readers, stage, concurrency_observed,
  dynamic_pc, dynamic_kind, dynamic_writer, dynamic_readers,
  writer_inside, reader_inside, reader_started_after_writer, left,
  cond_pc, spurious, clock, cond_round, cond_owner, sleepers,
  cond_initialized, returned,
  data_pc, data_kind, store,
  nowait_pc, dead_mutex_main_thread, dead_mutex_worker_thread

Mutex == INSTANCE MutexTests WITH
  pc <- mutex_pc, kind <- mutex_kind, round <- mutex_round,
  owner <- mutex_owner, initialized <- mutex_initialized,
  initialized_copy <- mutex_initialized_copy
RwStatic == INSTANCE RwlockStaticInit WITH
  pc <- static_pc, kind <- static_kind, rw_readers <- static_readers
RwDynamic == INSTANCE RwlockDynamicInit WITH
  pc <- dynamic_pc, kind <- dynamic_kind, rw_writer <- dynamic_writer,
  rw_readers <- dynamic_readers, LockKinds <- {"exclusive", "leaky"}
Cond == INSTANCE CondTests WITH
  pc <- cond_pc, round <- cond_round, owner <- cond_owner,
  initialized <- cond_initialized
Data == INSTANCE ThreadData WITH pc <- data_pc, kind <- data_kind
Nowait == INSTANCE ThreadExit WITH pc <- nowait_pc

mutexVars == <<mutex_pc, mutex_kind, mutex_round, mutex_owner,
               mutex_initialized, mutex_initialized_copy>>
staticVars == <<static_pc, static_kind, static_readers, stage,
                concurrency_observed>>
dynamicVars == <<dynamic_pc, dynamic_kind, dynamic_writer, dynamic_readers,
                 writer_inside, reader_inside,
                 reader_started_after_writer, left>>
condVars == <<cond_pc, spurious, clock, cond_round, cond_owner, sleepers,
              cond_initialized, returned>>
dataVars == <<data_pc, data_kind, store>>
nowaitVars == <<nowait_pc, dead_mutex_main_thread, dead_mutex_worker_thread>>
suiteVars == <<at, status, exit_waits>>
vars == <<suiteVars, aborted, mutexVars, staticVars, dynamicVars, condVars,
          dataVars, nowaitVars>>

-----------------------------------------------------------------------------
\* The order of the calls in main().
Tests == <<"mutex", "rwlock_static", "rwlock_dynamic", "cond", "data", "nowait">>

\* Test x has been called: its threads run, as long as the process does.
Called(x) == /\ status # "exited"
             /\ \E i \in 1..at : Tests[i] = x

Passed(x) == CASE x = "mutex"          -> Mutex!Passed
               [] x = "rwlock_static"  -> RwStatic!Passed
               [] x = "rwlock_dynamic" -> RwDynamic!Passed
               [] x = "cond"           -> Cond!Passed
               [] x = "data"           -> Data!Passed
               [] x = "nowait"         -> Nowait!Passed

\* The parts of the library that are as POSIX says.
Conforming == {x \in {"mutex", "rwlock_static", "rwlock_dynamic", "data", "exit"} :
  CASE x = "mutex"          -> mutex_kind = "exclusive"
    [] x = "rwlock_static"  -> static_kind = "shared"
    [] x = "rwlock_dynamic" -> dynamic_kind = "exclusive"
    [] x = "data"           -> data_kind = "private"
    [] x = "exit"           -> ~exit_waits}
Faulty == {"mutex", "rwlock_static", "rwlock_dynamic", "data", "exit"} \ Conforming

\* The process begins, on a library with any of its parts faulty ...
AnyLibrary ==
  /\ Mutex!Init /\ RwStatic!Init /\ RwDynamic!Init
  /\ Cond!Init /\ Data!Init /\ Nowait!Init
  /\ exit_waits \in BOOLEAN
  /\ at = 1 /\ status = "running"

\* ... or, for the runs, with at most one.
Init == AnyLibrary /\ Cardinality(Faulty) <= 1

-----------------------------------------------------------------------------
(***************************************************************************)
(* The threads of each test.                                               *)
(***************************************************************************)
InMutex(Step) ==
  /\ Called("mutex") /\ Step
  /\ UNCHANGED <<suiteVars, staticVars, dynamicVars, condVars, dataVars, nowaitVars>>
InRwStatic(Step) ==
  /\ Called("rwlock_static") /\ Step
  /\ UNCHANGED <<suiteVars, mutexVars, dynamicVars, condVars, dataVars, nowaitVars>>
InRwDynamic(Step) ==
  /\ Called("rwlock_dynamic") /\ Step
  /\ UNCHANGED <<suiteVars, mutexVars, staticVars, condVars, dataVars, nowaitVars>>
InCond(Step) ==
  /\ Called("cond") /\ Step
  /\ UNCHANGED <<suiteVars, mutexVars, staticVars, dynamicVars, dataVars, nowaitVars>>
InData(Step) ==
  /\ Called("data") /\ Step
  /\ UNCHANGED <<suiteVars, mutexVars, staticVars, dynamicVars, condVars, nowaitVars>>
InNowait(Step) ==
  /\ Called("nowait") /\ Step
  /\ UNCHANGED <<suiteVars, mutexVars, staticVars, dynamicVars, condVars, dataVars>>

\* The call returned; main() makes the next one.
Return ==
  /\ aborted = "none" /\ status = "running"
  /\ at < Len(Tests) /\ Passed(Tests[at])
  /\ at' = at + 1
  /\ UNCHANGED <<aborted, status, exit_waits, mutexVars, staticVars,
                 dynamicVars, condVars, dataVars, nowaitVars>>

\* write(STDOUT_FILENO, "ok", 3), after the last call.
WriteOk ==
  /\ aborted = "none" /\ status = "running"
  /\ at = Len(Tests) /\ Passed(Tests[at])
  /\ status' = "ok"
  /\ UNCHANGED <<at, aborted, exit_waits, mutexVars, staticVars, dynamicVars,
                 condVars, dataVars, nowaitVars>>

\* return (0), which ends every thread of the process.
Exit ==
  /\ aborted = "none" /\ status = "ok"
  /\ exit_waits => nowait_pc["worker"] = Nowait!Exited
  /\ status' = "exited"
  /\ UNCHANGED <<at, aborted, exit_waits, mutexVars, staticVars, dynamicVars,
                 condVars, dataVars, nowaitVars>>

MutexMain       == InMutex(Mutex!MainThread)
MutexWorker(r)  == InMutex(Mutex!Worker(r))
RwStaticMain    == InRwStatic(RwStatic!Main)
RwStaticA       == InRwStatic(RwStatic!ReaderA)
RwStaticB       == InRwStatic(RwStatic!ReaderB)
RwDynamicMain   == InRwDynamic(RwDynamic!Main)
RwDynamicWriter == InRwDynamic(RwDynamic!Writer)
RwDynamicReader == InRwDynamic(RwDynamic!Reader)
CondMain        == InCond(Cond!MainThread)
CondStatic      == InCond(Cond!StaticWorker)
CondTimed       == InCond(Cond!TimedWorker)
CondWake        == InCond(\E t \in Cond!Rounds : Cond!WakeSpuriously(t))
DataMain        == InData(Data!Main)
DataWorkers     == InData(Data!Workers)
NowaitMain      == InNowait(Nowait!Main)
NowaitWorker    == InNowait(Nowait!Worker)

Stop == (status = "exited" \/ aborted # "none") /\ UNCHANGED vars

Next ==
  \/ MutexMain \/ (\E r \in Mutex!Rounds : MutexWorker(r))
  \/ RwStaticMain \/ RwStaticA \/ RwStaticB
  \/ RwDynamicMain \/ RwDynamicWriter \/ RwDynamicReader
  \/ CondMain \/ CondStatic \/ CondTimed \/ CondWake
  \/ DataMain \/ DataWorkers
  \/ NowaitMain \/ NowaitWorker
  \/ Return \/ WriteOk \/ Exit \/ Stop

Spec == Init /\ [][Next]_vars

(***************************************************************************)
(* Every thread that can run is scheduled; what is asked of the mutex is   *)
(* said in MutexTests and CondTests.                                       *)
(***************************************************************************)
FairSpec ==
  /\ Spec
  /\ WF_vars(MutexMain)
  /\ \A r \in Mutex!Rounds : /\ WF_vars(MutexWorker(r))
                             /\ SF_vars(InMutex(Mutex!WorkerLock(r)))
  /\ WF_vars(RwStaticMain) /\ WF_vars(RwStaticA) /\ WF_vars(RwStaticB)
  /\ WF_vars(RwDynamicMain) /\ WF_vars(RwDynamicWriter) /\ WF_vars(RwDynamicReader)
  /\ WF_vars(CondMain) /\ SF_vars(InCond(Cond!MainLock))
  /\ WF_vars(CondStatic) /\ SF_vars(InCond(Cond!StaticLock))
  /\ SF_vars(InCond(Cond!StaticRelock))
  /\ WF_vars(CondTimed)
  /\ WF_vars(DataMain) /\ WF_vars(DataWorkers)
  /\ WF_vars(NowaitMain) /\ WF_vars(NowaitWorker)
  /\ WF_vars(Return \/ WriteOk \/ Exit)
-----------------------------------------------------------------------------
(***************************************************************************)
(* Types of the variables.                                                 *)
(***************************************************************************)
TypeOK ==
  /\ at \in DOMAIN Tests
  /\ status \in {"running", "ok", "exited"}
  /\ exit_waits \in BOOLEAN
  /\ Mutex!TypeOK \/ aborted # "none"
  /\ RwStatic!TypeOK \/ aborted # "none"
  /\ RwDynamic!TypeOK \/ aborted # "none"
  /\ Cond!TypeOK \/ aborted # "none"
  /\ Data!TypeOK \/ aborted # "none"
  /\ Nowait!TypeOK

(***************************************************************************)
(* main() hands each test a process without threads of an earlier one,     *)
(* whatever the library does: every test has joined its workers when it    *)
(* returns.  Only the last leaves one, hence "Must be last test."          *)
(* (main.c:127).                                                           *)
(***************************************************************************)
Gone(pc, main) == \A t \in DOMAIN pc \ {main} : pc[t] \in {"unborn", "exited"}

NoThreadLeft ==
  aborted = "none" =>
    /\ at > 1 => Gone(mutex_pc, Mutex!Main)
    /\ at > 2 => Gone(static_pc, "main")
    /\ at > 3 => Gone(dynamic_pc, "main")
    /\ at > 4 => Gone(cond_pc, Cond!Main)
    /\ at > 5 => Gone(data_pc, "main")

(***************************************************************************)
(* What exit code 0 of thread-c, all the harness looks at (z.py:601), says *)
(* of the library: its mutexes exclude and time out, its readers share,    *)
(* threads do not see each other's data, exit() ends them all.  It does    *)
(* not say that readers wait for writers, or that a new thread does not    *)
(* inherit data.                                                           *)
(***************************************************************************)
PassTells ==
  status = "exited" =>
    /\ Faulty \subseteq {"rwlock_dynamic", "data"}
    /\ data_kind \in {"private", "inherited"}

(***************************************************************************)
(* What an assertion that fails says: each has one part of the library to  *)
(* blame, however the others and the scheduler behave, but for the two that*)
(* fail with any library (rwlock_dynamic_init.c:93, cond_timedwait.c:49).  *)
(* Every other assertion holds: of the mutex calls only trylock's tells an *)
(* open mutex from one that excludes, timedlock's comes too late.          *)
(***************************************************************************)
FailureTells ==
  \/ aborted \in {"none", "reader_outside"}
  \/ aborted = "timedwait" /\ spurious /\ clock = "monotonic"
  \/ aborted = "trylock" /\ mutex_kind = "open"
  \/ aborted = "locked" /\ static_kind = "limited"
  \/ aborted = "unlocked" /\ static_kind = "uncounted"
  \/ aborted = "reader_after_writer" /\ dynamic_kind = "leaky"
  \/ aborted = "key" /\ data_kind = "shared"
  \/ aborted = "thread_local_zero_init_var" /\ data_kind = "dirty"

(***************************************************************************)
(* With a library that conforms the suite ends with exit code 0, in every  *)
(* schedule, except in the three ways its tests have of failing by         *)
(* themselves: the reader enters between two reads (rwlock_dynamic_init.c: *)
(* 93), the writer's flag is up and down again before main looks (:83),    *)
(* and the timed wait wakes up spuriously (cond_timedwait.c:49).           *)
(***************************************************************************)
MissedWriter == dynamic_pc["main"] = "await_writer" /\ dynamic_pc["writer"] = "exited"

ConformingPasses ==
  Faulty = {} ~> \/ status = "exited"
                 \/ aborted = "reader_outside"
                 \/ aborted = "timedwait" /\ spurious
                 \/ MissedWriter

(***************************************************************************)
(* The properties of the single tests, in the process that runs them all;  *)
(* see their modules.                                                      *)
(***************************************************************************)
StageTellsHolders == RwStatic!StageTellsHolders
CaughtInTheAct == RwDynamic!CaughtInTheAct
WaitFollowsFlag == Cond!WaitFollowsFlag
=============================================================================
