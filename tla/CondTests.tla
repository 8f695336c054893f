----------------------------- MODULE CondTests -----------------------------
(***************************************************************************)
(* The two condition variable tests of thread-c, in the order main.c runs  *)
(* them (src/thread-c/main.c:122-123).  In cond_static_init.c a worker     *)
(* waits until main has raised a flag and signalled; in cond_timedwait.c a *)
(* worker waits for a signal that never comes until its deadline passes.   *)
(*                                                                         *)
(* The mutex excludes.  The condition variable is POSIX's: waiting gives   *)
(* the mutex back and goes to sleep in one step, and a sleeper may wake up *)
(* without a signal.                                                       *)
(***************************************************************************)
EXTENDS TestProcess, Integers, Sequences

\* CLOCK_REALTIME is the default of POSIX; it runs ahead of CLOCK_MONOTONIC.
ClockIds == {"monotonic", "realtime"}

\* One round per test, each with a worker, a mutex and a condition of its own.
Test == <<"static", "timed">>
Rounds == DOMAIN Test

Main == 0
Threads == {Main} \cup Rounds
Free == -1

VARIABLES
  spurious, clock,  \* the library of this behaviour, never change
  round,            \* the test that runs
  owner,            \* the holder of its mutex, or Free
  sleepers,         \* the threads asleep on its condition variable
  initialized,      \* the flag of cond_static_init.c
  returned          \* what pthread_cond_timedwait() returned

vars == <<pc, aborted, spurious, clock, round, owner, sleepers, initialized,
          returned>>
library == <<spurious, clock>>
allButPc == <<library, round, owner, sleepers, initialized, returned>>

MainLabels == {"create", "lock", "raise", "signal", "unlock", "join", "done"}
WorkerLabels == {Unborn, Exited, "gettime", "lock", "test", "wait", "asleep",
                 "relock", "timedwait", "check", "unlock"}

Init ==
  /\ pc = [t \in Threads |-> IF t = Main THEN "create" ELSE Unborn]
  /\ aborted = "none"
  /\ spurious \in BOOLEAN /\ clock \in ClockIds
  /\ round = 1
  /\ owner = Free
  /\ sleepers = {}
  /\ initialized = 0 /\ returned = "0"

-----------------------------------------------------------------------------
(***************************************************************************)
(* The library: the mutex and the condition variable of the current test.  *)
(***************************************************************************)
Lock(t, from, to) ==
  /\ owner = Free
  /\ Step(t, from, to)
  /\ owner' = t
  /\ UNCHANGED <<library, round, sleepers, initialized, returned>>

\* assert(pthread_mutex_unlock() == 0)
Unlock(t, from, to) ==
  /\ Assert(t, from, owner = t, "unlock", to)
  /\ owner' = IF owner = t THEN Free ELSE owner
  /\ UNCHANGED <<library, round, sleepers, initialized, returned>>

\* Give the mutex back and fall asleep.
Sleep(t, from) ==
  /\ Step(t, from, "asleep")
  /\ owner' = Free
  /\ sleepers' = sleepers \cup {t}

\* A sleeper wakes up without a signal.
WakeSpuriously(t) ==
  /\ spurious
  /\ t \in sleepers
  /\ Step(t, "asleep", "relock")
  /\ sleepers' = sleepers \ {t}
  /\ UNCHANGED <<library, round, owner, initialized, returned>>

-----------------------------------------------------------------------------
(***************************************************************************)
(* main_thread() of both tests.                                            *)
(***************************************************************************)
MainCreate ==
  /\ Create(Main, "create", round,
            IF Test[round] = "static" THEN "lock" ELSE "gettime",
            IF Test[round] = "static" THEN "lock" ELSE "join")
  /\ UNCHANGED allButPc

\* Mutant: main raises the flag without the mutex.
MainLockSkipped ==
  /\ Step(Main, "lock", "raise")
  /\ UNCHANGED allButPc

MainLock == Lock(Main, "lock", "raise")

MainRaise ==
  /\ Step(Main, "raise", "signal")
  /\ initialized' = 1
  /\ UNCHANGED <<library, round, owner, sleepers, returned>>

\* Mutant: the signalled thread stays on the list of sleepers.
MainSignalKept ==
  /\ \/ sleepers = {} /\ Step(Main, "signal", "unlock")
     \/ \E t \in sleepers :
          /\ aborted = "none" /\ pc[Main] = "signal"
          /\ pc' = [pc EXCEPT ![Main] = "unlock", ![t] = "relock"]
          /\ UNCHANGED aborted
  /\ UNCHANGED allButPc

\* Wakes one sleeper, if there is one.
MainSignal ==
  /\ \/ /\ sleepers = {}
        /\ Step(Main, "signal", "unlock")
        /\ UNCHANGED sleepers
     \/ \E t \in sleepers :
          /\ aborted = "none" /\ pc[Main] = "signal"
          /\ pc' = [pc EXCEPT ![Main] = "unlock", ![t] = "relock"]
          /\ sleepers' = sleepers \ {t}
          /\ UNCHANGED aborted
  /\ UNCHANGED <<library, round, owner, initialized, returned>>

MainUnlock == Unlock(Main, "unlock", "join")

\* Mutant: main does not wait for the worker.
MainJoinSkipped ==
  /\ Step(Main, "join", IF round = Len(Test) THEN "done" ELSE "create")
  /\ round' = round + 1
  /\ UNCHANGED <<library, owner, sleepers, initialized, returned>>

MainJoin ==
  /\ Join(Main, "join", round, IF round = Len(Test) THEN "done" ELSE "create")
  /\ round' = round + 1
  /\ UNCHANGED <<library, owner, sleepers, initialized, returned>>

MainThread ==
  /\ round \in Rounds
  /\ \/ MainCreate \/ MainLock \/ MainRaise \/ MainSignal
     \/ MainUnlock \/ MainJoin

-----------------------------------------------------------------------------
(***************************************************************************)
(* worker_thread() of cond_static_init.c, round 1.                         *)
(***************************************************************************)
StaticLock == Lock(1, "lock", "test")

\* The condition of while (!initialized).
StaticTest ==
  /\ Step(1, "test", IF initialized = 0 THEN "wait" ELSE "unlock")
  /\ UNCHANGED allButPc

StaticWait ==
  /\ Sleep(1, "wait")
  /\ UNCHANGED <<library, round, initialized, returned>>

StaticRelock == Lock(1, "relock", "test")

StaticUnlock == Unlock(1, "unlock", Exited)

StaticWorker == StaticLock \/ StaticTest \/ StaticWait \/ StaticRelock
                \/ StaticUnlock

(***************************************************************************)
(* worker_thread() of cond_timedwait.c, round 2.                           *)
(***************************************************************************)
\* clock_gettime(CLOCK_MONOTONIC, &ts); ts.tv_sec += 1
TimedGettime ==
  /\ Step(2, "gettime", "lock")
  /\ UNCHANGED allButPc

TimedLock == Lock(2, "lock", "timedwait")

(***************************************************************************)
(* pthread_cond_timedwait(): a second after the monotonic time is in the   *)
(* past on the realtime clock; the call then times out at once.            *)
(***************************************************************************)
TimedWait ==
  \/ /\ clock = "realtime"
     /\ Step(2, "timedwait", "check")
     /\ returned' = "ETIMEDOUT"
     /\ UNCHANGED <<library, round, owner, sleepers, initialized>>
  \/ /\ clock = "monotonic"
     /\ Sleep(2, "timedwait")
     /\ UNCHANGED <<library, round, initialized, returned>>

\* The deadline passes.
TimedOut ==
  /\ 2 \in sleepers
  /\ Step(2, "asleep", "relock")
  /\ sleepers' = sleepers \ {2}
  /\ returned' = "ETIMEDOUT"
  /\ UNCHANGED <<library, round, owner, initialized>>

TimedRelock == Lock(2, "relock", "check")

TimedCheck ==
  /\ Assert(2, "check", returned = "ETIMEDOUT", "timedwait", "unlock")
  /\ UNCHANGED allButPc

TimedUnlock == Unlock(2, "unlock", Exited)

TimedWorker == TimedGettime \/ TimedLock \/ TimedWait \/ TimedOut
               \/ TimedRelock \/ TimedCheck \/ TimedUnlock

-----------------------------------------------------------------------------
Passed == pc[Main] = "done"
Stop == (Passed \/ aborted # "none") /\ UNCHANGED vars

Next == \/ MainThread \/ StaticWorker \/ TimedWorker
        \/ (\E t \in Rounds : WakeSpuriously(t))
        \/ Stop

Spec == Init /\ [][Next]_vars

(***************************************************************************)
(* Every thread that can run is scheduled, a deadline passes, and a mutex  *)
(* that is free again and again is got in the end.  Nothing makes a        *)
(* sleeper wake up by itself.                                              *)
(***************************************************************************)
FairSpec == /\ Spec
            /\ WF_vars(MainThread) /\ SF_vars(MainLock)
            /\ WF_vars(StaticWorker) /\ SF_vars(StaticLock) /\ SF_vars(StaticRelock)
            /\ WF_vars(TimedWorker)
-----------------------------------------------------------------------------
(***************************************************************************)
(* Types of the variables.                                                 *)
(***************************************************************************)
TypeOK ==
  /\ pc \in [Threads -> MainLabels \cup WorkerLabels]
  /\ aborted \in {"none", "unlock", "timedwait"}
  /\ spurious \in BOOLEAN /\ clock \in ClockIds
  /\ round \in Rounds \cup {Len(Test) + 1}
  /\ owner \in Threads \cup {Free}
  /\ sleepers = {t \in Rounds : pc[t] = "asleep"}
  /\ initialized \in {0, 1}
  /\ returned \in {"0", "ETIMEDOUT"}

(***************************************************************************)
(* The worker of cond_static_init.c sleeps as long as the flag is down, no *)
(* longer and no shorter: once main has raised it and signalled (:66) the  *)
(* worker is not asleep, nor about to be, although it tests the flag (:46) *)
(* and goes to sleep (:47) in two steps; and it leaves (:49) only after    *)
(* main raised the flag, whatever woke it up.                              *)
(***************************************************************************)
WaitFollowsFlag ==
  /\ round = 1 /\ pc[Main] \in {"unlock", "join"} =>
       pc[1] \notin {"wait", "asleep"}
  /\ pc[1] \in {"unlock", Exited} => initialized = 1
=============================================================================
