----------------------------- MODULE MutexTests -----------------------------
(***************************************************************************)
(* The four mutex tests of thread-c, in the order main.c runs them         *)
(* (src/thread-c/main.c:116-119).  In the handshake tests                  *)
(* (mutex_static_init.c, mutex_dynamic_init.c) main polls a flag that a    *)
(* worker raises, both under the mutex; the dynamic test does it twice     *)
(* with the same flag.  In the contention tests (mutex_trylock.c,          *)
(* mutex_timedlock.c) main holds the mutex as long as the worker lives.    *)
(*                                                                         *)
(* A round is one call of a main_thread(); each starts a worker of its own.*)
(***************************************************************************)
EXTENDS TestProcess, Integers, Sequences

(***************************************************************************)
(* The mutex under test.  An "exclusive" one is what POSIX asks for, an    *)
(* "open" one lets everybody in, an "untimed" one excludes but its         *)
(* timedlock has no deadline.                                              *)
(***************************************************************************)
Kinds == {"exclusive", "open", "untimed"}

\* Mutant: main() leaves the contention tests out.
TestHandshakesOnly == <<"static", "dynamic", "dynamic">>

Test == <<"static", "dynamic", "dynamic", "trylock", "timedlock">>
Rounds == DOMAIN Test
Handshake == {r \in Rounds : Test[r] \in {"static", "dynamic"}}

Main == 0
Threads == {Main} \cup Rounds
Free == -1

VARIABLES
  kind,              \* the library of this behaviour, never changes
  round,             \* the main_thread() that runs
  owner,             \* test -> the thread that holds its mutex, or Free
  initialized,       \* test -> its flag
  initialized_copy   \* main's copy of the flag

vars == <<pc, aborted, kind, round, owner, initialized, initialized_copy>>
data == <<kind, round, initialized, initialized_copy>>

Tests == {Test[r] : r \in Rounds}

MainLabels == {"init", "create", "poll", "read", "unpoll", "test", "hold",
               "join", "unhold", "destroy", "done"}
WorkerLabels == {Unborn, Exited, "lock", "raise", "unlock", "try", "timed"}

\* The first statement of main_thread() in each test.
First(r) ==
  IF r \notin Rounds THEN "done"
  ELSE CASE Test[r] = "static"                   -> "create"
         [] Test[r] = "dynamic"                  -> "init"
         [] Test[r] \in {"trylock", "timedlock"} -> "hold"

Init ==
  /\ pc = [t \in Threads |-> IF t = Main THEN First(1) ELSE Unborn]
  /\ aborted = "none"
  /\ kind \in Kinds
  /\ round = 1
  /\ owner = [x \in Tests |-> Free]
  /\ initialized = [x \in Tests |-> 0]
  /\ initialized_copy = 0

-----------------------------------------------------------------------------
(***************************************************************************)
(* The mutex of test x.  An open one is never held.                        *)
(***************************************************************************)
Lock(t, x) ==
  /\ owner[x] = Free
  /\ owner' = [owner EXCEPT ![x] = IF kind = "open" THEN Free ELSE t]

\* assert(pthread_mutex_unlock() == 0): the caller must hold it.
AssertUnlock(t, from, x, to) ==
  LET held == kind = "open" \/ owner[x] = t IN
  /\ Assert(t, from, held, "unlock", to)
  /\ owner' = IF held THEN [owner EXCEPT ![x] = Free] ELSE owner

-----------------------------------------------------------------------------
(***************************************************************************)
(* main_thread() of the handshake tests.                                   *)
(***************************************************************************)
MainInit ==
  /\ Step(Main, "init", "create")
  /\ owner' = [owner EXCEPT ![Test[round]] = Free]
  /\ UNCHANGED data

MainCreate ==
  /\ Create(Main, "create", round,
            CASE round \in Handshake        -> "lock"
              [] Test[round] = "trylock"    -> "try"
              [] Test[round] = "timedlock"  -> "timed",
            IF round \in Handshake THEN "poll" ELSE "join")
  /\ UNCHANGED <<data, owner>>

MainPoll ==
  /\ Step(Main, "poll", "read")
  /\ Lock(Main, Test[round])
  /\ UNCHANGED data

MainRead ==
  /\ Step(Main, "read", "unpoll")
  /\ initialized_copy' = initialized[Test[round]]
  /\ UNCHANGED <<kind, round, owner, initialized>>

MainUnpoll ==
  /\ AssertUnlock(Main, "unpoll", Test[round], "test")
  /\ UNCHANGED data

MainTest ==
  /\ Step(Main, "test", IF initialized_copy = 1 THEN "join" ELSE "poll")
  /\ UNCHANGED <<data, owner>>

\* The round is over unless the assertion that ends it failed.
NextRound ==
  /\ round' = IF aborted' = "none" THEN round + 1 ELSE round
  /\ UNCHANGED <<kind, initialized, initialized_copy>>

MainJoin ==
  /\ \/ /\ Test[round] = "static"
        /\ Join(Main, "join", round, First(round + 1))
        /\ NextRound
     \/ /\ Test[round] = "dynamic"
        /\ Join(Main, "join", round, "destroy")
        /\ UNCHANGED data
     \/ /\ round \notin Handshake
        /\ Join(Main, "join", round, "unhold")
        /\ UNCHANGED data
  /\ UNCHANGED owner

MainDestroy ==
  /\ Assert(Main, "destroy", owner[Test[round]] = Free, "destroy",
            First(round + 1))
  /\ NextRound
  /\ UNCHANGED owner

(***************************************************************************)
(* main_thread() of the contention tests.                                  *)
(***************************************************************************)
MainHold ==
  /\ Step(Main, "hold", "create")
  /\ Lock(Main, Test[round])
  /\ UNCHANGED data

MainUnhold ==
  /\ AssertUnlock(Main, "unhold", Test[round], First(round + 1))
  /\ NextRound

MainThread ==
  /\ round \in Rounds
  /\ \/ MainInit \/ MainCreate \/ MainPoll \/ MainRead \/ MainUnpoll
     \/ MainTest \/ MainJoin \/ MainDestroy \/ MainHold \/ MainUnhold

-----------------------------------------------------------------------------
(***************************************************************************)
(* The worker of round r.                                                  *)
(***************************************************************************)
WorkerLock(r) ==
  /\ Step(r, "lock", "raise")
  /\ Lock(r, Test[r])
  /\ UNCHANGED data

\* Mutant: the worker forgets the flag.
WorkerRaiseForgotten(r) ==
  /\ Step(r, "raise", "unlock")
  /\ UNCHANGED <<data, owner>>

WorkerRaise(r) ==
  /\ Step(r, "raise", "unlock")
  /\ initialized' = [initialized EXCEPT ![Test[r]] = 1]
  /\ UNCHANGED <<kind, round, owner, initialized_copy>>

WorkerUnlock(r) ==
  /\ AssertUnlock(r, "unlock", Test[r], Exited)
  /\ UNCHANGED data

\* assert(pthread_mutex_trylock() == EBUSY)
WorkerTry(r) ==
  /\ Assert(r, "try", owner[Test[r]] # Free, "trylock", Exited)
  /\ UNCHANGED <<data, owner>>

\* assert(pthread_mutex_timedlock() == ETIMEDOUT): the deadline passes while
\* the mutex is held, or the call gets it.
WorkerTimed(r) ==
  /\ owner[Test[r]] # Free => kind # "untimed"
  /\ Assert(r, "timed", owner[Test[r]] # Free, "timedlock", Exited)
  /\ UNCHANGED <<data, owner>>

Worker(r) == WorkerLock(r) \/ WorkerRaise(r) \/ WorkerUnlock(r)
             \/ WorkerTry(r) \/ WorkerTimed(r)

-----------------------------------------------------------------------------
Passed == pc[Main] = "done"
Stop == (Passed \/ aborted # "none") /\ UNCHANGED vars

Next == MainThread \/ (\E r \in Rounds : Worker(r)) \/ Stop

Spec == Init /\ [][Next]_vars

(***************************************************************************)
(* Every thread that can run is scheduled.  A worker that keeps asking for *)
(* a mutex main keeps taking and giving back gets it in the end: main      *)
(* calls sched_yield() between two polls, and the tests count on it.       *)
(***************************************************************************)
FairSpec ==
  /\ Spec
  /\ WF_vars(MainThread)
  /\ \A r \in Rounds : WF_vars(Worker(r)) /\ SF_vars(WorkerLock(r))
-----------------------------------------------------------------------------
(***************************************************************************)
(* Types of the variables.                                                 *)
(***************************************************************************)
TypeOK ==
  /\ pc \in [Threads -> MainLabels \cup WorkerLabels]
  /\ aborted \in {"none", "unlock", "destroy", "trylock", "timedlock"}
  /\ kind \in Kinds
  /\ round \in Rounds \cup {Len(Test) + 1}
  /\ owner \in [Tests -> Threads \cup {Free}]
  /\ initialized \in [Tests -> {0, 1}] /\ initialized_copy \in {0, 1}

(***************************************************************************)
(* What leaving the polling loop says: the worker of this round has raised *)
(* the flag (mutex_static_init.c:63 and mutex_dynamic_init.c:66, "Wait for *)
(* the worker thread to complete").  In the second round of the dynamic    *)
(* test it says nothing: the flag is still up from the first.              *)
(***************************************************************************)
RaisedInRound(r) == pc[r] \in {"unlock", Exited}
LoopWaitsForWorker ==
  round \in Handshake /\ kind # "open" /\ pc[Main] = "join" =>
    RaisedInRound(round)
=============================================================================
