------------------------- MODULE ThreadSuite_proofs -------------------------
(***************************************************************************)
(* Proofs about ThreadSuite, for yield loops of every length and for any   *)
(* number of faulty parts of the library at the same time.                 *)
(*                                                                         *)
(* Each test has an invariant of its own, which holds as long as the       *)
(* process lives.  Those of the read-write locks are proved in the modules *)
(* of their tests, the others here.                                        *)
(***************************************************************************)
EXTENDS ThreadSuite, Integers, TLAPS

-----------------------------------------------------------------------------
(***************************************************************************)
(* The mutex tests.  The worker of an earlier round is gone, that of a     *)
(* later one not there yet, that of the present one lives at most between  *)
(* pthread_create() and pthread_join().                                    *)
(***************************************************************************)
MutexMainAt(labels) == mutex_pc[0] \in labels

MutexWorkers ==
  \A r \in {1, 2, 3, 4, 5} :
    /\ r < mutex_round => mutex_pc[r] = "exited"
    /\ r > mutex_round => mutex_pc[r] = "unborn"
    /\ r = mutex_round /\ MutexMainAt({"init", "hold", "create"}) =>
         mutex_pc[r] = "unborn"
    /\ r = mutex_round /\ MutexMainAt({"unhold", "destroy"}) =>
         mutex_pc[r] = "exited"
    /\ mutex_pc[r] \in {"lock", "raise", "unlock"} => r \in {1, 2, 3}
    /\ mutex_pc[r] = "try" => r = 4
    /\ mutex_pc[r] = "timed" => r = 5

MutexRounds ==
  /\ MutexMainAt(Mutex!MainLabels)
  /\ mutex_round \in {1, 2, 3, 4, 5, 6}
  /\ mutex_round = 6 <=> MutexMainAt({"done"})
  /\ MutexMainAt({"poll", "read", "unpoll", "test"}) => mutex_round \in {1, 2, 3}
  /\ MutexMainAt({"init", "destroy"}) => mutex_round \in {2, 3}
  /\ MutexMainAt({"hold", "unhold"}) => mutex_round \in {4, 5}

(***************************************************************************)
(* Who holds which mutex, told from what each thread is about to do.  An   *)
(* open one is never held.                                                 *)
(***************************************************************************)
MainHolds(x) ==
  /\ mutex_round \in {1, 2, 3, 4, 5} /\ x = Mutex!Test[mutex_round]
  /\ \/ MutexMainAt({"read", "unpoll"})
     \/ mutex_round \in {4, 5} /\ MutexMainAt({"create", "join", "unhold"})

MutexOwners ==
  IF mutex_kind = "open"
    THEN \A x \in Mutex!Tests : mutex_owner[x] = -1
    ELSE \A x \in Mutex!Tests :
           /\ mutex_owner[x] = 0 <=> MainHolds(x)
           /\ \A r \in {1, 2, 3, 4, 5} :
                mutex_owner[x] = r <=>
                  x = Mutex!Test[r] /\ mutex_pc[r] \in {"raise", "unlock"}

\* The contention tests get past no other mutex than an exclusive one.
MutexFailures ==
  /\ mutex_pc[4] = "exited" => mutex_kind # "open"
  /\ mutex_pc[5] = "exited" => mutex_kind # "untimed"
  /\ aborted # "none" => aborted = "trylock" /\ mutex_kind = "open"

MutexInv == /\ Mutex!TypeOK
            /\ MutexWorkers /\ MutexRounds /\ MutexOwners /\ MutexFailures

(***************************************************************************)
(* The table of rounds of MutexTests, written out.                         *)
(***************************************************************************)
LEMMA MutexTable ==
  /\ Mutex!Rounds = {1, 2, 3, 4, 5}
  /\ Mutex!Threads = {0, 1, 2, 3, 4, 5}
  /\ Mutex!Main = 0 /\ Mutex!Free = -1
  /\ Mutex!Test[1] = "static" /\ Mutex!Test[2] = "dynamic"
  /\ Mutex!Test[3] = "dynamic" /\ Mutex!Test[4] = "trylock"
  /\ Mutex!Test[5] = "timedlock"
  /\ Mutex!Tests = {"static", "dynamic", "trylock", "timedlock"}
  /\ Mutex!Handshake = {1, 2, 3}
<1>1. Mutex!Rounds = {1, 2, 3, 4, 5}
  BY DEF Mutex!Rounds, Mutex!Test
<1>2. /\ Mutex!Test[1] = "static" /\ Mutex!Test[2] = "dynamic"
      /\ Mutex!Test[3] = "dynamic" /\ Mutex!Test[4] = "trylock"
      /\ Mutex!Test[5] = "timedlock"
  BY DEF Mutex!Test
<1>3. Mutex!Tests = {"static", "dynamic", "trylock", "timedlock"}
  BY <1>1, <1>2 DEF Mutex!Tests
<1>4. Mutex!Handshake = {1, 2, 3}
  BY <1>1, <1>2 DEF Mutex!Handshake
<1>5. QED
  BY <1>1, <1>2, <1>3, <1>4 DEF Mutex!Threads, Mutex!Main, Mutex!Free

(***************************************************************************)
(* Where each main_thread() starts.                                        *)
(***************************************************************************)
LEMMA MutexFirst ==
  /\ Mutex!First(1) = "create" /\ Mutex!First(2) = "init"
  /\ Mutex!First(3) = "init" /\ Mutex!First(4) = "hold"
  /\ Mutex!First(5) = "hold" /\ Mutex!First(6) = "done"
<1>1. ASSUME NEW r \in {1, 2, 3, 4, 5}, Mutex!Test[r] = "static"
      PROVE  Mutex!First(r) = "create"
  BY <1>1, MutexTable DEF Mutex!First
<1>2. ASSUME NEW r \in {1, 2, 3, 4, 5}, Mutex!Test[r] = "dynamic"
      PROVE  Mutex!First(r) = "init"
  BY <1>2, MutexTable DEF Mutex!First
<1>3. ASSUME NEW r \in {1, 2, 3, 4, 5}, Mutex!Test[r] \in {"trylock", "timedlock"}
      PROVE  Mutex!First(r) = "hold"
  BY <1>3, MutexTable DEF Mutex!First
<1>4. Mutex!First(6) = "done"
  BY MutexTable DEF Mutex!First
<1>5. QED  BY <1>1, <1>2, <1>3, <1>4, MutexTable

(***************************************************************************)
(* No statement of main_thread() breaks the invariant of the mutex tests.  *)
(***************************************************************************)
LEMMA MutexMainStep ==
  ASSUME MutexInv, Mutex!MainThread
  PROVE  MutexInv'
<1> USE MutexTable DEF MutexInv, Mutex!TypeOK, MutexWorkers, MutexRounds, MutexOwners,
        MutexFailures, MutexMainAt, MainHolds, Mutex!MainLabels, Mutex!WorkerLabels,
        Mutex!Kinds, Mutex!Unborn, Mutex!Exited, Mutex!data, Mutex!Step
<1>1. CASE Mutex!MainInit
  BY <1>1 DEF Mutex!MainInit
<1>2. CASE Mutex!MainPoll \/ Mutex!MainHold
  BY <1>2 DEF Mutex!MainPoll, Mutex!MainHold, Mutex!Lock
<1>3. CASE Mutex!MainRead \/ Mutex!MainTest
  BY <1>3 DEF Mutex!MainRead, Mutex!MainTest
<1>4. CASE Mutex!MainUnpoll
  BY <1>4 DEF Mutex!MainUnpoll, Mutex!AssertUnlock, Mutex!Assert
<1>5. CASE Mutex!MainCreate
  BY <1>5 DEF Mutex!MainCreate, Mutex!Create
<1>6. CASE Mutex!MainJoin
  BY <1>6, MutexFirst DEF Mutex!MainJoin, Mutex!Join, Mutex!NextRound
<1>7. CASE Mutex!MainDestroy
  BY <1>7, MutexFirst DEF Mutex!MainDestroy, Mutex!Assert, Mutex!NextRound
<1>8. CASE Mutex!MainUnhold
  <2>1. mutex_owner[Mutex!Test[mutex_round]] = 0 \/ mutex_kind = "open"
    BY <1>8 DEF Mutex!MainUnhold, Mutex!AssertUnlock, Mutex!Assert
  <2>2. Mutex!Step(Mutex!Main, "unhold", Mutex!First(mutex_round + 1)) /\ aborted' = "none"
    BY <1>8, <2>1 DEF Mutex!MainUnhold, Mutex!AssertUnlock, Mutex!Assert
  <2>3. /\ mutex_round \in {4, 5} /\ mutex_round' = mutex_round + 1
        /\ mutex_pc' = [mutex_pc EXCEPT ![0] = IF mutex_round = 4 THEN "hold" ELSE "done"]
        /\ UNCHANGED <<mutex_kind, mutex_initialized, mutex_initialized_copy>>
    BY <1>8, <2>2, MutexFirst DEF Mutex!MainUnhold, Mutex!NextRound
  <2>4. mutex_owner' = [mutex_owner EXCEPT ![Mutex!Test[mutex_round]] = -1]
    BY <1>8, <2>1 DEF Mutex!MainUnhold, Mutex!AssertUnlock
  <2>5. Mutex!TypeOK'
    <3>1. mutex_pc' \in [Mutex!Threads -> Mutex!MainLabels \cup Mutex!WorkerLabels]
      BY <2>3
    <3>2. mutex_round' \in Mutex!Rounds \cup {Len(Mutex!Test) + 1}
      BY <2>3 DEF Mutex!Test
    <3>3. mutex_owner' \in [Mutex!Tests -> Mutex!Threads \cup {Mutex!Free}]
      BY <2>4
    <3>4. QED  BY <2>2, <2>3, <3>1, <3>2, <3>3
  <2>6. (MutexWorkers /\ MutexRounds /\ MutexFailures)'
    BY <1>8, <2>2, <2>3 DEF Mutex!MainUnhold
  <2>7. MutexOwners'
    BY <2>1, <2>2, <2>3, <2>4
  <2>8. QED  BY <2>5, <2>6, <2>7
<1>9. QED
  BY <1>1, <1>2, <1>3, <1>4, <1>5, <1>6, <1>7, <1>8 DEF Mutex!MainThread

(***************************************************************************)
(* No statement of a worker breaks it either.                              *)
(***************************************************************************)
LEMMA MutexWorkerStep ==
  ASSUME MutexInv, NEW r \in Mutex!Rounds, Mutex!Worker(r)
  PROVE  MutexInv'
<1> USE MutexTable DEF MutexInv, Mutex!TypeOK, MutexWorkers, MutexRounds, MutexOwners,
        MutexFailures, MutexMainAt, MainHolds, Mutex!MainLabels, Mutex!WorkerLabels,
        Mutex!Kinds, Mutex!Unborn, Mutex!Exited, Mutex!data, Mutex!Step, Mutex!Assert
<1>1. CASE Mutex!WorkerLock(r)
  BY <1>1 DEF Mutex!WorkerLock, Mutex!Lock
<1>2. CASE Mutex!WorkerRaise(r)
  BY <1>2 DEF Mutex!WorkerRaise
<1>3. CASE Mutex!WorkerUnlock(r)
  BY <1>3 DEF Mutex!WorkerUnlock, Mutex!AssertUnlock
<1>4. CASE Mutex!WorkerTry(r)
  BY <1>4 DEF Mutex!WorkerTry
<1>5. CASE Mutex!WorkerTimed(r)
  BY <1>5 DEF Mutex!WorkerTimed
<1>6. QED
  BY <1>1, <1>2, <1>3, <1>4, <1>5 DEF Mutex!Worker

-----------------------------------------------------------------------------
(***************************************************************************)
(* The condition variable tests.                                           *)
(***************************************************************************)
CondMainAt(labels) == cond_pc[0] \in labels

CondWorkers ==
  /\ cond_pc[0] \in Cond!MainLabels
  /\ cond_pc[1] \in {"unborn", "lock", "test", "wait", "asleep", "relock",
                     "unlock", "exited"}
  /\ cond_pc[2] \in {"unborn", "gettime", "lock", "timedwait", "asleep",
                     "relock", "check", "unlock", "exited"}
  /\ cond_round = 3 <=> CondMainAt({"done"})
  /\ CondMainAt({"lock", "raise", "signal", "unlock"}) => cond_round = 1
  /\ cond_round > 1 => cond_pc[1] = "exited"
  /\ cond_round > 2 => cond_pc[2] = "exited"
  /\ cond_round = 1 => cond_pc[2] = "unborn"
  /\ CondMainAt({"create"}) => cond_pc[cond_round] = "unborn"

\* Who holds the mutex, told from what each thread is about to do.
CondOwner ==
  /\ cond_owner = 0 <=> CondMainAt({"raise", "signal", "unlock"})
  /\ cond_owner = 1 <=> cond_pc[1] \in {"test", "wait", "unlock"}
  /\ cond_owner = 2 <=> cond_pc[2] \in {"timedwait", "check", "unlock"}

(***************************************************************************)
(* The flag, and what the first worker knows of it: at "wait" it is still  *)
(* down, since main could not take the mutex after the test; asleep it has *)
(* a signal to come, or to be given with the mutex still held.             *)
(***************************************************************************)
CondFlag ==
  /\ cond_initialized = 0 <=>
       cond_round = 1 /\ CondMainAt({"create", "lock", "raise"})
  /\ cond_pc[1] = "wait" => cond_initialized = 0
  /\ cond_pc[1] \in {"unlock", "exited"} => cond_initialized = 1
  /\ cond_pc[1] = "asleep" =>
       cond_round = 1 /\ CondMainAt({"create", "lock", "raise", "signal"})

\* The timed wait ends early only if it is woken up without a signal.
WokenUp == spurious /\ clock = "monotonic"

CondFailures ==
  /\ cond_pc[2] \in {"asleep", "relock"} => clock = "monotonic"
  /\ cond_pc[2] \in {"relock", "check"} => returned = "ETIMEDOUT" \/ WokenUp
  /\ aborted # "none" => aborted = "timedwait" /\ WokenUp

CondInv == Cond!TypeOK /\ CondWorkers /\ CondOwner /\ CondFlag /\ CondFailures

(***************************************************************************)
(* The table of rounds of CondTests, written out.                          *)
(***************************************************************************)
LEMMA CondTable ==
  /\ Cond!Rounds = {1, 2} /\ Cond!Threads = {0, 1, 2}
  /\ Cond!Main = 0 /\ Cond!Free = -1
  /\ Cond!Test[1] = "static" /\ Cond!Test[2] = "timed" /\ Len(Cond!Test) = 2
<1>1. Cond!Rounds = {1, 2}
  BY DEF Cond!Rounds, Cond!Test
<1>2. QED
  BY <1>1 DEF Cond!Threads, Cond!Main, Cond!Free, Cond!Test

(***************************************************************************)
(* No statement of main_thread() breaks the invariant of these tests.      *)
(***************************************************************************)
LEMMA CondMainStep ==
  ASSUME CondInv, Cond!MainThread
  PROVE  CondInv'
<1> USE CondTable DEF CondInv, Cond!TypeOK, CondWorkers, CondOwner, CondFlag, CondFailures,
        CondMainAt, WokenUp, Cond!MainLabels, Cond!WorkerLabels, Cond!ClockIds, Cond!Unborn,
        Cond!Exited, Cond!library, Cond!allButPc, Cond!Step
<1>1. CASE Cond!MainCreate
  BY <1>1 DEF Cond!MainCreate, Cond!Create
<1>2. CASE Cond!MainLock
  BY <1>2 DEF Cond!MainLock, Cond!Lock
<1>3. CASE Cond!MainRaise
  BY <1>3 DEF Cond!MainRaise
<1>4. CASE Cond!MainSignal
  BY <1>4 DEF Cond!MainSignal
<1>5. CASE Cond!MainUnlock
  BY <1>5 DEF Cond!MainUnlock, Cond!Unlock, Cond!Assert
<1>6. CASE Cond!MainJoin
  BY <1>6 DEF Cond!MainJoin, Cond!Join
<1>7. QED
  BY <1>1, <1>2, <1>3, <1>4, <1>5, <1>6 DEF Cond!MainThread

(***************************************************************************)
(* Nor does a worker, or a wake-up without a signal.                       *)
(***************************************************************************)
LEMMA CondWorkerStep ==
  ASSUME CondInv,
         \/ Cond!StaticWorker \/ Cond!TimedWorker
         \/ \E t \in Cond!Rounds : Cond!WakeSpuriously(t)
  PROVE  CondInv'
<1> USE CondTable DEF CondInv, Cond!TypeOK, CondWorkers, CondOwner, CondFlag, CondFailures,
        CondMainAt, WokenUp, Cond!MainLabels, Cond!WorkerLabels, Cond!ClockIds, Cond!Unborn,
        Cond!Exited, Cond!library, Cond!allButPc, Cond!Step
<1>1. CASE Cond!StaticLock
  BY <1>1 DEF Cond!StaticLock, Cond!Lock
<1>2. CASE Cond!StaticTest
  BY <1>2 DEF Cond!StaticTest
<1>3. CASE Cond!StaticWait
  BY <1>3 DEF Cond!StaticWait, Cond!Sleep
<1>4. CASE Cond!StaticUnlock
  BY <1>4 DEF Cond!StaticUnlock, Cond!Unlock, Cond!Assert
<1>5. CASE Cond!TimedGettime
  BY <1>5 DEF Cond!TimedGettime
<1>6. CASE Cond!TimedLock
  BY <1>6 DEF Cond!TimedLock, Cond!Lock
<1>7. CASE Cond!TimedWait
  BY <1>7 DEF Cond!TimedWait, Cond!Sleep
<1>8. CASE Cond!TimedOut
  BY <1>8 DEF Cond!TimedOut
<1>9. CASE Cond!TimedCheck
  BY <1>9 DEF Cond!TimedCheck, Cond!Assert
<1>10. CASE Cond!TimedUnlock
  BY <1>10 DEF Cond!TimedUnlock, Cond!Unlock, Cond!Assert
<1>11. ASSUME NEW t \in Cond!Rounds, Cond!WakeSpuriously(t)
       PROVE  CondInv'
  BY <1>11 DEF Cond!WakeSpuriously
<1>12. CASE Cond!StaticRelock
  BY <1>12 DEF Cond!StaticRelock, Cond!Lock
<1>13. CASE Cond!TimedRelock
  BY <1>13 DEF Cond!TimedRelock, Cond!Lock
<1>14. QED
  BY <1>1, <1>2, <1>3, <1>4, <1>5, <1>6, <1>7, <1>8, <1>9, <1>10, <1>11, <1>12, <1>13
     DEF Cond!StaticWorker, Cond!TimedWorker

-----------------------------------------------------------------------------
(***************************************************************************)
(* The tests of per-thread data: who is there at which label of main.      *)
(***************************************************************************)
DataMainAt(labels) == data_pc["main"] \in labels

DataWorkersInv ==
  /\ DataMainAt({"set_key", "get_key", "create_key", "join_key", "check_key", "zero",
                 "set_var", "get_var", "create_var", "join_var", "check_var", "done"})
  /\ data_pc["key_worker"] \in {"unborn", "exited", "set_key", "get_key"}
  /\ data_pc["local_worker"] \in {"unborn", "exited", "zero", "set_var", "get_var"}
  /\ DataMainAt({"set_key", "get_key", "create_key"}) => data_pc["key_worker"] = "unborn"
  /\ data_pc["key_worker"] # "exited" =>
       DataMainAt({"set_key", "get_key", "create_key", "join_key"})
  /\ data_pc["local_worker"] # "unborn" => DataMainAt({"join_var", "check_var", "done"})
  /\ DataMainAt({"check_var", "done"}) => data_pc["local_worker"] = "exited"

(***************************************************************************)
(* Where the places of a name are apart, each thread finds what it stored. *)
(* Where they are one, main finds the worker's value and gets no further;  *)
(* where a new thread's place is not cleared, the second worker does not.  *)
(***************************************************************************)
DataApart ==
  data_kind # "shared" =>
    /\ data_pc["main"] # "set_key" => store["key"]["main"] = "main"
    /\ data_pc["key_worker"] = "get_key" => store["key"]["key_worker"] = "worker"
    /\ DataMainAt({"get_var", "create_var", "join_var", "check_var"}) =>
         store["thread_local_var"]["main"] = "main"
    /\ data_pc["local_worker"] = "get_var" =>
         store["thread_local_var"]["local_worker"] = "worker"

DataShared ==
  data_kind = "shared" =>
    /\ DataMainAt({"set_key", "get_key", "create_key", "join_key", "check_key"})
    /\ DataMainAt({"get_key", "create_key"}) => store["key"]["main"] = "main"
    /\ data_pc["key_worker"] \in {"get_key", "exited"} => store["key"]["main"] = "worker"

DataFresh ==
  /\ store["thread_local_zero_init_var"]["main"] = "zero"
  /\ data_pc["local_worker"] = "zero" =>
       store["thread_local_zero_init_var"]["local_worker"] =
         IF data_kind = "dirty" THEN "garbage" ELSE "zero"
  /\ data_kind = "dirty" => data_pc["local_worker"] \in {"unborn", "zero"}

DataFailures ==
  \/ aborted = "none"
  \/ aborted = "key" /\ data_kind = "shared"
  \/ aborted = "thread_local_zero_init_var" /\ data_kind = "dirty"

DataInv == /\ Data!TypeOK /\ DataWorkersInv
           /\ DataApart /\ DataShared /\ DataFresh /\ DataFailures

(***************************************************************************)
(* What a place holds after a thread stored a value: nothing else changes. *)
(***************************************************************************)
LEMMA DataSet ==
  ASSUME DataInv, NEW t \in Data!Threads, NEW from, NEW name \in Data!Names,
         NEW value \in Data!Values, NEW to \in Data!Labels,
         Data!Set(t, from, name, value, to)
  PROVE  /\ Data!TypeOK'
         /\ \A x \in Data!Names, u \in Data!Threads :
              store'[x][u] = IF x = name /\ u = Data!Place(t) THEN value ELSE store[x][u]
<1> USE DEF DataInv, Data!TypeOK, Data!Set, Data!Step, Data!Place, Data!Threads
<1>1. Data!Place(t) \in Data!Threads
  OBVIOUS
<1>2. \A x \in Data!Names, u \in Data!Threads :
        store'[x][u] = IF x = name /\ u = Data!Place(t) THEN value ELSE store[x][u]
  BY <1>1
<1>3. store' \in [Data!Names -> [Data!Threads -> Data!Values]]
  BY <1>1
<1>4. QED  BY <1>2, <1>3

(***************************************************************************)
(* What a new thread finds: its own places are filled, no other changes.   *)
(***************************************************************************)
LEMMA DataBorn ==
  ASSUME DataInv, NEW from, NEW child \in Data!Threads, child # "main",
         NEW first \in Data!Labels, NEW to \in Data!Labels,
         Data!Born(from, child, first, to)
  PROVE  /\ Data!TypeOK'
         /\ \A x \in Data!Names, u \in Data!Threads :
              store'[x][u] = IF u = child THEN Data!Found(x) ELSE store[x][u]
<1> USE DEF DataInv, Data!TypeOK, Data!Born, Data!Create
<1>1. ASSUME NEW x \in Data!Names
      PROVE  Data!Found(x) \in Data!Values
  <2>1. CASE data_kind = "dirty"
    BY <2>1 DEF Data!Found, Data!Values
  <2>2. CASE data_kind = "inherited"
    BY <2>2 DEF Data!Found, Data!Threads
  <2>3. CASE data_kind \in {"private", "shared"}
    BY <2>3 DEF Data!Found, Data!Values
  <2>4. QED  BY <2>1, <2>2, <2>3 DEF Data!Kinds
<1>2. \A x \in Data!Names, u \in Data!Threads :
        store'[x][u] = IF u = child THEN Data!Found(x) ELSE store[x][u]
  OBVIOUS
<1>3. store' \in [Data!Names -> [Data!Threads -> Data!Values]]
  BY <1>1
<1>4. data_pc' \in [Data!Threads -> Data!Labels]
  BY DEF Data!Threads
<1>5. QED  BY <1>2, <1>3, <1>4

(***************************************************************************)
(* No statement of main or of a worker breaks the invariant.               *)
(***************************************************************************)
LEMMA DataStep ==
  ASSUME DataInv, Data!Main \/ Data!Workers
  PROVE  DataInv'
<1> DEFINE Var  == "thread_local_var"
           Zero == "thread_local_zero_init_var"
<1>t. /\ Data!Threads = {"main", "key_worker", "local_worker"}
      /\ Data!Names = {"key", Var, Zero}
      /\ {"zero", "main", "worker", "garbage"} = Data!Values
      /\ \A l \in {"unborn", "exited", "set_key", "get_key", "create_key", "join_key",
                   "check_key", "zero", "set_var", "get_var", "create_var", "join_var",
                   "check_var", "done"} : l \in Data!Labels
  BY DEF Data!Threads, Data!Names, Data!Values, Data!Labels, Data!Unborn, Data!Exited
<1> USE <1>t DEF DataInv, DataWorkersInv, DataApart, DataShared, DataFresh, DataFailures,
        DataMainAt, Data!Unborn, Data!Exited, Data!Step, Data!Place
<1>1. CASE Data!Set("main", "set_key", "key", "main", "get_key")
  BY <1>1, DataSet DEF Data!Set, Data!TypeOK
<1>2. CASE Data!Set("key_worker", "set_key", "key", "worker", "get_key")
  BY <1>2, DataSet DEF Data!Set, Data!TypeOK
<1>3. CASE Data!Set("main", "set_var", Var, "main", "get_var")
  BY <1>3, DataSet DEF Data!Set, Data!TypeOK
<1>4. CASE Data!Set("local_worker", "set_var", Var, "worker", "get_var")
  BY <1>4, DataSet DEF Data!Set, Data!TypeOK
<1>5. CASE Data!Born("create_key", "key_worker", "set_key", "join_key")
  BY <1>5, DataBorn DEF Data!Born, Data!Create, Data!TypeOK
<1>6. CASE Data!Born("create_var", "local_worker", "zero", "join_var")
  BY <1>6, DataBorn DEF Data!Born, Data!Create, Data!TypeOK, Data!Found, Data!Kinds
<1>7. CASE Data!Gone("join_key", "key_worker", "check_key")
  BY <1>7 DEF Data!Gone, Data!Join, Data!TypeOK
<1>8. CASE Data!Gone("join_var", "local_worker", "check_var")
  BY <1>8 DEF Data!Gone, Data!Join, Data!TypeOK
<1>9. CASE \/ Data!Check("main", "get_key", "key", "main", "create_key")
           \/ Data!Check("main", "check_key", "key", "main", "zero")
           \/ Data!Check("key_worker", "get_key", "key", "worker", Data!Exited)
  BY <1>9 DEF Data!Check, Data!Assert, Data!TypeOK
<1>10. CASE \/ Data!Check("main", "get_var", Var, "main", "create_var")
            \/ Data!Check("main", "check_var", Var, "main", "done")
            \/ Data!Check("local_worker", "get_var", Var, "worker", Data!Exited)
  BY <1>10 DEF Data!Check, Data!Assert, Data!TypeOK
<1>11. CASE \/ Data!Check("main", "zero", Zero, "zero", "set_var")
            \/ Data!Check("local_worker", "zero", Zero, "zero", "set_var")
  BY <1>11 DEF Data!Check, Data!Assert, Data!TypeOK
<1>12. QED
  BY <1>1, <1>2, <1>3, <1>4, <1>5, <1>6, <1>7, <1>8, <1>9, <1>10, <1>11
     DEF Data!Main, Data!KeyMain, Data!LocalMain, Data!Workers, Data!KeyWorker,
         Data!LocalWorker

-----------------------------------------------------------------------------
(***************************************************************************)
(* The test of statically initialised read-write locks: where its two      *)
(* readers are.                                                            *)
(***************************************************************************)
pc_a == static_pc["reader_a"]
pc_b == static_pc["reader_b"]

(***************************************************************************)
(* The stage follows from where the readers are, whatever the lock does:   *)
(* although two threads write it without a lock, each writes only in turn. *)
(***************************************************************************)
StaticStageInv ==
  /\ pc_a \in {RwStatic!Unborn, "acquire", "announce", "await_b", "yield_b", "release",
               "announce_exit", RwStatic!Exited}
  /\ pc_b \in {RwStatic!Unborn, "await_a", "yield_a", "acquire", "look", "announce",
               "await_exit", "yield_exit", "release", "announce_exit", RwStatic!Exited}
  /\ pc_a \in {RwStatic!Unborn, "acquire", "announce"} => stage = 0
  /\ pc_a \in {"await_b", "yield_b"} => stage \in {1, 2}
  /\ pc_a \in {"release", "announce_exit"} => stage = 2
  /\ pc_a = RwStatic!Exited => stage \in {3, 4}
  /\ pc_b \in {RwStatic!Unborn, "await_a", "yield_a"} => stage \in {0, 1}
  /\ pc_b \in {"acquire", "look", "announce"} => stage = 1
  /\ pc_b \in {"await_exit", "yield_exit"} => stage \in {2, 3}
  /\ pc_b \in {"release", "announce_exit"} => stage = 3
  /\ pc_b = RwStatic!Exited => stage = 4

(***************************************************************************)
(* Who holds a lock that counts its readers, and how far reader B gets     *)
(* with the others: it is not let in beside A, or finds the lock free when *)
(* it comes to unlock it.                                                  *)
(***************************************************************************)
StaticHolderInv ==
  /\ static_readers \subseteq {"reader_a", "reader_b"}
  /\ static_kind = "shared" =>
       /\ "reader_a" \in static_readers <=>
            pc_a \in {"announce", "await_b", "yield_b", "release"}
       /\ "reader_b" \in static_readers <=>
            pc_b \in {"look", "announce", "await_exit", "yield_exit", "release"}
  /\ static_kind \in {"exclusive", "limited"} =>
       /\ pc_a \in {"announce", "await_b", "yield_b"} => "reader_a" \in static_readers
       /\ pc_b \in {RwStatic!Unborn, "await_a", "yield_a", "acquire"}
  /\ static_kind = "uncounted" =>
       /\ pc_a \in {"announce_exit", RwStatic!Exited} => static_readers = {}
       /\ pc_b \notin {"announce_exit", RwStatic!Exited}

(***************************************************************************)
(* What main finds once it joined the readers, and the assertions that can *)
(* fail.                                                                   *)
(***************************************************************************)
StaticFailures ==
  \/ aborted = "none"
  \/ aborted = "locked" /\ static_kind = "limited"
  \/ aborted = "unlocked" /\ static_kind = "uncounted"

StaticMainInv ==
  /\ static_pc["main"] \in {"check_stage", "check_concurrency", "done"} =>
       pc_b = RwStatic!Exited
  /\ pc_b \in {"announce", "await_exit", "yield_exit", "release", "announce_exit",
               RwStatic!Exited} =>
       concurrency_observed = 1
  /\ StaticFailures

StaticInv == RwStatic!TypeOK /\ StaticStageInv /\ StaticHolderInv /\ StaticMainInv
-----------------------------------------------------------------------------
(***************************************************************************)
(* Types.                                                                  *)
(***************************************************************************)
LEMMA StaticNextType ==
  ASSUME RwStatic!TypeOK, [RwStatic!Next]_(RwStatic!vars)
  PROVE  RwStatic!TypeOK'
<1> DEFINE Labels == RwStatic!MainLabels \cup RwStatic!ReaderLabels
<1>1. ASSUME NEW t \in RwStatic!Threads, NEW from, NEW to \in Labels,
             RwStatic!Step(t, from, to)
      PROVE  static_pc' \in [RwStatic!Threads -> Labels] /\ UNCHANGED aborted
  BY <1>1 DEF RwStatic!Step, RwStatic!TypeOK
<1>2. ASSUME NEW t \in RwStatic!Threads, NEW from, NEW ok, NEW name, NEW to \in Labels,
             RwStatic!Assert(t, from, ok, name, to)
      PROVE  static_pc' \in [RwStatic!Threads -> Labels] /\ aborted' \in {aborted, name}
  BY <1>1, <1>2 DEF RwStatic!Assert, RwStatic!TypeOK
<1>3. RwStatic!Threads = {"main", "reader_a", "reader_b"}
  BY DEF RwStatic!Threads
<1>4. {RwStatic!Unborn, RwStatic!Exited, "create_b", "join_a", "join_b",
       "check_stage", "check_concurrency", "done", "await_a", "yield_a", "acquire",
       "announce", "look", "await_b", "yield_b", "await_exit", "yield_exit", "release",
       "announce_exit"} \subseteq Labels
  BY DEF RwStatic!MainLabels, RwStatic!ReaderLabels
<1>5. \A l : l \in {"create_b", "join_a", "acquire", "await_a"} => l \in Labels
  BY <1>4
<1> HIDE DEF Labels
<1>6. CASE RwStatic!Main
  <2>1. static_pc' \in [RwStatic!Threads -> Labels]
    <3>1. CASE RwStatic!MainCreateA
      BY <1>3, <1>5, <3>1 DEF RwStatic!MainCreateA, RwStatic!Create, RwStatic!TypeOK,
                                 Labels
    <3>2. CASE RwStatic!MainCreateB
      BY <1>3, <1>5, <3>2 DEF RwStatic!MainCreateB, RwStatic!Create, RwStatic!TypeOK,
                                 Labels
    <3>3. CASE RwStatic!MainJoinA \/ RwStatic!MainJoinB
      BY <1>1, <1>3, <1>4, <3>3
         DEF RwStatic!MainJoinA, RwStatic!MainJoinB, RwStatic!Join
    <3>4. CASE RwStatic!MainCheckStage \/ RwStatic!MainCheckConcurrency
      BY <1>2, <1>3, <1>4, <3>4
         DEF RwStatic!MainCheckStage, RwStatic!MainCheckConcurrency
    <3>5. QED  BY <1>6, <3>1, <3>2, <3>3, <3>4 DEF RwStatic!Main
  <2>2. aborted' \in {aborted, "stage", "concurrency"} /\ RwStatic!Quiet
    BY <1>6 DEF RwStatic!Main, RwStatic!MainCreateA, RwStatic!MainCreateB,
       RwStatic!MainJoinA, RwStatic!MainJoinB, RwStatic!MainCheckStage,
       RwStatic!MainCheckConcurrency, RwStatic!Create, RwStatic!Join, RwStatic!Step,
       RwStatic!Assert
  <2>3. QED  BY <2>1, <2>2 DEF RwStatic!TypeOK, RwStatic!Quiet, Labels
<1>7. ASSUME NEW t \in RwStatic!Threads, NEW to \in Labels, RwStatic!Acquire(t, to)
      PROVE  RwStatic!TypeOK'
  BY <1>2, <1>7 DEF RwStatic!Acquire, RwStatic!TypeOK, Labels
<1>8. ASSUME NEW t \in RwStatic!Threads, RwStatic!Release(t)  PROVE RwStatic!TypeOK'
  BY <1>2, <1>4, <1>8 DEF RwStatic!Release, RwStatic!TypeOK, Labels
<1>9. ASSUME NEW t \in RwStatic!Threads, NEW n, NEW from \in Labels,
             NEW yield \in Labels, NEW to \in Labels,
             RwStatic!AwaitStage(t, n, from, yield, to)
      PROVE  RwStatic!TypeOK'
  BY <1>1, <1>9 DEF RwStatic!AwaitStage, RwStatic!TypeOK, Labels
<1>10. ASSUME NEW t \in RwStatic!Threads, NEW n \in {1, 2, 3, 4}, NEW from,
              NEW to \in Labels, RwStatic!SetStage(t, n, from, to)
       PROVE  RwStatic!TypeOK'
  BY <1>1, <1>10 DEF RwStatic!SetStage, RwStatic!TypeOK, Labels
<1>11. CASE RwStatic!BLook
  BY <1>1, <1>3, <1>4, <1>11 DEF RwStatic!BLook, RwStatic!TypeOK, Labels
<1>12. CASE RwStatic!ReaderA
  BY <1>3, <1>4, <1>7, <1>8, <1>9, <1>10, <1>12
     DEF RwStatic!ReaderA, RwStatic!AAcquire, RwStatic!AAnnounce, RwStatic!AAwaitB,
         RwStatic!ARelease, RwStatic!AExit
<1>13. CASE RwStatic!ReaderB
  BY <1>3, <1>4, <1>7, <1>8, <1>9, <1>10, <1>11, <1>13
     DEF RwStatic!ReaderB, RwStatic!BAwaitA, RwStatic!BAcquire, RwStatic!BAnnounce,
         RwStatic!BAwaitExit, RwStatic!BRelease, RwStatic!BExit
<1>14. CASE UNCHANGED RwStatic!vars
  BY <1>14 DEF RwStatic!TypeOK, RwStatic!vars
<1>15. QED  BY <1>6, <1>12, <1>13, <1>14 DEF RwStatic!Next, RwStatic!Stop

(***************************************************************************)
(* A step of main, and the steps of the two readers.                       *)
(***************************************************************************)
LEMMA StaticNextMain ==
  ASSUME RwStatic!TypeOK, StaticStageInv, StaticHolderInv, StaticMainInv, RwStatic!Main
  PROVE  StaticStageInv' /\ StaticHolderInv' /\ StaticMainInv'
<1> USE DEF pc_a, pc_b, StaticStageInv, StaticHolderInv, StaticMainInv,
        StaticFailures, RwStatic!TypeOK, RwStatic!Step, RwStatic!Assert,
        RwStatic!Create, RwStatic!Join, RwStatic!Quiet,
        RwStatic!Threads, RwStatic!Unborn, RwStatic!Exited
<1>1. CASE RwStatic!MainCreateA
  BY <1>1 DEF RwStatic!MainCreateA
<1>2. CASE RwStatic!MainCreateB
  BY <1>2 DEF RwStatic!MainCreateB
<1>3. CASE RwStatic!MainJoinA \/ RwStatic!MainJoinB
  BY <1>3 DEF RwStatic!MainJoinA, RwStatic!MainJoinB
<1>4. CASE RwStatic!MainCheckStage \/ RwStatic!MainCheckConcurrency
  BY <1>4 DEF RwStatic!MainCheckStage, RwStatic!MainCheckConcurrency
<1>5. QED  BY <1>1, <1>2, <1>3, <1>4 DEF RwStatic!Main

LEMMA StaticNextA ==
  ASSUME RwStatic!TypeOK, StaticStageInv, StaticHolderInv, StaticMainInv,
         RwStatic!ReaderA
  PROVE  StaticStageInv' /\ StaticHolderInv' /\ StaticMainInv'
<1> USE DEF pc_a, pc_b, StaticStageInv, StaticHolderInv, StaticMainInv,
        StaticFailures, RwStatic!TypeOK, RwStatic!Step, RwStatic!Assert,
        RwStatic!Threads, RwStatic!Kinds, RwStatic!Unborn, RwStatic!Exited
<1>1. CASE RwStatic!AAcquire
  BY <1>1 DEF RwStatic!AAcquire, RwStatic!Acquire
<1>2. CASE RwStatic!AAnnounce
  BY <1>2 DEF RwStatic!AAnnounce, RwStatic!SetStage
<1>3. CASE RwStatic!AAwaitB
  BY <1>3 DEF RwStatic!AAwaitB, RwStatic!AwaitStage
<1>4. CASE RwStatic!ARelease
  BY <1>4 DEF RwStatic!ARelease, RwStatic!Release
<1>5. CASE RwStatic!AExit
  BY <1>5 DEF RwStatic!AExit, RwStatic!SetStage
<1>6. QED  BY <1>1, <1>2, <1>3, <1>4, <1>5 DEF RwStatic!ReaderA

LEMMA StaticNextB ==
  ASSUME RwStatic!TypeOK, StaticStageInv, StaticHolderInv, StaticMainInv,
         RwStatic!ReaderB
  PROVE  StaticStageInv' /\ StaticHolderInv' /\ StaticMainInv'
<1> USE DEF pc_a, pc_b, StaticStageInv, StaticHolderInv, StaticMainInv,
        StaticFailures, RwStatic!TypeOK, RwStatic!Step, RwStatic!Assert,
        RwStatic!Threads, RwStatic!Kinds, RwStatic!Unborn, RwStatic!Exited
<1>1. CASE RwStatic!BAwaitA
  BY <1>1 DEF RwStatic!BAwaitA, RwStatic!AwaitStage
<1>2. CASE RwStatic!BAcquire
  BY <1>2 DEF RwStatic!BAcquire, RwStatic!Acquire
<1>3. CASE RwStatic!BLook
  BY <1>3 DEF RwStatic!BLook
<1>4. CASE RwStatic!BAnnounce
  BY <1>4 DEF RwStatic!BAnnounce, RwStatic!SetStage
<1>5. CASE RwStatic!BAwaitExit
  BY <1>5 DEF RwStatic!BAwaitExit, RwStatic!AwaitStage
<1>6. CASE RwStatic!BRelease
  BY <1>6 DEF RwStatic!BRelease, RwStatic!Release
<1>7. CASE RwStatic!BExit
  BY <1>7 DEF RwStatic!BExit, RwStatic!SetStage
<1>8. QED  BY <1>1, <1>2, <1>3, <1>4, <1>5, <1>6, <1>7 DEF RwStatic!ReaderB

(***************************************************************************)
(* No statement of the three threads breaks the conjunction.               *)
(***************************************************************************)
LEMMA StaticNextInv ==
  ASSUME StaticInv, [RwStatic!Next]_(RwStatic!vars)
  PROVE  StaticInv'
<1>1. RwStatic!TypeOK'
  BY StaticNextType DEF StaticInv
<1>2. CASE RwStatic!Main
  BY <1>1, <1>2, StaticNextMain DEF StaticInv
<1>3. CASE RwStatic!ReaderA
  BY <1>1, <1>3, StaticNextA DEF StaticInv
<1>4. CASE RwStatic!ReaderB
  BY <1>1, <1>4, StaticNextB DEF StaticInv
<1>5. CASE UNCHANGED RwStatic!vars
  BY <1>5 DEF StaticInv, RwStatic!TypeOK, StaticStageInv, StaticHolderInv,
              StaticMainInv, StaticFailures, pc_a, pc_b, RwStatic!vars
<1>6. QED  BY <1>2, <1>3, <1>4, <1>5 DEF RwStatic!Next, RwStatic!Stop

(***************************************************************************)
(* The conjunction holds in every process that has not begun the test.     *)
(***************************************************************************)
LEMMA StaticInitInv == RwStatic!Init => StaticInv
<1>1. QED
  BY DEF RwStatic!Init, StaticInv, RwStatic!TypeOK, StaticStageInv, StaticHolderInv,
         StaticMainInv, StaticFailures, pc_a, pc_b, RwStatic!Threads,
         RwStatic!MainLabels, RwStatic!ReaderLabels, RwStatic!Unborn, RwStatic!Exited

(***************************************************************************)
(* The conjunction is inductive.                                           *)
(***************************************************************************)
LEMMA StaticInvariant == RwStatic!Spec => []StaticInv
<1>1. QED  BY StaticInitInv, StaticNextInv, PTL DEF RwStatic!Spec

(***************************************************************************)
(* What the conjunction says about the stages, a failed assertion and the  *)
(* end of the test.                                                        *)
(***************************************************************************)
LEMMA StaticConsequences ==
  ASSUME StaticInv
  PROVE  /\ RwStatic!StageTellsHolders
         /\ RwStatic!Passed =>
              static_kind = "shared" /\ pc_a = RwStatic!Exited /\ pc_b = RwStatic!Exited
         /\ StaticFailures
<1> USE DEF StaticInv, StaticStageInv, StaticHolderInv, StaticMainInv,
        RwStatic!Unborn, RwStatic!Exited
<1>1. static_kind = "shared" =>
        /\ stage = 1 => "reader_a" \in static_readers
        /\ pc_b = "announce" => {"reader_a", "reader_b"} \subseteq static_readers
        /\ stage = 2 => "reader_b" \in static_readers
        /\ stage = 3 => "reader_a" \notin static_readers
        /\ stage = 4 => {"reader_a", "reader_b"} \cap static_readers = {}
  OBVIOUS
<1>2. RwStatic!StageTellsHolders
  BY <1>1 DEF RwStatic!StageTellsHolders, pc_b
<1>3. RwStatic!Passed =>
        static_kind = "shared" /\ pc_a = RwStatic!Exited /\ pc_b = RwStatic!Exited
  BY DEF RwStatic!Passed, RwStatic!TypeOK, RwStatic!Kinds
<1>4. QED  BY <1>2, <1>3

(***************************************************************************)
(* The table of stages (rwlock_static_init.c:25-30) tells who holds a lock *)
(* that counts its readers, in every schedule.                             *)
(***************************************************************************)
THEOREM StagesTell == RwStatic!Spec => []RwStatic!StageTellsHolders
<1>1. QED  BY StaticInvariant, StaticConsequences, PTL

(***************************************************************************)
(* No schedule makes the test fail on a lock that counts its readers: none *)
(* of its assertions (rwlock_static_init.c:42, :48, :60, :70, :88, :89) can*)
(* go off.  On the others only those of the two lock calls do: rdlock's    *)
(* when the lock turns a reader away, unlock's when it is free too early.  *)
(***************************************************************************)
THEOREM SharedNeverFails ==
  RwStatic!Spec => [](StaticFailures /\ (static_kind = "shared" => aborted = "none"))
<1>1. StaticInv => StaticFailures /\ (static_kind = "shared" => aborted = "none")
  BY DEF StaticInv, StaticMainInv, StaticFailures
<1>2. QED  BY <1>1, StaticInvariant, PTL

(***************************************************************************)
(* The test passes on no other lock: with one that keeps readers apart, one*)
(* that turns the second away, or one that is free as soon as the first    *)
(* reader left, main never comes to its end.                               *)
(***************************************************************************)
THEOREM PassMeansShared ==
  RwStatic!Spec => [](RwStatic!Passed => static_kind = "shared")
<1>1. QED  BY StaticInvariant, StaticConsequences, PTL
-----------------------------------------------------------------------------
(***************************************************************************)
(* The test of the other ones: the invariant of its own module.            *)
(***************************************************************************)
DynamicProofs == INSTANCE RwlockDynamicInit_proofs WITH
  pc <- dynamic_pc, kind <- dynamic_kind, rw_writer <- dynamic_writer,
  rw_readers <- dynamic_readers, LockKinds <- {"exclusive", "leaky"}

DynamicInv == DynamicProofs!IInv

(***************************************************************************)
(* The steps of the dynamic test are those its module speaks of.           *)
(***************************************************************************)
LEMMA DynamicStep ==
  ASSUME DynamicInv, RwDynamic!Main \/ RwDynamic!Writer \/ RwDynamic!Reader
  PROVE  DynamicInv'
<1> USE DEF RwDynamic!Step, RwDynamic!Unborn, RwDynamic!Exited, RwDynamic!flagVars,
        RwDynamic!lockVars, DynamicProofs!Step, DynamicProofs!Unborn,
        DynamicProofs!Exited, DynamicProofs!flagVars, DynamicProofs!lockVars
<1>1. RwDynamic!Main => DynamicProofs!Main
  BY DEF RwDynamic!Main, RwDynamic!MainWrLock, RwDynamic!MainDestroyBusy,
     RwDynamic!MainUnlock, RwDynamic!MainCreateWriter, RwDynamic!MainAwaitWriter,
     RwDynamic!MainCreateReader, RwDynamic!MainSpin, RwDynamic!MainCheckReader,
     RwDynamic!MainJoinWriter, RwDynamic!MainJoinReader, RwDynamic!MainCheckOrder,
     RwDynamic!MainDestroy, RwDynamic!Assert, RwDynamic!Create, RwDynamic!Join,
     RwDynamic!Rw!WrLock, RwDynamic!Rw!Unlock, RwDynamic!Rw!Busy,
     DynamicProofs!Main, DynamicProofs!MainWrLock, DynamicProofs!MainDestroyBusy,
     DynamicProofs!MainUnlock, DynamicProofs!MainCreateWriter,
     DynamicProofs!MainAwaitWriter, DynamicProofs!MainCreateReader,
     DynamicProofs!MainSpin, DynamicProofs!MainCheckReader,
     DynamicProofs!MainJoinWriter, DynamicProofs!MainJoinReader,
     DynamicProofs!MainCheckOrder, DynamicProofs!MainDestroy, DynamicProofs!Assert,
     DynamicProofs!Create, DynamicProofs!Join, DynamicProofs!Rw!WrLock,
     DynamicProofs!Rw!Unlock, DynamicProofs!Rw!Busy
<1>2. RwDynamic!Writer => DynamicProofs!Writer
  BY DEF RwDynamic!Writer, RwDynamic!WriterAcquire, RwDynamic!WriterEnter,
     RwDynamic!Yield, RwDynamic!WriterLeave, RwDynamic!Release, RwDynamic!Rw!WrLock,
     RwDynamic!Rw!Unlock,
     DynamicProofs!Writer, DynamicProofs!WriterAcquire, DynamicProofs!WriterEnter,
     DynamicProofs!Yield, DynamicProofs!WriterLeave, DynamicProofs!Release,
     DynamicProofs!Rw!WrLock, DynamicProofs!Rw!Unlock
<1>3. RwDynamic!Reader => DynamicProofs!Reader
  BY DEF RwDynamic!Reader, RwDynamic!ReaderAcquire, RwDynamic!ReaderLook,
     RwDynamic!ReaderEnter, RwDynamic!Yield, RwDynamic!ReaderLeave, RwDynamic!Release,
     RwDynamic!RdLock, RwDynamic!Rw!RdLock, RwDynamic!Rw!Unlock,
     DynamicProofs!Reader, DynamicProofs!ReaderAcquire, DynamicProofs!ReaderLook,
     DynamicProofs!ReaderEnter, DynamicProofs!Yield, DynamicProofs!ReaderLeave,
     DynamicProofs!Release, DynamicProofs!RdLock, DynamicProofs!Rw!RdLock,
     DynamicProofs!Rw!Unlock
<1>4. [DynamicProofs!Next]_(DynamicProofs!vars)
  BY <1>1, <1>2, <1>3 DEF DynamicProofs!Next
<1>5. QED
  BY <1>4, YieldsAssumption, DynamicProofs!NextIInv DEF DynamicInv, DynamicProofs!Kinds

-----------------------------------------------------------------------------
(***************************************************************************)
(* The last test: its worker never returns.                                *)
(***************************************************************************)
NowaitInv == Nowait!TypeOK /\ nowait_pc["worker"] # "exited"

(***************************************************************************)
(* No statement of it breaks that, or ends the process.                    *)
(***************************************************************************)
LEMMA NowaitStep ==
  ASSUME NowaitInv, Nowait!Main \/ Nowait!Worker
  PROVE  NowaitInv' /\ UNCHANGED aborted
<1> USE DEF NowaitInv, Nowait!TypeOK, Nowait!Threads, Nowait!Labels, Nowait!Unborn,
        Nowait!Exited, Nowait!Step
<1>1. CASE Nowait!Main
  BY <1>1 DEF Nowait!Main, Nowait!MainHold, Nowait!MainCreate, Nowait!Create
<1>2. CASE Nowait!Worker
  BY <1>2 DEF Nowait!Worker, Nowait!WorkerLockOwn
<1>3. QED  BY <1>1, <1>2

-----------------------------------------------------------------------------
(***************************************************************************)
(* What a test leaves behind when it has passed: no thread that goes on,   *)
(* and the kinds of library it passes with.                                *)
(***************************************************************************)
LEMMA MutexPassed ==
  ASSUME MutexInv, Mutex!Passed
  PROVE  /\ Gone(mutex_pc, Mutex!Main) /\ mutex_kind = "exclusive"
         /\ ~Mutex!MainThread /\ ~\E r \in Mutex!Rounds : Mutex!Worker(r)
<1>1. mutex_round = 6 /\ \A r \in {1, 2, 3, 4, 5} : mutex_pc[r] = "exited"
  BY MutexTable DEF MutexInv, MutexRounds, MutexWorkers, MutexMainAt, Mutex!Passed
<1>2. Gone(mutex_pc, Mutex!Main)
  BY <1>1, MutexTable DEF MutexInv, Mutex!TypeOK, Gone
<1>3. mutex_kind = "exclusive"
  BY <1>1 DEF MutexInv, Mutex!TypeOK, Mutex!Kinds, MutexFailures
<1>4. ~Mutex!MainThread
  BY <1>1, MutexTable DEF Mutex!MainThread
<1>5. ~\E r \in Mutex!Rounds : Mutex!Worker(r)
  BY <1>1, MutexTable
     DEF Mutex!Worker, Mutex!WorkerLock, Mutex!WorkerRaise, Mutex!WorkerUnlock,
         Mutex!WorkerTry, Mutex!WorkerTimed, Mutex!AssertUnlock, Mutex!Assert, Mutex!Step
<1>6. QED  BY <1>2, <1>3, <1>4, <1>5

(***************************************************************************)
(* Both readers are gone, and the lock is one that readers share.          *)
(***************************************************************************)
LEMMA StaticPassed ==
  ASSUME StaticInv, RwStatic!Passed
  PROVE  /\ Gone(static_pc, "main") /\ static_kind = "shared"
         /\ ~RwStatic!Main /\ ~RwStatic!ReaderA /\ ~RwStatic!ReaderB
<1>1. /\ static_kind = "shared" /\ static_pc["main"] = "done"
      /\ static_pc["reader_a"] = "exited" /\ static_pc["reader_b"] = "exited"
  BY StaticConsequences DEF RwStatic!Passed, pc_a, pc_b, RwStatic!Exited
<1>2. Gone(static_pc, "main")
  BY <1>1 DEF StaticInv, RwStatic!TypeOK, RwStatic!Threads, Gone
<1> USE <1>1 DEF RwStatic!Step, RwStatic!Assert
<1>3. ~RwStatic!Main
  BY DEF RwStatic!Main, RwStatic!MainCreateA, RwStatic!MainCreateB, RwStatic!MainJoinA,
     RwStatic!MainJoinB, RwStatic!MainCheckStage, RwStatic!MainCheckConcurrency,
     RwStatic!Create, RwStatic!Join
<1>4. ~RwStatic!ReaderA
  BY DEF RwStatic!ReaderA, RwStatic!AAcquire, RwStatic!AAnnounce, RwStatic!AAwaitB,
     RwStatic!ARelease, RwStatic!AExit, RwStatic!Acquire, RwStatic!Release,
     RwStatic!AwaitStage, RwStatic!SetStage
<1>5. ~RwStatic!ReaderB
  BY DEF RwStatic!ReaderB, RwStatic!BAwaitA, RwStatic!BAcquire, RwStatic!BLook,
     RwStatic!BAnnounce, RwStatic!BAwaitExit, RwStatic!BRelease, RwStatic!BExit,
     RwStatic!Acquire, RwStatic!Release, RwStatic!AwaitStage, RwStatic!SetStage
<1>6. QED  BY <1>1, <1>2, <1>3, <1>4, <1>5

(***************************************************************************)
(* Writer and reader are gone.                                             *)
(***************************************************************************)
LEMMA DynamicPassed ==
  ASSUME DynamicInv, RwDynamic!Passed
  PROVE  /\ Gone(dynamic_pc, "main")
         /\ ~RwDynamic!Main /\ ~RwDynamic!Writer /\ ~RwDynamic!Reader
<1>1. /\ dynamic_pc["main"] = "done"
      /\ dynamic_pc["writer"] = "exited" /\ dynamic_pc["reader"] = "exited"
  BY DEF DynamicInv, DynamicProofs!IInv, DynamicProofs!MainInv, DynamicProofs!Exited,
     RwDynamic!Passed
<1>2. Gone(dynamic_pc, "main")
  BY <1>1 DEF DynamicInv, DynamicProofs!IInv, DynamicProofs!TypeOK,
              DynamicProofs!Threads, Gone
<1> USE <1>1 DEF RwDynamic!Step, RwDynamic!Assert
<1>3. ~RwDynamic!Main
  BY DEF RwDynamic!Main, RwDynamic!MainWrLock, RwDynamic!MainDestroyBusy,
     RwDynamic!MainUnlock, RwDynamic!MainCreateWriter, RwDynamic!MainAwaitWriter,
     RwDynamic!MainCreateReader, RwDynamic!MainSpin, RwDynamic!MainCheckReader,
     RwDynamic!MainJoinWriter, RwDynamic!MainJoinReader, RwDynamic!MainCheckOrder,
     RwDynamic!MainDestroy, RwDynamic!Create, RwDynamic!Join
<1>4. ~RwDynamic!Writer
  BY DEF RwDynamic!Writer, RwDynamic!WriterAcquire, RwDynamic!WriterEnter,
     RwDynamic!Yield, RwDynamic!WriterLeave, RwDynamic!Release
<1>5. ~RwDynamic!Reader
  BY DEF RwDynamic!Reader, RwDynamic!ReaderAcquire, RwDynamic!ReaderLook,
     RwDynamic!ReaderEnter, RwDynamic!Yield, RwDynamic!ReaderLeave, RwDynamic!Release
<1>6. QED  BY <1>2, <1>3, <1>4, <1>5

(***************************************************************************)
(* Both workers are gone, and nobody can wake up any more.                 *)
(***************************************************************************)
LEMMA CondPassed ==
  ASSUME CondInv, Cond!Passed
  PROVE  /\ Gone(cond_pc, Cond!Main)
         /\ ~Cond!MainThread /\ ~Cond!StaticWorker /\ ~Cond!TimedWorker
         /\ ~\E t \in Cond!Rounds : Cond!WakeSpuriously(t)
<1>1. cond_round = 3 /\ cond_pc[1] = "exited" /\ cond_pc[2] = "exited"
  BY CondTable DEF CondInv, CondWorkers, CondMainAt, Cond!Passed
<1>2. Gone(cond_pc, Cond!Main)
  BY <1>1, CondTable DEF CondInv, Cond!TypeOK, Gone
<1>3. ~Cond!MainThread
  BY <1>1, CondTable DEF Cond!MainThread
<1> USE <1>1 DEF Cond!Step, Cond!Assert, Cond!Lock, Cond!Unlock, Cond!Sleep
<1>4. ~Cond!StaticWorker
  BY DEF Cond!StaticWorker, Cond!StaticLock, Cond!StaticTest, Cond!StaticWait,
     Cond!StaticRelock, Cond!StaticUnlock
<1>5. ~Cond!TimedWorker
  BY DEF Cond!TimedWorker, Cond!TimedGettime, Cond!TimedLock, Cond!TimedWait,
     Cond!TimedOut, Cond!TimedRelock, Cond!TimedCheck, Cond!TimedUnlock
<1>6. ~\E t \in Cond!Rounds : Cond!WakeSpuriously(t)
  BY CondTable DEF Cond!WakeSpuriously
<1>7. QED  BY <1>2, <1>3, <1>4, <1>5, <1>6

(***************************************************************************)
(* Both workers are gone; the places of two threads are apart, and nothing *)
(* but the creator's value was in a new one.                               *)
(***************************************************************************)
LEMMA DataPassed ==
  ASSUME DataInv, Data!Passed
  PROVE  /\ Gone(data_pc, "main") /\ data_kind \in {"private", "inherited"}
         /\ ~Data!Main /\ ~Data!Workers
<1>1. /\ data_pc["main"] = "done"
      /\ data_pc["key_worker"] = "exited" /\ data_pc["local_worker"] = "exited"
  BY DEF DataInv, DataWorkersInv, DataMainAt, Data!Passed
<1>2. Gone(data_pc, "main")
  BY <1>1 DEF DataInv, Data!TypeOK, Data!Threads, Gone
<1>3. data_kind \in {"private", "inherited"}
  BY <1>1 DEF DataInv, Data!TypeOK, Data!Kinds, DataShared, DataFresh, DataMainAt
<1> USE <1>1 DEF Data!Set, Data!Check, Data!Born, Data!Gone, Data!Join, Data!Create,
        Data!Assert, Data!Step
<1>4. ~Data!Main
  BY DEF Data!Main, Data!KeyMain, Data!LocalMain
<1>5. ~Data!Workers
  BY DEF Data!Workers, Data!KeyWorker, Data!LocalWorker
<1>6. QED  BY <1>2, <1>3, <1>4, <1>5

-----------------------------------------------------------------------------
(***************************************************************************)
(* The whole process.  As long as no assertion has failed, each test keeps *)
(* its invariant, also while the threads of the others run.                *)
(***************************************************************************)
SuiteInv ==
  /\ at \in {1, 2, 3, 4, 5, 6} /\ status \in {"running", "ok", "exited"}
  /\ exit_waits \in BOOLEAN
  /\ status # "running" => at = 6
  /\ status = "exited" => aborted = "none" /\ ~exit_waits
  /\ at > 1 => Mutex!Passed
  /\ at > 2 => RwStatic!Passed
  /\ at > 3 => RwDynamic!Passed
  /\ at > 4 => Cond!Passed
  /\ at > 5 => Data!Passed

TestsInv == /\ MutexInv /\ StaticInv /\ DynamicInv /\ CondInv /\ DataInv

IInv == /\ SuiteInv /\ NowaitInv
        /\ aborted = "none" => TestsInv
        /\ FailureTells /\ StageTellsHolders /\ WaitFollowsFlag

(***************************************************************************)
(* A failed assertion is the end: no thread of any test runs after it.     *)
(***************************************************************************)
LEMMA MutexAlive ==
  ASSUME Mutex!MainThread \/ \E r \in Mutex!Rounds : Mutex!Worker(r)
  PROVE  aborted = "none"
<1>1. QED
  BY DEF Mutex!MainThread, Mutex!MainInit, Mutex!MainCreate, Mutex!MainPoll,
     Mutex!MainRead, Mutex!MainUnpoll, Mutex!MainTest, Mutex!MainJoin,
     Mutex!MainDestroy, Mutex!MainHold, Mutex!MainUnhold, Mutex!Worker,
     Mutex!WorkerLock, Mutex!WorkerRaise, Mutex!WorkerUnlock, Mutex!WorkerTry,
     Mutex!WorkerTimed, Mutex!AssertUnlock, Mutex!Assert, Mutex!Step, Mutex!Create,
     Mutex!Join

(***************************************************************************)
(* The same of the static read-write lock.                                 *)
(***************************************************************************)
LEMMA StaticAlive ==
  ASSUME RwStatic!Main \/ RwStatic!ReaderA \/ RwStatic!ReaderB
  PROVE  aborted = "none"
<1>1. QED
  BY DEF RwStatic!Main, RwStatic!MainCreateA, RwStatic!MainCreateB, RwStatic!MainJoinA,
     RwStatic!MainJoinB, RwStatic!MainCheckStage, RwStatic!MainCheckConcurrency,
     RwStatic!ReaderA, RwStatic!AAcquire, RwStatic!AAnnounce, RwStatic!AAwaitB,
     RwStatic!ARelease, RwStatic!AExit, RwStatic!ReaderB, RwStatic!BAwaitA,
     RwStatic!BAcquire, RwStatic!BLook, RwStatic!BAnnounce, RwStatic!BAwaitExit,
     RwStatic!BRelease, RwStatic!BExit, RwStatic!Acquire, RwStatic!Release,
     RwStatic!AwaitStage, RwStatic!SetStage, RwStatic!Create, RwStatic!Join,
     RwStatic!Step, RwStatic!Assert

(***************************************************************************)
(* The same of the dynamic read-write lock.                                *)
(***************************************************************************)
LEMMA DynamicAlive ==
  ASSUME RwDynamic!Main \/ RwDynamic!Writer \/ RwDynamic!Reader
  PROVE  aborted = "none"
<1>1. QED
  BY DEF RwDynamic!Main, RwDynamic!MainWrLock, RwDynamic!MainDestroyBusy,
     RwDynamic!MainUnlock, RwDynamic!MainCreateWriter, RwDynamic!MainAwaitWriter,
     RwDynamic!MainCreateReader, RwDynamic!MainSpin, RwDynamic!MainCheckReader,
     RwDynamic!MainJoinWriter, RwDynamic!MainJoinReader, RwDynamic!MainCheckOrder,
     RwDynamic!MainDestroy, RwDynamic!Writer, RwDynamic!WriterAcquire,
     RwDynamic!WriterEnter, RwDynamic!Yield, RwDynamic!WriterLeave, RwDynamic!Release,
     RwDynamic!Reader, RwDynamic!ReaderAcquire, RwDynamic!ReaderLook,
     RwDynamic!ReaderEnter, RwDynamic!ReaderLeave, RwDynamic!Assert, RwDynamic!Create,
     RwDynamic!Join, RwDynamic!Step

(***************************************************************************)
(* The same of the condition variables.                                    *)
(***************************************************************************)
LEMMA CondAlive ==
  ASSUME \/ Cond!MainThread \/ Cond!StaticWorker \/ Cond!TimedWorker
         \/ \E t \in Cond!Rounds : Cond!WakeSpuriously(t)
  PROVE  aborted = "none"
<1>1. QED
  BY DEF Cond!MainThread, Cond!MainCreate, Cond!MainLock, Cond!MainRaise,
     Cond!MainSignal, Cond!MainUnlock, Cond!MainJoin, Cond!StaticWorker,
     Cond!StaticLock, Cond!StaticTest, Cond!StaticWait, Cond!StaticRelock,
     Cond!StaticUnlock, Cond!TimedWorker, Cond!TimedGettime, Cond!TimedLock,
     Cond!TimedWait, Cond!TimedOut, Cond!TimedRelock, Cond!TimedCheck, Cond!TimedUnlock,
     Cond!WakeSpuriously, Cond!Lock, Cond!Unlock, Cond!Sleep, Cond!Step, Cond!Assert,
     Cond!Create, Cond!Join

(***************************************************************************)
(* The same of the per-thread data.                                        *)
(***************************************************************************)
LEMMA DataAlive ==
  ASSUME Data!Main \/ Data!Workers
  PROVE  aborted = "none"
<1>1. QED
  BY DEF Data!Main, Data!KeyMain, Data!LocalMain, Data!Workers, Data!KeyWorker,
     Data!LocalWorker, Data!Set, Data!Check, Data!Born, Data!Gone, Data!Join,
     Data!Create, Data!Assert, Data!Step

(***************************************************************************)
(* A test does not notice what happens to the variables of the others.     *)
(***************************************************************************)
LEMMA Frames ==
  ASSUME UNCHANGED aborted
  PROVE  /\ MutexInv /\ UNCHANGED mutexVars => MutexInv'
         /\ StaticInv /\ UNCHANGED staticVars => StaticInv'
         /\ DynamicInv /\ UNCHANGED dynamicVars => DynamicInv'
         /\ CondInv /\ UNCHANGED condVars => CondInv'
         /\ DataInv /\ UNCHANGED dataVars => DataInv'
<1>1. MutexInv /\ UNCHANGED mutexVars => MutexInv'
  BY DEF mutexVars, MutexInv, Mutex!TypeOK, MutexWorkers, MutexRounds, MutexOwners,
     MutexFailures, MutexMainAt, MainHolds
<1>2. StaticInv /\ UNCHANGED staticVars => StaticInv'
  BY StaticNextInv DEF staticVars, RwStatic!vars
<1>3. DynamicInv /\ UNCHANGED dynamicVars => DynamicInv'
  BY YieldsAssumption, DynamicProofs!NextIInv
     DEF DynamicInv, dynamicVars, DynamicProofs!vars, DynamicProofs!Kinds
<1>4. CondInv /\ UNCHANGED condVars => CondInv'
  BY DEF condVars, CondInv, Cond!TypeOK, CondWorkers, CondOwner, CondFlag, CondFailures,
     CondMainAt, WokenUp
<1>5. DataInv /\ UNCHANGED dataVars => DataInv'
  BY DEF dataVars, DataInv, Data!TypeOK, DataWorkersInv, DataApart, DataShared,
     DataFresh, DataFailures, DataMainAt
<1>6. QED  BY <1>1, <1>2, <1>3, <1>4, <1>5

(***************************************************************************)
(* What the invariants of the tests say about failed assertions.           *)
(***************************************************************************)
LEMMA FailuresTell ==
  MutexInv \/ StaticInv \/ DynamicInv \/ CondInv \/ DataInv => FailureTells
<1>1. MutexInv => FailureTells
  BY DEF MutexInv, MutexFailures, FailureTells
<1>2. StaticInv => FailureTells
  BY StaticConsequences DEF StaticFailures, FailureTells
<1>3. DynamicInv => FailureTells
  BY DEF DynamicInv, DynamicProofs!IInv, DynamicProofs!TypeOK, DynamicProofs!FlagInv,
     DynamicProofs!ExclusiveInv, DynamicProofs!Kinds, FailureTells
<1>4. CondInv => FailureTells
  BY DEF CondInv, CondFailures, WokenUp, FailureTells
<1>5. DataInv => FailureTells
  BY DEF DataInv, DataFailures, FailureTells
<1>6. QED  BY <1>1, <1>2, <1>3, <1>4, <1>5

(***************************************************************************)
(* What the invariants of the tests say about the stages and the wait.     *)
(***************************************************************************)
LEMMA Guarantees ==
  /\ StaticInv => StageTellsHolders
  /\ CondInv => WaitFollowsFlag
<1>1. StaticInv => StageTellsHolders
  BY StaticConsequences DEF StageTellsHolders
<1>2. CondInv => WaitFollowsFlag
  BY CondTable
     DEF CondInv, CondWorkers, CondFlag, CondMainAt, WaitFollowsFlag,
         Cond!WaitFollowsFlag, Cond!Exited
<1>3. QED  BY <1>1, <1>2

(***************************************************************************)
(* The same of the state after a step.                                     *)
(***************************************************************************)
LEMMA GuaranteesNext ==
  /\ (MutexInv \/ StaticInv \/ DynamicInv \/ CondInv \/ DataInv => FailureTells)'
  /\ (StaticInv => StageTellsHolders)'
  /\ (CondInv => WaitFollowsFlag)'
<1>1. QED  BY FailuresTell, Guarantees, PTL

(***************************************************************************)
(* The threads of one test.  What SuiteInv says of the earlier tests is not*)
(* disturbed, since none of them has a thread that could run.              *)
(***************************************************************************)
LEMMA MutexSuiteStep ==
  ASSUME IInv, MutexMain \/ \E r \in Mutex!Rounds : MutexWorker(r)
  PROVE  IInv'
<1>1. /\ Called("mutex")
      /\ Mutex!MainThread \/ \E r \in Mutex!Rounds : Mutex!Worker(r)
      /\ UNCHANGED <<suiteVars, staticVars, dynamicVars, condVars, dataVars, nowaitVars>>
  BY DEF MutexMain, MutexWorker, InMutex
<1>2. TestsInv
  BY <1>1, MutexAlive DEF IInv
<1>3. MutexInv'
  BY <1>1, <1>2, MutexMainStep, MutexWorkerStep DEF TestsInv
<1>4. ~Mutex!Passed /\ status # "exited"
  BY <1>1, <1>2, MutexPassed DEF TestsInv, Called
<1>5. SuiteInv'
  BY <1>1, <1>4 DEF IInv, SuiteInv, suiteVars
<1>6. aborted' = "none" => TestsInv'
  BY <1>1, <1>2, <1>3, MutexAlive, Frames DEF TestsInv
<1>7. FailureTells'
  BY <1>3, GuaranteesNext
<1>8. StageTellsHolders' /\ WaitFollowsFlag' /\ NowaitInv'
  BY <1>1
     DEF IInv, NowaitInv, Nowait!TypeOK, nowaitVars, staticVars, condVars,
         StageTellsHolders, RwStatic!StageTellsHolders, WaitFollowsFlag,
         Cond!WaitFollowsFlag
<1>9. QED  BY <1>5, <1>6, <1>7, <1>8 DEF IInv

(***************************************************************************)
(* The threads of the static read-write lock test.                         *)
(***************************************************************************)
LEMMA StaticSuiteStep ==
  ASSUME IInv, RwStaticMain \/ RwStaticA \/ RwStaticB
  PROVE  IInv'
<1>1. /\ Called("rwlock_static")
      /\ RwStatic!Main \/ RwStatic!ReaderA \/ RwStatic!ReaderB
      /\ UNCHANGED <<suiteVars, mutexVars, dynamicVars, condVars, dataVars, nowaitVars>>
  BY DEF RwStaticMain, RwStaticA, RwStaticB, InRwStatic
<1>2. TestsInv
  BY <1>1, StaticAlive DEF IInv
<1>3. StaticInv'
  BY <1>1, <1>2, StaticNextInv DEF TestsInv, RwStatic!Next
<1>4. ~RwStatic!Passed /\ status # "exited"
  BY <1>1, <1>2, StaticPassed DEF TestsInv, Called
<1>5. SuiteInv'
  BY <1>1, <1>4 DEF IInv, SuiteInv, suiteVars, mutexVars, Mutex!Passed
<1>6. aborted' = "none" => TestsInv'
  BY <1>1, <1>2, <1>3, StaticAlive, Frames DEF TestsInv
<1>7. FailureTells' /\ StageTellsHolders'
  BY <1>3, GuaranteesNext
<1>8. WaitFollowsFlag' /\ NowaitInv'
  BY <1>1
     DEF IInv, NowaitInv, Nowait!TypeOK, nowaitVars, condVars, WaitFollowsFlag,
         Cond!WaitFollowsFlag
<1>9. QED  BY <1>5, <1>6, <1>7, <1>8 DEF IInv

(***************************************************************************)
(* The threads of the dynamic read-write lock test.                        *)
(***************************************************************************)
LEMMA DynamicSuiteStep ==
  ASSUME IInv, RwDynamicMain \/ RwDynamicWriter \/ RwDynamicReader
  PROVE  IInv'
<1>1. /\ Called("rwlock_dynamic")
      /\ RwDynamic!Main \/ RwDynamic!Writer \/ RwDynamic!Reader
      /\ UNCHANGED <<suiteVars, mutexVars, staticVars, condVars, dataVars, nowaitVars>>
  BY DEF RwDynamicMain, RwDynamicWriter, RwDynamicReader, InRwDynamic
<1>2. TestsInv
  BY <1>1, DynamicAlive DEF IInv
<1>3. DynamicInv'
  BY <1>1, <1>2, DynamicStep DEF TestsInv
<1>4. ~RwDynamic!Passed /\ status # "exited"
  BY <1>1, <1>2, DynamicPassed DEF TestsInv, Called
<1>5. SuiteInv'
  BY <1>1, <1>4
     DEF IInv, SuiteInv, suiteVars, mutexVars, Mutex!Passed, staticVars, RwStatic!Passed
<1>6. aborted' = "none" => TestsInv'
  BY <1>1, <1>2, <1>3, DynamicAlive, Frames DEF TestsInv
<1>7. FailureTells'
  BY <1>3, GuaranteesNext
<1>8. StageTellsHolders' /\ WaitFollowsFlag' /\ NowaitInv'
  BY <1>1
     DEF IInv, NowaitInv, Nowait!TypeOK, nowaitVars, staticVars, condVars,
         StageTellsHolders, RwStatic!StageTellsHolders, WaitFollowsFlag,
         Cond!WaitFollowsFlag
<1>9. QED  BY <1>5, <1>6, <1>7, <1>8 DEF IInv

(***************************************************************************)
(* The threads of the condition variable tests.                            *)
(***************************************************************************)
LEMMA CondSuiteStep ==
  ASSUME IInv, CondMain \/ CondStatic \/ CondTimed \/ CondWake
  PROVE  IInv'
<1>1. /\ Called("cond")
      /\ \/ Cond!MainThread \/ Cond!StaticWorker \/ Cond!TimedWorker
         \/ \E t \in Cond!Rounds : Cond!WakeSpuriously(t)
      /\ UNCHANGED <<suiteVars, mutexVars, staticVars, dynamicVars, dataVars, nowaitVars>>
  BY DEF CondMain, CondStatic, CondTimed, CondWake, InCond
<1>2. TestsInv
  BY <1>1, CondAlive DEF IInv
<1>3. CondInv'
  BY <1>1, <1>2, CondMainStep, CondWorkerStep DEF TestsInv
<1>4. ~Cond!Passed /\ status # "exited"
  BY <1>1, <1>2, CondPassed DEF TestsInv, Called
<1>5. SuiteInv'
  BY <1>1, <1>4
     DEF IInv, SuiteInv, suiteVars, mutexVars, Mutex!Passed, staticVars, RwStatic!Passed,
         dynamicVars, RwDynamic!Passed
<1>6. aborted' = "none" => TestsInv'
  BY <1>1, <1>2, <1>3, CondAlive, Frames DEF TestsInv
<1>7. FailureTells' /\ WaitFollowsFlag'
  BY <1>3, GuaranteesNext
<1>8. StageTellsHolders' /\ NowaitInv'
  BY <1>1
     DEF IInv, NowaitInv, Nowait!TypeOK, nowaitVars, staticVars, StageTellsHolders,
         RwStatic!StageTellsHolders
<1>9. QED  BY <1>5, <1>6, <1>7, <1>8 DEF IInv

(***************************************************************************)
(* The threads of the tests of per-thread data.                            *)
(***************************************************************************)
LEMMA DataSuiteStep ==
  ASSUME IInv, DataMain \/ DataWorkers
  PROVE  IInv'
<1>1. /\ Called("data")
      /\ Data!Main \/ Data!Workers
      /\ UNCHANGED <<suiteVars, mutexVars, staticVars, dynamicVars, condVars, nowaitVars>>
  BY DEF DataMain, DataWorkers, InData
<1>2. TestsInv
  BY <1>1, DataAlive DEF IInv
<1>3. DataInv'
  BY <1>1, <1>2, DataStep DEF TestsInv
<1>4. ~Data!Passed /\ status # "exited"
  BY <1>1, <1>2, DataPassed DEF TestsInv, Called
<1>5. SuiteInv'
  BY <1>1, <1>4
     DEF IInv, SuiteInv, suiteVars, mutexVars, Mutex!Passed, staticVars, RwStatic!Passed,
         dynamicVars, RwDynamic!Passed, condVars, Cond!Passed
<1>6. aborted' = "none" => TestsInv'
  BY <1>1, <1>2, <1>3, DataAlive, Frames DEF TestsInv
<1>7. FailureTells'
  BY <1>3, GuaranteesNext
<1>8. StageTellsHolders' /\ WaitFollowsFlag' /\ NowaitInv'
  BY <1>1
     DEF IInv, NowaitInv, Nowait!TypeOK, nowaitVars, staticVars, condVars,
         StageTellsHolders, RwStatic!StageTellsHolders, WaitFollowsFlag,
         Cond!WaitFollowsFlag
<1>9. QED  BY <1>5, <1>6, <1>7, <1>8 DEF IInv

(***************************************************************************)
(* The steps that leave the variables of the first five tests alone: those *)
(* of the last test, and main()'s own.                                     *)
(***************************************************************************)
testVars == <<mutexVars, staticVars, dynamicVars, condVars, dataVars>>

(***************************************************************************)
(* They keep what the tests promise.                                       *)
(***************************************************************************)
LEMMA QuietTests ==
  ASSUME IInv, UNCHANGED <<testVars, aborted>>
  PROVE  /\ aborted' = "none" => TestsInv'
         /\ FailureTells' /\ StageTellsHolders' /\ WaitFollowsFlag'
<1>1. aborted' = "none" => TestsInv'
  BY Frames DEF IInv, testVars, TestsInv
<1>2. FailureTells'
  BY DEF IInv, testVars, mutexVars, staticVars, dynamicVars, condVars, dataVars,
         FailureTells
<1>3. StageTellsHolders' /\ WaitFollowsFlag'
  BY DEF IInv, testVars, staticVars, condVars, StageTellsHolders,
         RwStatic!StageTellsHolders, WaitFollowsFlag, Cond!WaitFollowsFlag
<1>4. QED  BY <1>1, <1>2, <1>3

(***************************************************************************)
(* main() goes on to the next test when the present one has passed, and to *)
(* its end when the last one has; a library whose exit() waits for other   *)
(* threads never lets it end, since the last worker does not return.       *)
(***************************************************************************)
LEMMA MainSuiteStep ==
  ASSUME IInv, NowaitMain \/ NowaitWorker \/ Return \/ WriteOk \/ Exit \/ UNCHANGED vars
  PROVE  IInv'
<1>t. /\ Len(Tests) = 6
      /\ Tests[1] = "mutex" /\ Tests[2] = "rwlock_static" /\ Tests[3] = "rwlock_dynamic"
      /\ Tests[4] = "cond" /\ Tests[5] = "data" /\ Tests[6] = "nowait"
  BY DEF Tests
<1>1. UNCHANGED <<testVars, aborted>> /\ NowaitInv'
  <2>1. CASE NowaitMain \/ NowaitWorker
    BY <2>1, NowaitStep DEF IInv, NowaitMain, NowaitWorker, InNowait, testVars
  <2>2. CASE Return \/ WriteOk \/ Exit \/ UNCHANGED vars
    BY <2>2
       DEF IInv, Return, WriteOk, Exit, vars, testVars, NowaitInv, Nowait!TypeOK, nowaitVars
  <2>3. QED  BY <2>1, <2>2
<1> USE DEF SuiteInv, suiteVars, testVars, mutexVars, Mutex!Passed, staticVars,
        RwStatic!Passed, dynamicVars, RwDynamic!Passed, condVars, Cond!Passed, dataVars,
        Data!Passed
<1>2. SuiteInv'
  <2>1. CASE NowaitMain \/ NowaitWorker
    BY <1>1, <2>1 DEF IInv, NowaitMain, NowaitWorker, InNowait
  <2>2. CASE Return
    <3>1. Passed(Tests[at]) /\ at \in {1, 2, 3, 4, 5} /\ at' = at + 1
      BY <1>t, <2>2 DEF Return, IInv
    <3>2. /\ at = 1 => Mutex!Passed
          /\ at = 2 => RwStatic!Passed
          /\ at = 3 => RwDynamic!Passed
          /\ at = 4 => Cond!Passed
          /\ at = 5 => Data!Passed
      BY <1>t, <3>1 DEF Passed
    <3>3. QED  BY <1>1, <2>2, <3>1, <3>2 DEF Return, IInv
  <2>3. CASE WriteOk
    BY <1>t, <1>1, <2>3 DEF WriteOk, IInv
  <2>4. CASE Exit
    BY <1>1, <2>4 DEF Exit, IInv, NowaitInv, Nowait!Exited
  <2>5. CASE UNCHANGED vars
    BY <2>5 DEF IInv, vars
  <2>6. QED  BY <2>1, <2>2, <2>3, <2>4, <2>5
<1>3. QED  BY <1>1, <1>2, QuietTests DEF IInv

(***************************************************************************)
(* Before the first call every test has its invariant; which parts of the  *)
(* library are faulty does not matter.                                     *)
(***************************************************************************)
LEMMA InitIInv == AnyLibrary => IInv
<1> SUFFICES ASSUME AnyLibrary  PROVE IInv
  OBVIOUS
<1>1. MutexInv
  <2>1. /\ mutex_pc = [t \in {0, 1, 2, 3, 4, 5} |-> IF t = 0 THEN "create" ELSE "unborn"]
        /\ \A x \in Mutex!Tests : mutex_owner[x] = -1
        /\ mutex_round = 1 /\ aborted = "none"
    BY MutexTable, MutexFirst DEF AnyLibrary, Mutex!Init, Mutex!Unborn
  <2>2. Mutex!TypeOK
    BY <2>1, MutexTable
       DEF AnyLibrary, Mutex!Init, Mutex!TypeOK, Mutex!MainLabels, Mutex!WorkerLabels,
           Mutex!Unborn
  <2> USE <2>1 DEF MutexMainAt
  <2>3. MutexWorkers
    BY DEF MutexWorkers
  <2>6. MutexRounds
    BY DEF MutexRounds, Mutex!MainLabels
  <2>7. MutexFailures
    BY DEF MutexFailures
  <2>4. MutexOwners
    BY <2>1 DEF MutexOwners, MainHolds, MutexMainAt
  <2>5. QED  BY <2>2, <2>3, <2>4, <2>6, <2>7 DEF MutexInv
<1>2. StaticInv
  BY StaticInitInv DEF AnyLibrary
<1>3. DynamicInv
  <2>1. DynamicProofs!Init
    BY DEF AnyLibrary, RwDynamic!Init, DynamicProofs!Init, RwDynamic!Threads,
           DynamicProofs!Threads, RwDynamic!Unborn, DynamicProofs!Unborn
  <2>2. QED
    BY <2>1, YieldsAssumption, DynamicProofs!InitIInv DEF DynamicInv, DynamicProofs!Kinds
<1>4. CondInv
  <2>1. /\ cond_pc = [t \in {0, 1, 2} |-> IF t = 0 THEN "create" ELSE "unborn"]
        /\ sleepers = {} /\ cond_owner = -1 /\ cond_round = 1
        /\ aborted = "none" /\ cond_initialized = 0
    BY CondTable DEF AnyLibrary, Cond!Init, Cond!Unborn
  <2>2. Cond!TypeOK
    BY <2>1, CondTable
       DEF AnyLibrary, Cond!Init, Cond!TypeOK, Cond!MainLabels, Cond!WorkerLabels, Cond!Unborn
  <2> USE <2>1 DEF CondMainAt
  <2>3. CondWorkers
    BY DEF CondWorkers, Cond!MainLabels
  <2>4. CondOwner
    BY DEF CondOwner
  <2>5. CondFlag
    BY DEF CondFlag
  <2>6. CondFailures
    BY DEF CondFailures
  <2>7. QED  BY <2>2, <2>3, <2>4, <2>5, <2>6 DEF CondInv
<1>5. DataInv
  BY DEF AnyLibrary, Data!Init, DataInv, Data!TypeOK, DataWorkersInv, DataApart, DataShared,
         DataFresh, DataFailures, DataMainAt, Data!Threads, Data!Names, Data!Values,
         Data!Labels, Data!Unborn
<1>6. NowaitInv
  BY DEF AnyLibrary, Nowait!Init, NowaitInv, Nowait!TypeOK, Nowait!Threads, Nowait!Labels,
         Nowait!Unborn
<1>7. SuiteInv
  BY DEF AnyLibrary, SuiteInv
<1>8. QED
  BY <1>1, <1>2, <1>3, <1>4, <1>5, <1>6, <1>7, FailuresTell, Guarantees DEF IInv, TestsInv

(***************************************************************************)
(* The invariant of the process is inductive.                              *)
(***************************************************************************)
LEMMA Invariant == AnyLibrary /\ [][Next]_vars => []IInv
<1>1. IInv /\ [Next]_vars => IInv'
  BY MutexSuiteStep, StaticSuiteStep, DynamicSuiteStep, CondSuiteStep, DataSuiteStep,
     MainSuiteStep DEF Next, Stop
<1>2. QED  BY InitIInv, <1>1, PTL

(***************************************************************************)
(* So it holds with the one fault of the runs.                             *)
(***************************************************************************)
LEMMA SuiteInvariant == Spec => []IInv
<1>1. Init => AnyLibrary
  BY DEF Init
<1>2. QED  BY <1>1, Invariant, PTL DEF Spec

-----------------------------------------------------------------------------
(***************************************************************************)
(* Every variable of every test keeps its type, in the process they share. *)
(***************************************************************************)
THEOREM TypeCorrect == Spec => []TypeOK
<1>1. IInv => TypeOK
  <2> SUFFICES ASSUME IInv  PROVE TypeOK
    OBVIOUS
  <2>1. aborted = "none" => RwStatic!TypeOK
    BY DEF IInv, TestsInv, StaticInv
  <2>2. aborted = "none" => RwDynamic!TypeOK
    BY DEF IInv, TestsInv, DynamicInv, DynamicProofs!IInv, DynamicProofs!TypeOK,
           DynamicProofs!Threads, DynamicProofs!MainLabels, DynamicProofs!WorkerLabels,
           DynamicProofs!Kinds, DynamicProofs!Unborn, DynamicProofs!Exited,
           RwDynamic!TypeOK, RwDynamic!Threads, RwDynamic!MainLabels,
           RwDynamic!WorkerLabels, RwDynamic!Kinds, RwDynamic!Unborn, RwDynamic!Exited
  <2>3. aborted = "none" => Mutex!TypeOK /\ Cond!TypeOK /\ Data!TypeOK
    BY DEF IInv, TestsInv, MutexInv, CondInv, DataInv
  <2>4. at \in DOMAIN Tests /\ Nowait!TypeOK
    BY DEF IInv, SuiteInv, NowaitInv, Tests
  <2>5. QED  BY <2>1, <2>2, <2>3, <2>4 DEF IInv, SuiteInv, TypeOK
<1>2. QED  BY <1>1, SuiteInvariant, PTL

(***************************************************************************)
(* main() hands each test a process without threads of an earlier one,     *)
(* whatever the library does (main.c:116-127).                             *)
(***************************************************************************)
THEOREM NoThreadIsLeft == Spec => []NoThreadLeft
<1>1. IInv => NoThreadLeft
  BY MutexPassed, StaticPassed, DynamicPassed, CondPassed, DataPassed
     DEF IInv, SuiteInv, TestsInv, NoThreadLeft
<1>2. QED  BY <1>1, SuiteInvariant, PTL

(***************************************************************************)
(* What exit() finds passed before it.                                     *)
(***************************************************************************)
LEMMA PassTelling == IInv => PassTells
<1> SUFFICES ASSUME IInv, status = "exited"
             PROVE  /\ Faulty \subseteq {"rwlock_dynamic", "data"}
                    /\ data_kind \in {"private", "inherited"}
  BY DEF PassTells
<1>1. TestsInv /\ at = 6 /\ ~exit_waits
  BY DEF IInv, SuiteInv
<1>2. Mutex!Passed /\ RwStatic!Passed /\ Data!Passed
  BY <1>1 DEF IInv, SuiteInv
<1>3. mutex_kind = "exclusive" /\ static_kind = "shared"
  BY <1>1, <1>2, MutexPassed, StaticPassed DEF TestsInv
<1>4. data_kind \in {"private", "inherited"}
  BY <1>1, <1>2, DataPassed DEF TestsInv
<1>5. {"mutex", "rwlock_static", "exit"} \subseteq Conforming
  BY <1>1, <1>3 DEF Conforming
<1>6. QED  BY <1>4, <1>5 DEF Faulty

(***************************************************************************)
(* Exit code 0 of thread-c, all that z.py looks at (z.py:601), tells that  *)
(* its mutexes exclude and time out, its readers share, its threads do not *)
(* see each other's data and exit() ends them all.                         *)
(***************************************************************************)
THEOREM PassIsTelling == Spec => []PassTells
<1>1. QED  BY PassTelling, SuiteInvariant, PTL

(***************************************************************************)
(* An assertion that fails has one part of the library to blame, whatever  *)
(* the others do, but for the two that fail with any library               *)
(* (rwlock_dynamic_init.c:93, cond_timedwait.c:49).                        *)
(***************************************************************************)
THEOREM FailureIsTelling == Spec => []FailureTells
<1>1. QED  BY SuiteInvariant, PTL DEF IInv

(***************************************************************************)
(* In the process of all tests, too, the table of stages                   *)
(* (rwlock_static_init.c:25-30) tells who holds the lock.                  *)
(***************************************************************************)
THEOREM StagesTellHolders == Spec => []StageTellsHolders
<1>1. QED  BY SuiteInvariant, PTL DEF IInv

(***************************************************************************)
(* The worker of cond_static_init.c waits as long as the flag is down, no  *)
(* longer and no shorter (:46, :47, :66).                                  *)
(***************************************************************************)
THEOREM WaitFollowsTheFlag == Spec => []WaitFollowsFlag
<1>1. QED  BY SuiteInvariant, PTL DEF IInv

(***************************************************************************)
(* Both of what a pass and what a failure tell stay true when several      *)
(* parts of the library are faulty at the same time.                       *)
(***************************************************************************)
THEOREM ManyFaults == AnyLibrary /\ [][Next]_vars => [](PassTells /\ FailureTells)
<1>1. IInv => PassTells /\ FailureTells
  BY PassTelling DEF IInv
<1>2. QED  BY <1>1, Invariant, PTL
=============================================================================
