-------------------------- MODULE RwlockStaticInit --------------------------
(***************************************************************************)
(* The test of statically initialised read-write locks,                    *)
(* src/thread-c/rwlock_static_init.c: two readers have to be inside the    *)
(* lock at the same time.  They hand each other a stage number from 0 to 4 *)
(* so that each waits for the other; if readers excluded each other, the   *)
(* test would never end.                                                   *)
(***************************************************************************)
EXTENDS TestProcess

(***************************************************************************)
(* The lock under test.  A "shared" one is what POSIX asks for.  Three     *)
(* ways to get readers wrong: an "exclusive" one lets one reader in at a   *)
(* time, a "limited" one turns the second away with an error, an           *)
(* "uncounted" one is free as soon as one of its readers leaves.           *)
(***************************************************************************)
Kinds == {"shared", "exclusive", "limited", "uncounted"}

VARIABLES
  kind,        \* the library of this behaviour, never changes
  rw_readers,  \* the threads that hold the lock for reading
  stage, concurrency_observed

vars == <<pc, aborted, kind, rw_readers, stage, concurrency_observed>>

Threads == {"main", "reader_a", "reader_b"}

MainLabels ==
  {"create_a", "create_b", "join_a", "join_b", "check_stage",
   "check_concurrency", "done"}
ReaderLabels ==
  {Unborn, Exited, "await_a", "yield_a", "acquire", "announce", "look",
   "await_b", "yield_b", "await_exit", "yield_exit", "release",
   "announce_exit"}

Init ==
  /\ pc = [t \in Threads |-> IF t = "main" THEN "create_a" ELSE Unborn]
  /\ aborted = "none"
  /\ kind \in Kinds
  /\ rw_readers = {}
  /\ stage = 0 /\ concurrency_observed = 0

-----------------------------------------------------------------------------
(***************************************************************************)
(* The read-write lock under test: no test thread takes it for writing.    *)
(***************************************************************************)
\* assert(pthread_rwlock_rdlock(&rwlock) == 0)
Acquire(t, to) ==
  LET refused == kind = "limited" /\ rw_readers # {} IN
  /\ kind = "exclusive" => rw_readers = {}
  /\ Assert(t, "acquire", ~refused, "locked", to)
  /\ rw_readers' = IF refused THEN rw_readers ELSE rw_readers \cup {t}
  /\ UNCHANGED <<kind, stage, concurrency_observed>>

\* assert(pthread_rwlock_unlock(&rwlock) == 0): the caller must hold the lock.
Release(t) ==
  /\ Assert(t, "release", t \in rw_readers, "unlocked", "announce_exit")
  /\ rw_readers' = CASE t \notin rw_readers -> rw_readers
                     [] kind = "uncounted"  -> {}
                     [] OTHER               -> rw_readers \ {t}
  /\ UNCHANGED <<kind, stage, concurrency_observed>>

\* while (stage < n) sched_yield()
AwaitStage(t, n, from, yield, to) ==
  /\ \/ stage < n /\ Step(t, from, yield)
     \/ stage >= n /\ Step(t, from, to)
     \/ Step(t, yield, from)
  /\ UNCHANGED <<kind, rw_readers, stage, concurrency_observed>>

SetStage(t, n, from, to) ==
  /\ Step(t, from, to)
  /\ stage' = n
  /\ UNCHANGED <<kind, rw_readers, concurrency_observed>>

-----------------------------------------------------------------------------
AAcquire  == Acquire("reader_a", "announce")
AAnnounce == SetStage("reader_a", 1, "announce", "await_b")
\* Mutant: reader A does not wait for reader B.
AAwaitBSkipped == AwaitStage("reader_a", 1, "await_b", "yield_b", "release")
AAwaitB   == AwaitStage("reader_a", 2, "await_b", "yield_b", "release")
ARelease  == Release("reader_a")
AExit     == SetStage("reader_a", 3, "announce_exit", Exited)

ReaderA == AAcquire \/ AAnnounce \/ AAwaitB \/ ARelease \/ AExit

BAwaitA    == AwaitStage("reader_b", 1, "await_a", "yield_a", "acquire")
BAcquire   == Acquire("reader_b", "look")
BLook ==
  /\ Step("reader_b", "look", "announce")
  /\ concurrency_observed' = IF stage = 1 THEN 1 ELSE concurrency_observed
  /\ UNCHANGED <<kind, rw_readers, stage>>
BAnnounce  == SetStage("reader_b", 2, "announce", "await_exit")
BAwaitExit == AwaitStage("reader_b", 3, "await_exit", "yield_exit", "release")
BRelease   == Release("reader_b")
BExit      == SetStage("reader_b", 4, "announce_exit", Exited)

ReaderB == BAwaitA \/ BAcquire \/ BLook \/ BAnnounce \/ BAwaitExit
           \/ BRelease \/ BExit

-----------------------------------------------------------------------------
Quiet == UNCHANGED <<kind, rw_readers, stage, concurrency_observed>>

MainCreateA ==
  Create("main", "create_a", "reader_a", "acquire", "create_b") /\ Quiet
MainCreateB ==
  Create("main", "create_b", "reader_b", "await_a", "join_a") /\ Quiet
MainJoinA == Join("main", "join_a", "reader_a", "join_b") /\ Quiet
MainJoinB == Join("main", "join_b", "reader_b", "check_stage") /\ Quiet
MainCheckStage ==
  /\ Assert("main", "check_stage", stage = 4, "stage", "check_concurrency")
  /\ Quiet
MainCheckConcurrency ==
  /\ Assert("main", "check_concurrency", concurrency_observed = 1,
            "concurrency", "done")
  /\ Quiet

Main == MainCreateA \/ MainCreateB \/ MainJoinA \/ MainJoinB
        \/ MainCheckStage \/ MainCheckConcurrency

Passed == pc["main"] = "done"
Stop == (Passed \/ aborted # "none") /\ UNCHANGED vars

Next == Main \/ ReaderA \/ ReaderB \/ Stop

Spec == Init /\ [][Next]_vars

\* The scheduler runs every thread that can run.
FairSpec == Spec /\ WF_vars(Main) /\ WF_vars(ReaderA) /\ WF_vars(ReaderB)
-----------------------------------------------------------------------------
(***************************************************************************)
(* Types of the variables.                                                 *)
(***************************************************************************)
TypeOK ==
  /\ pc \in [Threads -> MainLabels \cup ReaderLabels]
  /\ aborted \in {"none", "locked", "unlocked", "stage", "concurrency"}
  /\ kind \in Kinds
  /\ rw_readers \subseteq Threads
  /\ stage \in {0, 1, 2, 3, 4} /\ concurrency_observed \in {0, 1}

(***************************************************************************)
(* The table of stages at rwlock_static_init.c:25-30, as what a stage says *)
(* about a lock that counts readers:                                       *)
(* A holds it at stage 1 and no more from stage 3 on, both hold it when    *)
(* stage 2 is about to be written, nobody holds it at stage 4.             *)
(***************************************************************************)
StageTellsHolders ==
  kind = "shared" =>
    /\ stage = 1 => "reader_a" \in rw_readers
    /\ pc["reader_b"] = "announce" => {"reader_a", "reader_b"} = rw_readers
    /\ stage = 2 => "reader_b" \in rw_readers
    /\ stage = 3 => "reader_a" \notin rw_readers
    /\ stage = 4 => rw_readers = {}
=============================================================================
