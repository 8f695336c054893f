------------------------- MODULE RwlockDynamicInit -------------------------
(***************************************************************************)
(* The test of dynamically initialised read-write locks,                   *)
(* src/thread-c/rwlock_dynamic_init.c: a writer thread takes the lock and  *)
(* raises a flag while it is inside, the main thread waits to see the flag *)
(* and then creates a reader that has to stay out until the writer leaves. *)
(*                                                                         *)
(* Every step is one access to a shared variable or one library call.      *)
(***************************************************************************)
EXTENDS TestProcess

CONSTANTS
  WriterYields,  \* sched_yield() calls of the writer inside the lock (4000)
  ReaderYields,  \* sched_yield() calls of the reader inside the lock (2000)
  LockKinds      \* the libraries considered, see Kinds

(***************************************************************************)
(* The lock under test.  An "exclusive" one is what POSIX asks for; a      *)
(* "leaky" one lets a reader in whoever holds the lock.                    *)
(***************************************************************************)
Kinds == {"exclusive", "leaky"}

ASSUME ConstantsAssumption ==
  /\ WriterYields \in Nat
  /\ ReaderYields \in Nat
  /\ LockKinds \subseteq Kinds

VARIABLES
  kind,          \* the library of this behaviour, never changes
  rw_writer,     \* the threads that hold the lock for writing
  rw_readers,    \* the threads that hold the lock for reading
  writer_inside, reader_inside, reader_started_after_writer,
  left           \* thread -> sched_yield() calls of its loop still to make

vars == <<pc, aborted, kind, rw_writer, rw_readers, writer_inside,
          reader_inside, reader_started_after_writer, left>>

lockVars == <<rw_writer, rw_readers>>
flagVars == <<writer_inside, reader_inside, reader_started_after_writer>>

Threads == {"main", "writer", "reader"}

MainLabels ==
  {"wrlock", "destroy_busy", "unlock", "create_writer", "await_writer",
   "create_reader", "spin", "check_reader", "join_writer", "join_reader",
   "check_order", "destroy", "done"}
WorkerLabels ==
  {Unborn, Exited, "acquire", "look", "enter", "yield", "release"}

Init ==
  /\ pc = [t \in Threads |-> IF t = "main" THEN "wrlock" ELSE Unborn]
  /\ aborted = "none"
  /\ kind \in LockKinds
  /\ rw_writer = {} /\ rw_readers = {}
  /\ writer_inside = 0 /\ reader_inside = 0
  /\ reader_started_after_writer = 0
  /\ left = [t \in Threads |-> IF t = "writer" THEN WriterYields
                               ELSE IF t = "reader" THEN ReaderYields ELSE 0]

-----------------------------------------------------------------------------
(***************************************************************************)
(* The read-write lock under test.  The leaky one differs in rdlock only.  *)
(***************************************************************************)
Rw == INSTANCE RwLock WITH writers <- rw_writer, readers <- rw_readers

RdLock(t) ==
  \/ Rw!RdLock(t)
  \/ /\ kind = "leaky"
     /\ rw_readers' = rw_readers \cup {t}
     /\ UNCHANGED rw_writer

-----------------------------------------------------------------------------
(***************************************************************************)
(* The main thread.                                                        *)
(***************************************************************************)
MainWrLock ==
  /\ Step("main", "wrlock", "destroy_busy")
  /\ Rw!WrLock("main")
  /\ UNCHANGED <<kind, left, flagVars>>

\* Destroying a lock somebody holds has to fail.
MainDestroyBusy ==
  /\ Assert("main", "destroy_busy", Rw!Busy, "destroy_refused", "unlock")
  /\ UNCHANGED <<kind, left, flagVars, lockVars>>

MainUnlock ==
  /\ Step("main", "unlock", "create_writer")
  /\ Rw!Unlock("main")
  /\ UNCHANGED <<kind, left, flagVars>>

MainCreateWriter ==
  /\ Create("main", "create_writer", "writer", "acquire", "await_writer")
  /\ UNCHANGED <<kind, left, flagVars, lockVars>>

\* One evaluation of the condition of while (!writer_inside).
MainAwaitWriter ==
  /\ Step("main", "await_writer",
          IF writer_inside = 0 THEN "await_writer" ELSE "create_reader")
  /\ UNCHANGED <<kind, left, flagVars, lockVars>>

MainCreateReader ==
  /\ Create("main", "create_reader", "reader", "acquire", "spin")
  /\ UNCHANGED <<kind, left, flagVars, lockVars>>

\* One evaluation of the condition of while (writer_inside).
MainSpin ==
  /\ Step("main", "spin",
          IF writer_inside = 0 THEN "join_writer" ELSE "check_reader")
  /\ UNCHANGED <<kind, left, flagVars, lockVars>>

MainCheckReader ==
  /\ Assert("main", "check_reader", reader_inside = 0,
            "reader_outside", "spin")
  /\ UNCHANGED <<kind, left, flagVars, lockVars>>

MainJoinWriter ==
  /\ Join("main", "join_writer", "writer", "join_reader")
  /\ UNCHANGED <<kind, left, flagVars, lockVars>>

\* Mutant: main does not wait for the reader.
MainJoinReaderSkipped ==
  /\ Step("main", "join_reader", "check_order")
  /\ UNCHANGED <<kind, left, flagVars, lockVars>>

MainJoinReader ==
  /\ Join("main", "join_reader", "reader", "check_order")
  /\ UNCHANGED <<kind, left, flagVars, lockVars>>

\* Mutant: the order of the threads is not checked.
MainCheckOrderSkipped ==
  /\ Step("main", "check_order", "destroy")
  /\ UNCHANGED <<kind, left, flagVars, lockVars>>

MainCheckOrder ==
  /\ Assert("main", "check_order", reader_started_after_writer = 1,
            "reader_after_writer", "destroy")
  /\ UNCHANGED <<kind, left, flagVars, lockVars>>

MainDestroy ==
  /\ Assert("main", "destroy", ~Rw!Busy, "destroyed", "done")
  /\ UNCHANGED <<kind, left, flagVars, lockVars>>

Main ==
  \/ MainWrLock \/ MainDestroyBusy \/ MainUnlock
  \/ MainCreateWriter \/ MainAwaitWriter \/ MainCreateReader
  \/ MainSpin \/ MainCheckReader
  \/ MainJoinWriter \/ MainJoinReader \/ MainCheckOrder \/ MainDestroy

-----------------------------------------------------------------------------
\* Mutant: the loop does not count.
YieldUncounted(t) ==
  /\ Step(t, "yield", "yield")
  /\ left' = [left EXCEPT ![t] = @ - 1]
  /\ UNCHANGED <<kind, flagVars, lockVars>>

(***************************************************************************)
(* One sched_yield() of the loop that keeps thread t inside the lock.      *)
(***************************************************************************)
Yield(t) ==
  /\ left[t] > 0
  /\ Step(t, "yield", "yield")
  /\ left' = [left EXCEPT ![t] = @ - 1]
  /\ UNCHANGED <<kind, flagVars, lockVars>>

\* Mutant: the thread exits with the lock held.
ReleaseForgotten(t) ==
  /\ Step(t, "release", Exited)
  /\ UNCHANGED <<kind, left, flagVars, lockVars>>

Release(t) ==
  /\ Step(t, "release", Exited)
  /\ Rw!Unlock(t)
  /\ UNCHANGED <<kind, left, flagVars>>

(***************************************************************************)
(* The writer thread.                                                      *)
(***************************************************************************)
WriterAcquire ==
  /\ Step("writer", "acquire", "enter")
  /\ Rw!WrLock("writer")
  /\ UNCHANGED <<kind, left, flagVars>>

WriterEnter ==
  /\ Step("writer", "enter", "yield")
  /\ writer_inside' = 1
  /\ UNCHANGED <<kind, left, lockVars, reader_inside,
                 reader_started_after_writer>>

WriterLeave ==
  /\ left["writer"] = 0
  /\ Step("writer", "yield", "release")
  /\ writer_inside' = 0
  /\ UNCHANGED <<kind, left, lockVars, reader_inside,
                 reader_started_after_writer>>

Writer == WriterAcquire \/ WriterEnter \/ Yield("writer") \/ WriterLeave
          \/ Release("writer")

(***************************************************************************)
(* The reader thread.                                                      *)
(***************************************************************************)
\* Mutant: the reader goes on without the lock.
ReaderAcquireSkipped ==
  /\ Step("reader", "acquire", "look")
  /\ UNCHANGED <<kind, left, flagVars, lockVars>>

ReaderAcquire ==
  /\ Step("reader", "acquire", "look")
  /\ RdLock("reader")
  /\ UNCHANGED <<kind, left, flagVars>>

ReaderLook ==
  /\ Step("reader", "look", "enter")
  /\ reader_started_after_writer' =
       IF writer_inside = 0 THEN 1 ELSE reader_started_after_writer
  /\ UNCHANGED <<kind, left, lockVars, writer_inside, reader_inside>>

ReaderEnter ==
  /\ Step("reader", "enter", "yield")
  /\ reader_inside' = 1
  /\ UNCHANGED <<kind, left, lockVars, writer_inside,
                 reader_started_after_writer>>

ReaderLeave ==
  /\ left["reader"] = 0
  /\ Step("reader", "yield", "release")
  /\ reader_inside' = 0
  /\ UNCHANGED <<kind, left, lockVars, writer_inside,
                 reader_started_after_writer>>

Reader == ReaderAcquire \/ ReaderLook \/ ReaderEnter \/ Yield("reader")
          \/ ReaderLeave \/ Release("reader")

-----------------------------------------------------------------------------
Passed == pc["main"] = "done"
Ended == Passed \/ aborted # "none"

\* The process has nothing left to do.
Stop == Ended /\ UNCHANGED vars

Next == Main \/ Writer \/ Reader \/ Stop

Spec == Init /\ [][Next]_vars

(***************************************************************************)
(* The scheduler runs every thread that can run, nothing more: how often   *)
(* the others run in the meantime is left open, as sched_yield() leaves it.*)
(***************************************************************************)
FairSpec == Spec /\ WF_vars(Main) /\ WF_vars(Writer) /\ WF_vars(Reader)

-----------------------------------------------------------------------------
(***************************************************************************)
(* Types of the variables; in particular each yield loop stays within its  *)
(* count.                                                                  *)
(***************************************************************************)
TypeOK ==
  /\ pc \in [Threads -> MainLabels \cup WorkerLabels]
  /\ aborted \in {"none", "destroy_refused", "reader_outside",
                  "reader_after_writer", "destroyed"}
  /\ kind \in Kinds
  /\ rw_writer \subseteq Threads /\ rw_readers \subseteq Threads
  /\ writer_inside \in {0, 1} /\ reader_inside \in {0, 1}
  /\ reader_started_after_writer \in {0, 1}
  /\ left \in [Threads -> Nat]

(***************************************************************************)
(* With an exclusive lock the two flags are never up at the same time: the *)
(* loops at rwlock_dynamic_init.c:38 and :56 never overlap.                *)
(***************************************************************************)
NeverBothInside ==
  kind = "exclusive" => ~(writer_inside = 1 /\ reader_inside = 1)

(***************************************************************************)
(* With an exclusive lock, three of the four assertions about the lock can *)
(* never fail, whatever the schedule: destroying the held lock fails       *)
(* (:75), the reader saw the writer gone (:105), and the final destroy     *)
(* finds the lock free (:108).                                             *)
(***************************************************************************)
OnlySpinCheckFails ==
  kind = "exclusive" => aborted \in {"none", "reader_outside"}

(***************************************************************************)
(* The comment at :91, "While writer is inside, reader must not have       *)
(* entered", as the assertion at :93 puts it: it never fails with a lock   *)
(* that excludes.  It does fail: the writer may leave, and the reader      *)
(* enter, between the two reads of the loop.                               *)
(***************************************************************************)
SpinCheckHolds == aborted # "reader_outside"

(***************************************************************************)
(* Once main has seen the writer inside, the test comes to an end.         *)
(***************************************************************************)
EndsOnceWriterSeen == (pc["main"] = "create_reader") ~> Ended

(***************************************************************************)
(* A reader that still finds the writer's flag up at :52 has caught the    *)
(* lock leaking, and the test reports it: one of its assertions fails.     *)
(***************************************************************************)
CaughtInTheAct ==
  (pc["reader"] = "enter" /\ reader_started_after_writer = 0)
    ~> (aborted # "none")

(***************************************************************************)
(* The critical sections, told from what each thread is about to do: it is *)
(* inside from the return of the lock call to the unlock call.  They obey  *)
(* module RwLock: the sections of :73-76, :36-42 and :50-60 are entered    *)
(* and left as the exclusion the test is named for allows.                 *)
(***************************************************************************)
WritersInside ==
  {t \in Threads : \/ t = "main" /\ pc[t] \in {"destroy_busy", "unlock"}
                   \/ t = "writer" /\ pc[t] \in {"enter", "yield", "release"}}
ReadersInside ==
  {t \in Threads :
     t = "reader" /\ pc[t] \in {"look", "enter", "yield", "release"}}

Sections == INSTANCE RwLock WITH writers <- WritersInside,
                                 readers <- ReadersInside

ImplementsRwLock == Sections!Spec
=============================================================================
