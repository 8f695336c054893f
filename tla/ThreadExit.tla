----------------------------- MODULE ThreadExit -----------------------------
(***************************************************************************)
(* The last test of thread-c, src/thread-c/nowait.c: main leaves behind a  *)
(* worker that waits for a mutex nobody will give back, and returns.  That *)
(* the process ends all the same is for main() to see, in ThreadSuite.     *)
(***************************************************************************)
EXTENDS TestProcess

VARIABLES
  dead_mutex_main_thread, dead_mutex_worker_thread  \* the holder, or "none"

vars == <<pc, aborted, dead_mutex_main_thread, dead_mutex_worker_thread>>

Threads == {"main", "worker"}
Labels == {Unborn, Exited, "hold", "create", "done", "lock_own", "lock_main"}

Init ==
  /\ pc = [t \in Threads |-> IF t = "main" THEN "hold" ELSE Unborn]
  /\ aborted = "none"
  /\ dead_mutex_main_thread = "none" /\ dead_mutex_worker_thread = "none"

MainHold ==
  /\ dead_mutex_main_thread = "none"
  /\ Step("main", "hold", "create")
  /\ dead_mutex_main_thread' = "main"
  /\ UNCHANGED dead_mutex_worker_thread

MainCreate ==
  /\ Create("main", "create", "worker", "lock_own", "done")
  /\ UNCHANGED <<dead_mutex_main_thread, dead_mutex_worker_thread>>

Main == MainHold \/ MainCreate

WorkerLockOwn ==
  /\ dead_mutex_worker_thread = "none"
  /\ Step("worker", "lock_own", "lock_main")
  /\ dead_mutex_worker_thread' = "worker"
  /\ UNCHANGED dead_mutex_main_thread

\* It now waits for dead_mutex_main_thread, which stays with main.
Worker == WorkerLockOwn

Passed == pc["main"] = "done"

TypeOK ==
  /\ pc \in [Threads -> Labels]
  /\ dead_mutex_main_thread \in Threads \cup {"none"}
  /\ dead_mutex_worker_thread \in Threads \cup {"none"}
=============================================================================
