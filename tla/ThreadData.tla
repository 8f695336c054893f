----------------------------- MODULE ThreadData -----------------------------
(***************************************************************************)
(* The two tests of per-thread data of thread-c: keys of the library       *)
(* (src/thread-c/tda.c) and _Thread_local variables                        *)
(* (src/thread-c/thread_local.c).  In each, main stores a value of its     *)
(* own, a worker stores another under the same name, and main looks again  *)
(* after the worker is gone.                                               *)
(***************************************************************************)
EXTENDS TestProcess

(***************************************************************************)
(* The library under test.  POSIX gives every thread a "private" place     *)
(* that is empty at first.  A "shared" place is the same for all threads,  *)
(* a "dirty" one is not cleared for a new thread, an "inherited" one       *)
(* starts with a copy of the creator's.                                    *)
(***************************************************************************)
Kinds == {"private", "shared", "dirty", "inherited"}

VARIABLES
  kind,   \* the library of this behaviour, never changes
  store   \* name -> thread -> what its place holds

vars == <<pc, aborted, kind, store>>

Threads == {"main", "key_worker", "local_worker"}

\* The key of tda.c, and the two variables of thread_local.c.
Names == {"key", "thread_local_var", "thread_local_zero_init_var"}
Values == {"zero", "main", "worker", "garbage"}

Labels ==
  {Unborn, Exited, "set_key", "get_key", "create_key", "join_key", "check_key",
   "zero", "set_var", "get_var", "create_var", "join_var", "check_var", "done"}

Init ==
  /\ pc = [t \in Threads |-> IF t = "main" THEN "set_key" ELSE Unborn]
  /\ aborted = "none"
  /\ kind \in Kinds
  /\ store = [x \in Names |-> [t \in Threads |-> "zero"]]

-----------------------------------------------------------------------------
Place(t) == IF kind = "shared" THEN "main" ELSE t

Set(t, from, name, value, to) ==
  /\ Step(t, from, to)
  /\ store' = [store EXCEPT ![name][Place(t)] = value]
  /\ UNCHANGED kind

\* assert(<what the place holds> == value)
Check(t, from, name, value, to) ==
  /\ Assert(t, from, store[name][Place(t)] = value, name, to)
  /\ UNCHANGED <<kind, store>>

\* What a new thread finds in its place.
Found(name) ==
  CASE kind = "dirty"     -> "garbage"
    [] kind = "inherited" -> store[name]["main"]
    [] OTHER              -> "zero"

Born(from, child, first, to) ==
  /\ Create("main", from, child, first, to)
  /\ store' = [x \in Names |-> [store[x] EXCEPT ![child] = Found(x)]]
  /\ UNCHANGED kind

Gone(from, child, to) ==
  /\ Join("main", from, child, to)
  /\ UNCHANGED <<kind, store>>

-----------------------------------------------------------------------------
(***************************************************************************)
(* tda.c, between the pthread_key_create() and pthread_key_delete() that   *)
(* frame it, which nothing depends on.                                     *)
(***************************************************************************)
KeyMain ==
  \/ Set("main", "set_key", "key", "main", "get_key")
  \/ Check("main", "get_key", "key", "main", "create_key")
  \/ Born("create_key", "key_worker", "set_key", "join_key")
  \/ Gone("join_key", "key_worker", "check_key")
  \/ Check("main", "check_key", "key", "main", "zero")

KeyWorker ==
  \/ Set("key_worker", "set_key", "key", "worker", "get_key")
  \/ Check("key_worker", "get_key", "key", "worker", Exited)

(***************************************************************************)
(* thread_local.c                                                          *)
(***************************************************************************)
LocalMain ==
  \/ Check("main", "zero", "thread_local_zero_init_var", "zero", "set_var")
  \/ Set("main", "set_var", "thread_local_var", "main", "get_var")
  \/ Check("main", "get_var", "thread_local_var", "main", "create_var")
  \/ Born("create_var", "local_worker", "zero", "join_var")
  \/ Gone("join_var", "local_worker", "check_var")
  \/ Check("main", "check_var", "thread_local_var", "main", "done")

LocalWorker ==
  \/ Check("local_worker", "zero", "thread_local_zero_init_var", "zero",
           "set_var")
  \/ Set("local_worker", "set_var", "thread_local_var", "worker", "get_var")
  \/ Check("local_worker", "get_var", "thread_local_var", "worker", Exited)

Main == KeyMain \/ LocalMain
Workers == KeyWorker \/ LocalWorker
Passed == pc["main"] = "done"

TypeOK ==
  /\ pc \in [Threads -> Labels]
  /\ aborted \in {"none"} \cup Names
  /\ kind \in Kinds
  /\ store \in [Names -> [Threads -> Values]]
=============================================================================
