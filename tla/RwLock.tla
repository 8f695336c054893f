------------------------------- MODULE RwLock -------------------------------
(***************************************************************************)
(* What the tests rely on when they call pthread_rwlock_wrlock(), _rdlock()*)
(* and _unlock(): the abstract specification of one read-write lock.       *)
(*                                                                         *)
(* The library is outside the repository.  WrLock, RdLock and Unlock say   *)
(* what each call does; Next adds the one duty of the caller, to unlock    *)
(* only what it holds, so that a program implements Spec when the lock     *)
(* excludes and the program uses it as POSIX allows.                       *)
(***************************************************************************)
CONSTANT Threads

VARIABLES
  writers,  \* the threads that hold the lock for writing
  readers   \* the threads that hold the lock for reading

Init == writers = {} /\ readers = {}

\* A writer waits until nobody holds the lock.
WrLock(t) ==
  /\ writers = {} /\ readers = {}
  /\ writers' = {t}
  /\ UNCHANGED readers

\* A reader waits only for a writer.
RdLock(t) ==
  /\ writers = {}
  /\ readers' = readers \cup {t}
  /\ UNCHANGED writers

Unlock(t) ==
  /\ writers' = writers \ {t}
  /\ readers' = readers \ {t}

Busy == writers # {} \/ readers # {}

Next == \E t \in Threads : \/ WrLock(t)
                           \/ RdLock(t)
                           \/ t \in writers \cup readers /\ Unlock(t)

Spec == Init /\ [][Next]_<<writers, readers>>

(***************************************************************************)
(* What the lock is for: a writer is alone.                                *)
(***************************************************************************)
Exclusion ==
  /\ writers \subseteq Threads /\ readers \subseteq Threads
  /\ \A s, t \in writers : s = t
  /\ writers # {} => readers = {}
=============================================================================
