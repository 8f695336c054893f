---------------------------- MODULE TestProcess ----------------------------
(***************************************************************************)
(* What every multi-threaded test of the suites has in common: a program   *)
(* counter per thread, assert(), and the thread calls of the POSIX library.*)
(*                                                                         *)
(* The library and the C runtime are outside the repository: the operators *)
(* below say what the tests rely on when they call them.                   *)
(***************************************************************************)
EXTENDS Naturals

VARIABLES
  pc,       \* thread -> label of the statement it runs next
  aborted   \* "none", or the assertion that ended the process

(***************************************************************************)
(* A thread that was never created, and one whose start routine returned.  *)
(***************************************************************************)
Unborn == "unborn"
Exited == "exited"

(***************************************************************************)
(* Thread t runs the statement labelled from and goes to the one labelled  *)
(* to.  A failed assertion stops every thread of the process.              *)
(***************************************************************************)
Step(t, from, to) ==
  /\ aborted = "none"
  /\ pc[t] = from
  /\ pc' = [pc EXCEPT ![t] = to]
  /\ UNCHANGED aborted

(***************************************************************************)
(* assert(ok): go on, or end the whole process.                            *)
(***************************************************************************)
Assert(t, from, ok, name, to) ==
  \/ ok /\ Step(t, from, to)
  \/ /\ ~ok
     /\ aborted = "none"
     /\ pc[t] = from
     /\ aborted' = name
     /\ UNCHANGED pc

(***************************************************************************)
(* pthread_create(): the new thread starts at the statement labelled first.*)
(***************************************************************************)
Create(t, from, child, first, to) ==
  /\ aborted = "none"
  /\ pc[t] = from
  /\ pc[child] = Unborn
  /\ pc' = [pc EXCEPT ![t] = to, ![child] = first]
  /\ UNCHANGED aborted

(***************************************************************************)
(* pthread_join(): blocks until the start routine of the thread returned.  *)
(***************************************************************************)
Join(t, from, child, to) ==
  /\ pc[child] = Exited
  /\ Step(t, from, to)
=============================================================================
