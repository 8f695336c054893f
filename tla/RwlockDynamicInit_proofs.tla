---------------------- MODULE RwlockDynamicInit_proofs ----------------------
(***************************************************************************)
(* Proofs about RwlockDynamicInit, for every length of the yield loops and *)
(* for both kinds of lock.                                                 *)
(***************************************************************************)
EXTENDS RwlockDynamicInit, TLAPS

(***************************************************************************)
(* What each label says about the other threads, about who holds the lock  *)
(* and about the flags, whichever lock is under test.                      *)
(***************************************************************************)
BeforeWriter == {"wrlock", "destroy_busy", "unlock", "create_writer"}
BeforeReader == BeforeWriter \cup {"await_writer", "create_reader"}

MainInv ==
  /\ pc["main"] \in MainLabels
  /\ pc["main"] \in BeforeWriter => pc["writer"] = Unborn
  /\ pc["main"] \in BeforeReader => pc["reader"] = Unborn
  /\ pc["main"] \in {"join_reader", "check_order", "destroy", "done"}
       => pc["writer"] = Exited
  /\ pc["main"] \in {"check_order", "destroy", "done"}
       => pc["reader"] = Exited

HolderInv ==
  /\ rw_writer =
       (IF pc["main"] \in {"destroy_busy", "unlock"} THEN {"main"} ELSE {})
       \cup (IF pc["writer"] \in {"enter", "yield", "release"}
               THEN {"writer"} ELSE {})
  /\ rw_readers = IF pc["reader"] \in {"look", "enter", "yield", "release"}
                    THEN {"reader"} ELSE {}

FlagInv ==
  /\ writer_inside = IF pc["writer"] = "yield" THEN 1 ELSE 0
  /\ reader_inside = IF pc["reader"] = "yield" THEN 1 ELSE 0
  /\ aborted \in {"none", "reader_outside", "reader_after_writer"}

(***************************************************************************)
(* What a lock that excludes adds.  That the flags never overlap is not    *)
(* inductive by itself: it follows from who holds the lock at which label. *)
(***************************************************************************)
ExclusiveInv ==
  kind = "exclusive" =>
    /\ rw_writer # {} => rw_readers = {}
    /\ pc["reader"] \in {"enter", "yield", "release", Exited} =>
         reader_started_after_writer = 1
    /\ aborted # "reader_after_writer"

IInv == TypeOK /\ MainInv /\ HolderInv /\ FlagInv /\ ExclusiveInv

USE DEF Step, Assert, Create, Join, Unborn, Exited

(***************************************************************************)
(* Types of the variables are kept for ever, whichever lock is under test. *)
(***************************************************************************)
LEMMA TypeInit == Init => TypeOK
<1> SUFFICES ASSUME Init PROVE TypeOK
  OBVIOUS
<1> QED
  BY ConstantsAssumption
     DEF Init, TypeOK, Kinds, Threads, MainLabels, WorkerLabels

(***************************************************************************)
(* No statement of the three threads breaks a type.                        *)
(***************************************************************************)
LEMMA TypeStep == TypeOK /\ [Next]_vars => TypeOK'
<1> SUFFICES ASSUME TypeOK, [Next]_vars PROVE TypeOK'
  OBVIOUS
<1>0. CASE Stop \/ UNCHANGED vars
  BY <1>0 DEF Stop, vars, TypeOK
<1> USE DEF TypeOK, Threads, MainLabels, WorkerLabels, flagVars, lockVars
<1>1. CASE Main
  <2>1. CASE MainWrLock
    BY <2>1 DEF MainWrLock, Rw!WrLock
  <2>2. CASE MainDestroyBusy
    BY <2>2 DEF MainDestroyBusy
  <2>3. CASE MainUnlock
    BY <2>3 DEF MainUnlock, Rw!Unlock
  <2>4. CASE MainCreateWriter \/ MainCreateReader
    BY <2>4 DEF MainCreateWriter, MainCreateReader
  <2>5. CASE MainAwaitWriter \/ MainSpin
    BY <2>5 DEF MainAwaitWriter, MainSpin
  <2>6. CASE MainCheckReader \/ MainCheckOrder \/ MainDestroy
    BY <2>6 DEF MainCheckReader, MainCheckOrder, MainDestroy
  <2>7. CASE MainJoinWriter \/ MainJoinReader
    BY <2>7 DEF MainJoinWriter, MainJoinReader
  <2> QED
    BY <1>1, <2>1, <2>2, <2>3, <2>4, <2>5, <2>6, <2>7 DEF Main
<1>2. ASSUME NEW t \in {"writer", "reader"}, Yield(t) \/ Release(t)
      PROVE  TypeOK'
  <2>1. CASE Yield(t)
    <3>1. left[t] - 1 \in Nat
      BY <2>1 DEF Yield
    <3> QED
      BY <2>1, <3>1 DEF Yield
  <2>2. CASE Release(t)
    BY <2>2 DEF Release, Rw!Unlock
  <2> QED
    BY <1>2, <2>1, <2>2
<1>3. CASE WriterAcquire
  BY <1>3 DEF WriterAcquire, Rw!WrLock
<1>4. CASE WriterEnter \/ WriterLeave
  BY <1>4 DEF WriterEnter, WriterLeave
<1>5. CASE ReaderAcquire
  BY <1>5 DEF ReaderAcquire, RdLock, Rw!RdLock
<1>6. CASE ReaderLook
  BY <1>6 DEF ReaderLook
<1>7. CASE ReaderEnter \/ ReaderLeave
  BY <1>7 DEF ReaderEnter, ReaderLeave
<1> QED
  BY <1>0, <1>1, <1>2, <1>3, <1>4, <1>5, <1>6, <1>7 DEF Next, Writer, Reader

(***************************************************************************)
(* Every variable keeps its type, the yield loops never make more turns    *)
(* than their count (rwlock_dynamic_init.c:38, :56).                       *)
(***************************************************************************)
THEOREM TypeCorrect == Spec => []TypeOK
<1> QED
  BY TypeInit, TypeStep, PTL DEF Spec

-----------------------------------------------------------------------------
(***************************************************************************)
(* The invariant holds before the first statement of the test.             *)
(***************************************************************************)
LEMMA InitIInv == Init => IInv
<1> QED
  BY TypeInit
     DEF Init, IInv, ExclusiveInv, MainInv, HolderInv, FlagInv, BeforeWriter,
         BeforeReader, Threads, MainLabels

(***************************************************************************)
(* No statement breaks the invariant.  One step per action; each says which*)
(* label of which thread changes, and the parts follow from it.            *)
(***************************************************************************)
LEMMA NextIInv ==
  ASSUME IInv, [Next]_vars
  PROVE  IInv'
<1>t. TypeOK'
  BY TypeStep DEF IInv
<1> SUFFICES (MainInv /\ HolderInv /\ FlagInv /\ ExclusiveInv)'
  BY <1>t DEF IInv
<1>i. /\ pc \in [Threads -> MainLabels \cup WorkerLabels]
      /\ MainInv /\ HolderInv /\ FlagInv /\ ExclusiveInv
  BY DEF IInv, TypeOK
<1>0. CASE Stop \/ UNCHANGED vars
  BY <1>0, <1>i DEF Stop, vars, MainInv, HolderInv, FlagInv, ExclusiveInv
<1> USE DEF MainInv, HolderInv, FlagInv, ExclusiveInv, BeforeWriter,
            BeforeReader, Threads, MainLabels, flagVars, lockVars
<1>1. CASE MainWrLock
  BY <1>1, <1>i DEF MainWrLock, Rw!WrLock
<1>2. CASE MainDestroyBusy
  BY <1>2, <1>i DEF MainDestroyBusy, Rw!Busy
<1>3. CASE MainUnlock
  BY <1>3, <1>i DEF MainUnlock, Rw!Unlock
<1>4. CASE MainCreateWriter \/ MainCreateReader
  BY <1>4, <1>i DEF MainCreateWriter, MainCreateReader
<1>5. CASE MainAwaitWriter \/ MainSpin
  BY <1>5, <1>i DEF MainAwaitWriter, MainSpin
<1>6. CASE MainCheckReader
  BY <1>6, <1>i DEF MainCheckReader
<1>7. CASE MainJoinWriter \/ MainJoinReader
  BY <1>7, <1>i DEF MainJoinWriter, MainJoinReader
<1>8. CASE MainCheckOrder
  BY <1>8, <1>i DEF MainCheckOrder
<1>9. CASE MainDestroy
  BY <1>9, <1>i DEF MainDestroy, Rw!Busy
<1>10. CASE Yield("writer") \/ Yield("reader")
  BY <1>10, <1>i DEF Yield
<1>11. CASE Release("writer") \/ Release("reader")
  BY <1>11, <1>i DEF Release, Rw!Unlock
<1>12. CASE WriterAcquire
  BY <1>12, <1>i DEF WriterAcquire, Rw!WrLock
<1>13. CASE WriterEnter \/ WriterLeave
  BY <1>13, <1>i DEF WriterEnter, WriterLeave
<1>14. CASE ReaderAcquire
  BY <1>14, <1>i DEF ReaderAcquire, RdLock, Rw!RdLock
<1>15. CASE ReaderLook
  BY <1>15, <1>i DEF ReaderLook
<1>16. CASE ReaderEnter \/ ReaderLeave
  BY <1>16, <1>i DEF ReaderEnter, ReaderLeave
<1> QED
  BY <1>0, <1>1, <1>2, <1>3, <1>4, <1>5, <1>6, <1>7, <1>8, <1>9, <1>10,
     <1>11, <1>12, <1>13, <1>14, <1>15, <1>16 DEF Next, Main, Writer, Reader

(***************************************************************************)
(* The invariant: who holds the lock at which label, what the flags of     *)
(* rwlock_dynamic_init.c:23-25 say about it, and which assertions fail:    *)
(* with any lock only :93 and :105, with one that excludes only :93.       *)
(***************************************************************************)
THEOREM Invariant == Spec => []IInv
<1> QED
  BY InitIInv, NextIInv, PTL DEF Spec

(***************************************************************************)
(* With an exclusive lock, the loops at rwlock_dynamic_init.c:38 and :56   *)
(* never overlap, however long they are.                                   *)
(***************************************************************************)
THEOREM NeverBothInsideHolds == Spec => []NeverBothInside
<1>1. IInv => NeverBothInside
  BY DEF IInv, ExclusiveInv, HolderInv, FlagInv, NeverBothInside
<1> QED
  BY <1>1, Invariant, PTL

(***************************************************************************)
(* With an exclusive lock, only the assertion at rwlock_dynamic_init.c:93  *)
(* can fail.                                                               *)
(***************************************************************************)
THEOREM OnlySpinCheckFailsHolds == Spec => []OnlySpinCheckFails
<1>1. IInv => OnlySpinCheckFails
  BY DEF IInv, FlagInv, ExclusiveInv, OnlySpinCheckFails
<1> QED
  BY <1>1, Invariant, PTL

-----------------------------------------------------------------------------
(***************************************************************************)
(* With an exclusive lock, the critical sections of the three threads obey *)
(* module RwLock: rwlock_dynamic_init.c enters and leaves them as the      *)
(* contract of a read-write lock allows.                                   *)
(***************************************************************************)
KindInv == kind \in LockKinds

(***************************************************************************)
(* The library stays the one the behaviour started with.                   *)
(***************************************************************************)
LEMMA KindStep == KindInv /\ [Next]_vars => KindInv'
<1> QED
  BY DEF KindInv, Next, Main, MainWrLock, MainDestroyBusy, MainUnlock,
         MainCreateWriter, MainAwaitWriter, MainCreateReader, MainSpin,
         MainCheckReader, MainJoinWriter, MainJoinReader, MainCheckOrder,
         MainDestroy, Yield, Release, Writer, WriterAcquire, WriterEnter,
         WriterLeave, Reader, ReaderAcquire, ReaderLook, ReaderEnter,
         ReaderLeave, Stop, vars

(***************************************************************************)
(* Who is between the lock call and the unlock call is who holds the lock. *)
(***************************************************************************)
LEMMA SectionsAreHolders ==
  HolderInv /\ pc["main"] \in MainLabels
    => WritersInside = rw_writer /\ ReadersInside = rw_readers
<1> QED
  BY DEF HolderInv, WritersInside, ReadersInside, Threads, MainLabels

(***************************************************************************)
(* Every statement is one step of the contract of the lock, or none.       *)
(***************************************************************************)
LEMMA LockStep ==
  ASSUME LockKinds = {"exclusive"}, KindInv, IInv, IInv', [Next]_vars
  PROVE  [Sections!Next]_<<WritersInside, ReadersInside>>
<1>1. kind = "exclusive" /\ kind' = "exclusive"
  BY KindStep DEF KindInv
<1>2. HolderInv /\ HolderInv' /\ MainInv /\ MainInv'
  BY DEF IInv
<1>3. /\ WritersInside = rw_writer /\ ReadersInside = rw_readers
      /\ WritersInside' = rw_writer' /\ ReadersInside' = rw_readers'
  BY <1>2, SectionsAreHolders
     DEF MainInv, HolderInv, WritersInside, ReadersInside, Threads, MainLabels
<1>4. CASE MainWrLock \/ WriterAcquire
  BY <1>3, <1>4 DEF MainWrLock, WriterAcquire, Threads, Rw!WrLock,
                    Sections!WrLock, Sections!Next
<1>5. CASE ReaderAcquire
  BY <1>1, <1>3, <1>5 DEF ReaderAcquire, RdLock, Threads, Rw!RdLock,
                          Sections!RdLock, Sections!Next
<1>6. CASE MainUnlock
  BY <1>2, <1>3, <1>6 DEF MainUnlock, HolderInv, Threads, Rw!Unlock,
                          Sections!Unlock, Sections!Next
<1>7. ASSUME NEW t \in {"writer", "reader"}, Release(t)
      PROVE  [Sections!Next]_<<WritersInside, ReadersInside>>
  <2>1. t \in rw_writer \cup rw_readers
    BY <1>2, <1>7 DEF Release, HolderInv
  <2> QED
    BY <1>3, <1>7, <2>1 DEF Release, Threads, Rw!Unlock, Sections!Unlock,
                            Sections!Next
<1>8. CASE UNCHANGED lockVars \/ UNCHANGED vars
  BY <1>3, <1>8 DEF lockVars, vars
<1> QED
  BY <1>4, <1>5, <1>6, <1>7, <1>8
     DEF Next, Main, MainDestroyBusy, MainCreateWriter, MainAwaitWriter,
         MainCreateReader, MainSpin, MainCheckReader, MainJoinWriter,
         MainJoinReader, MainCheckOrder, MainDestroy, Yield, Writer,
         WriterEnter, WriterLeave, Reader, ReaderLook, ReaderEnter,
         ReaderLeave, Stop

(***************************************************************************)
(* With a lock that excludes, the critical sections of the test are those  *)
(* of module RwLock.                                                       *)
(***************************************************************************)
THEOREM RefinesRwLock ==
  ASSUME LockKinds = {"exclusive"}
  PROVE  Spec => ImplementsRwLock
<1>1. Init => Sections!Init /\ KindInv
  BY DEF Init, Sections!Init, KindInv, WritersInside, ReadersInside, Threads
<1>2. KindInv /\ IInv /\ IInv' /\ [Next]_vars
        => [Sections!Next]_<<WritersInside, ReadersInside>>
  BY LockStep
<1>3. Spec => []KindInv
  BY <1>1, KindStep, PTL DEF Spec
<1> QED
  BY <1>1, <1>2, <1>3, Invariant, PTL
     DEF Spec, ImplementsRwLock, Sections!Spec

(***************************************************************************)
(* The contract keeps a writer alone.  The proof uses nothing of the       *)
(* threads or of the sections: it is one about module RwLock.              *)
(***************************************************************************)
LEMMA ContractExcludes == Sections!Spec => []Sections!Exclusion
<1>1. Sections!Init => Sections!Exclusion
  BY DEF Sections!Init, Sections!Exclusion
<1>2. ASSUME Sections!Exclusion, [Sections!Next]_<<WritersInside, ReadersInside>>
      PROVE  Sections!Exclusion'
  <2>1. ASSUME NEW t \in Threads, Sections!WrLock(t)
        PROVE  Sections!Exclusion'
    BY <2>1 DEF Sections!WrLock, Sections!Exclusion
  <2>2. ASSUME NEW t \in Threads, Sections!RdLock(t)
        PROVE  Sections!Exclusion'
    BY <1>2, <2>2 DEF Sections!RdLock, Sections!Exclusion
  <2>3. ASSUME NEW t \in Threads, Sections!Unlock(t)
        PROVE  Sections!Exclusion'
    BY <1>2, <2>3 DEF Sections!Unlock, Sections!Exclusion
  <2>4. CASE UNCHANGED <<WritersInside, ReadersInside>>
    BY <1>2, <2>4 DEF Sections!Exclusion
  <2> QED
    BY <1>2, <2>1, <2>2, <2>3, <2>4 DEF Sections!Next
<1> QED
  BY <1>1, <1>2, PTL DEF Sections!Spec

(***************************************************************************)
(* So the writer of rwlock_dynamic_init.c:36-42, and main at :73-76, have  *)
(* the lock to themselves from the lock call to the unlock call.           *)
(***************************************************************************)
THEOREM SectionsExclude ==
  ASSUME LockKinds = {"exclusive"}
  PROVE  Spec => []Sections!Exclusion
<1> QED
  BY RefinesRwLock, ContractExcludes, PTL DEF ImplementsRwLock
=============================================================================
