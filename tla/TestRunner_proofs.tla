------------------------- MODULE TestRunner_proofs -------------------------
(***************************************************************************)
(* Proofs about TestRunner, for any suites, any number of runs and stops,  *)
(* with and without a disk that fails.                                     *)
(***************************************************************************)
EXTENDS TestRunner, TLAPS

(***************************************************************************)
(* What a turn knows of the file at the repository root, statement by      *)
(* statement.  copied_elf is the heart of it: it says that the file is the *)
(* runner's copy, so the finally clause may remove it.                     *)
(***************************************************************************)
CopyInv ==
  /\ pc = "copy" => root[suite] = "none"
  /\ pc = "copying" => root[suite] = "partial"
  /\ pc = "copied" => root[suite] = built[suite]
  /\ pc = "initrd" => root[suite] = built[suite]
  /\ pc \in Trying => built[suite] \in Builds
  /\ copied_elf => /\ pc \in {"initrd", "made", "libs", "mkramfs", "nanvixd", "ok",
                              "finally", "unlink_elf"}
                   /\ root[suite] \in Builds

(***************************************************************************)
(* Which binary the image of this turn holds, and what was reported so far.*)
(***************************************************************************)
ImageInv ==
  /\ pc = "idle" => passed = {}
  /\ mode = "standalone" /\ pc \in {"made", "libs", "mkramfs", "nanvixd"}
       => ran[suite] = built[suite]
  /\ pc = "ok" => ran[suite] = built[suite]
  /\ TestedInRun

USE DEF disk, turn, report, bounds, Trying, Labels

(***************************************************************************)
(* The types hold before the first run.                                    *)
(***************************************************************************)
LEMMA TypeInit == Init => TypeOK
<1> SUFFICES ASSUME Init PROVE TypeOK
  OBVIOUS
<1>1. NoFiles \in [Suites -> RootContents]
  BY DEF NoFiles, RootContents
<1>2. before \in [Suites -> RootContents] \X SUBSET Suites
  BY <1>1 DEF Init
<1>3. lib \in [Suites -> BOOLEAN]
  BY ZenonT(30) DEF Init
<1> QED
  BY <1>1, <1>2, <1>3 DEF Init, TypeOK, Builds

(***************************************************************************)
(* What every move of the runner that touches no file does.                *)
(***************************************************************************)
LEMMA TypeMove ==
  ASSUME TypeOK,
         NEW from \in Trying, NEW to \in Trying,
         Go(from, to) \/ Fail(from) \/ Raise(from)
  PROVE  TypeOK'
<1>1. suite \in Suites
  BY DEF TypeOK, Go, Fail, Raise
<1> QED
  BY <1>1 DEF TypeOK, Go, Fail, Raise

(***************************************************************************)
(* The end of a turn or of a run forgets the turn.                         *)
(***************************************************************************)
LEMMA TypeEnd ==
  ASSUME TypeOK,
         \/ EndTurn
         \/ \E v \in {"passed", "failed", "error"} : EndRun(v),
         root' \in [Suites -> RootContents],
         UNCHANGED <<built, lib, initrds, mode, runs>>, stops' \in Nat
  PROVE  TypeOK'
<1>1. NoFiles \in [Suites -> RootContents]
  BY DEF NoFiles, RootContents
<1>2. <<NoFiles, {}>> \in [Suites -> RootContents] \X SUBSET Suites
  BY <1>1
<1>3. CASE EndTurn
  BY <1>3 DEF TypeOK, EndTurn, ForgetTurn
<1>4. ASSUME NEW v \in {"passed", "failed", "error"}, EndRun(v) PROVE TypeOK'
  BY <1>1, <1>2, <1>4 DEF TypeOK, EndRun, ForgetTurn
<1> QED
  BY <1>3, <1>4

(***************************************************************************)
(* No statement of a run, no stop and nothing between two runs breaks a    *)
(* type.                                                                   *)
(***************************************************************************)
LEMMA TypeStep == TypeOK /\ [Next]_vars => TypeOK'
<1> SUFFICES ASSUME TypeOK, [Next]_vars PROVE TypeOK'
  OBVIOUS
<1>1. ASSUME NEW s \in Suites, Build(s) \/ LoseLibrary(s) \/ UserPuts(s)
      PROVE  TypeOK'
  BY <1>1 DEF TypeOK, Build, LoseLibrary, UserPuts, Builds, RootContents
<1>2. ASSUME NEW m \in {"standalone", "other"}, Start(m) PROVE TypeOK'
  BY <1>2 DEF TypeOK, Start, Suites
<1>3. ASSUME NEW s \in Suites, Skip(s) \/ Turn(s) PROVE TypeOK'
  BY <1>3 DEF TypeOK, Skip, Turn
<1>4. CASE Exists
  BY <1>4, TypeMove DEF Exists
<1>5. CASE CopyBegins
  BY <1>5 DEF TypeOK, CopyBegins, RootContents
<1>6. CASE CopyEnds
  <2>1. CASE DiskFails /\ Raise("copying")
    BY <2>1, TypeMove
  <2>2. CASE ~(DiskFails /\ Raise("copying"))
    BY <1>6, <2>2 DEF TypeOK, CopyEnds, RootContents
  <2> QED
    BY <2>1, <2>2
<1>7. CASE Copied
  BY <1>7 DEF TypeOK, Copied
<1>8. CASE MakeInitrd
  <2>1. CASE Fail("initrd") \/ Raise("initrd")
    BY <2>1, TypeMove
  <2>2. CASE ~(Fail("initrd") \/ Raise("initrd"))
    BY <1>8, <2>2 DEF TypeOK, MakeInitrd
  <2> QED
    BY <2>1, <2>2
<1>9. CASE Libraries \/ Mkramfs
  BY <1>9, TypeMove DEF Libraries, Mkramfs
<1>18. CASE InitrdMade
  BY <1>18 DEF TypeOK, InitrdMade
<1>10. CASE Nanvixd
  <2>1. CASE Fail("nanvixd")
    BY <2>1, TypeMove
  <2>2. CASE ~Fail("nanvixd")
    BY <1>10, <2>2 DEF TypeOK, Nanvixd, RootContents
  <2> QED
    BY <2>1, <2>2
<1>11. CASE PrintOk
  BY <1>11 DEF TypeOK, PrintOk
<1>12. CASE FinallyInitrd
  BY <1>12 DEF TypeOK, FinallyInitrd
<1>13. CASE FinallyElf
  <2>1. root' \in [Suites -> RootContents]
    BY <1>13 DEF TypeOK, FinallyElf, RootContents
  <2> QED
    BY <1>13, <2>1, TypeEnd DEF FinallyElf, TypeOK
<1>14. CASE Finish
  BY <1>14, TypeEnd DEF Finish, TypeOK
<1>15. CASE Interrupt
  BY <1>15 DEF TypeOK, Interrupt
<1>16. CASE Kill
  BY <1>16, TypeEnd DEF Kill, TypeOK
<1>17. CASE UNCHANGED vars
  BY <1>17 DEF vars, TypeOK
<1> QED
  BY <1>1, <1>2, <1>3, <1>4, <1>5, <1>6, <1>7, <1>8, <1>9, <1>10, <1>11,
     <1>12, <1>13, <1>14, <1>15, <1>16, <1>17, <1>18 DEF Next, Runner, Stop

(***************************************************************************)
(* The variables of the runner have their types in every state.            *)
(***************************************************************************)
THEOREM TypeCorrect == Spec => []TypeOK
BY TypeInit, TypeStep, PTL DEF Spec

(***************************************************************************)
(* A copy is begun only where exists() found nothing (z.py:536), and       *)
(* copied_elf is set only once the copy is complete (z.py:541).            *)
(***************************************************************************)
LEMMA CopyStep == TypeOK /\ CopyInv /\ [Next]_vars => CopyInv'
<1> SUFFICES ASSUME TypeOK, CopyInv, [Next]_vars PROVE CopyInv'
  OBVIOUS
<1>1. ASSUME NEW s \in Suites, Build(s) \/ LoseLibrary(s) \/ UserPuts(s)
      PROVE  CopyInv'
  BY <1>1 DEF CopyInv, Build, LoseLibrary, UserPuts
<1>2. ASSUME NEW m \in {"standalone", "other"}, Start(m) PROVE CopyInv'
  BY <1>2 DEF CopyInv, Start
<1>3. ASSUME NEW s \in Suites, Skip(s) PROVE CopyInv'
  BY <1>3 DEF CopyInv, Skip
<1>4. ASSUME NEW s \in Suites, Turn(s) PROVE CopyInv'
  BY <1>4 DEF CopyInv, Turn, TypeOK
<1>5. ASSUME NEW from \in Trying, NEW to \in {"mkramfs", "nanvixd"},
             Go(from, to), from \notin {"copy", "copying", "copied"}
      PROVE  CopyInv'
  BY <1>5 DEF CopyInv, Go
<1>6. ASSUME NEW from \in Trying, Fail(from) \/ Raise(from) PROVE CopyInv'
  BY <1>6 DEF CopyInv, Fail, Raise
<1>7. CASE Exists
  BY <1>6, <1>7 DEF CopyInv, Exists, Go
<1>8. CASE CopyBegins
  BY <1>8 DEF CopyInv, CopyBegins, TypeOK
<1>9. CASE CopyEnds
  <2>1. CASE ~(DiskFails /\ Raise("copying"))
    BY <1>9, <2>1 DEF CopyInv, CopyEnds, TypeOK
  <2> QED
    BY <1>6, <2>1
<1>10. CASE Copied
  BY <1>10 DEF CopyInv, Copied
<1>11. CASE MakeInitrd
  <2>1. CASE ~(Fail("initrd") \/ Raise("initrd"))
    BY <1>11, <2>1 DEF CopyInv, MakeInitrd
  <2> QED
    BY <1>6, <2>1
<1>12. CASE Libraries \/ Mkramfs
  BY <1>5, <1>6, <1>12 DEF Libraries, Mkramfs
<1>19. CASE InitrdMade
  BY <1>19 DEF CopyInv, InitrdMade
<1>13. CASE Nanvixd
  <2>1. CASE ~Fail("nanvixd")
    BY <1>13, <2>1 DEF CopyInv, Nanvixd
  <2> QED
    BY <1>6, <2>1
<1>14. CASE PrintOk \/ FinallyInitrd
  BY <1>14 DEF CopyInv, PrintOk, FinallyInitrd
<1>15. ASSUME \/ EndTurn
              \/ \E v \in {"passed", "failed", "error"} : EndRun(v)
       PROVE  CopyInv'
  BY <1>15 DEF CopyInv, EndTurn, EndRun, ForgetTurn
<1>16. CASE FinallyElf \/ Finish \/ Kill
  BY <1>15, <1>16 DEF FinallyElf, Finish, Kill
<1>17. CASE Interrupt
  BY <1>17 DEF CopyInv, Interrupt
<1>18. CASE UNCHANGED vars
  BY <1>18 DEF vars, CopyInv
<1> QED
  BY <1>1, <1>2, <1>3, <1>4, <1>7, <1>8, <1>9, <1>10, <1>11, <1>12, <1>13,
     <1>14, <1>16, <1>17, <1>18, <1>19 DEF Next, Runner, Stop

(***************************************************************************)
(* The image is made of the copy (z.py:544), so what nanvixd runs is the   *)
(* binary of build/ and not what was at the root before.                   *)
(***************************************************************************)
LEMMA ImageStep == TypeOK /\ CopyInv /\ ImageInv /\ [Next]_vars => ImageInv'
<1> SUFFICES ASSUME TypeOK, CopyInv, ImageInv, [Next]_vars PROVE ImageInv'
  OBVIOUS
<1> USE DEF ImageInv, TestedInRun
<1>1. ASSUME NEW s \in Suites, Build(s) \/ LoseLibrary(s) \/ UserPuts(s)
      PROVE  ImageInv'
  BY <1>1 DEF Build, LoseLibrary, UserPuts
<1>2. ASSUME NEW m \in {"standalone", "other"}, Start(m) PROVE ImageInv'
  BY <1>2 DEF Start
<1>3. ASSUME NEW s \in Suites, Skip(s) PROVE ImageInv'
  BY <1>3 DEF Skip
<1>4. ASSUME NEW s \in Suites, Turn(s) PROVE ImageInv'
  BY <1>4 DEF Turn
<1>5. ASSUME NEW from \in Trying, NEW to \in {"copy", "mkramfs", "nanvixd"},
             Go(from, to), to = "copy" \/ from \in {"libs", "mkramfs"}
      PROVE  ImageInv'
  BY <1>5 DEF Go
<1>6. ASSUME NEW from \in Trying, Fail(from) \/ Raise(from) PROVE ImageInv'
  BY <1>6 DEF Fail, Raise
<1>7. CASE Exists
  BY <1>5, <1>6, <1>7 DEF Exists
<1>8. CASE CopyBegins
  BY <1>8 DEF CopyBegins
<1>9. CASE CopyEnds
  <2>1. CASE ~(DiskFails /\ Raise("copying"))
    BY <1>9, <2>1 DEF CopyEnds
  <2> QED
    BY <1>6, <2>1
<1>10. CASE Copied
  BY <1>10 DEF Copied
<1>11. CASE MakeInitrd
  <2>1. CASE ~(Fail("initrd") \/ Raise("initrd"))
    \* The image is made of the copy, which is the binary of build/.
    BY <1>11, <2>1 DEF MakeInitrd, CopyInv, TypeOK
  <2> QED
    BY <1>6, <2>1
<1>12. CASE Libraries \/ Mkramfs
  BY <1>5, <1>6, <1>12 DEF Libraries, Mkramfs
<1>20. CASE InitrdMade
  BY <1>20 DEF InitrdMade
<1>13. CASE Nanvixd
  <2>1. CASE ~Fail("nanvixd")
    BY <1>13, <2>1 DEF Nanvixd, TypeOK
  <2> QED
    BY <1>6, <2>1
<1>14. CASE PrintOk
  BY <1>14 DEF PrintOk
<1>15. CASE FinallyInitrd
  BY <1>15 DEF FinallyInitrd
<1>16. CASE FinallyElf
  BY <1>16 DEF FinallyElf, EndTurn, EndRun, ForgetTurn
<1>17. CASE Finish \/ Kill
  BY <1>17 DEF Finish, Kill, EndRun, ForgetTurn
<1>18. CASE Interrupt
  BY <1>18 DEF Interrupt
<1>19. CASE UNCHANGED vars
  BY <1>19 DEF vars
<1> QED
  BY <1>1, <1>2, <1>3, <1>4, <1>7, <1>8, <1>9, <1>10, <1>11, <1>12, <1>13,
     <1>14, <1>15, <1>16, <1>17, <1>18, <1>19, <1>20 DEF Next, Runner, Stop

(***************************************************************************)
(* Only three statements write to the root: the copy begins where there    *)
(* was nothing, it ends on its own file, and the finally clause removes    *)
(* what copied_elf says is a copy.                                         *)
(***************************************************************************)
LEMMA RootStep ==
  TypeOK /\ CopyInv /\ [Next]_vars
    => [\A s \in Suites : root[s] = "user" => root'[s] = "user"]_vars
<1> SUFFICES ASSUME TypeOK, CopyInv, Next, NEW s \in Suites, root[s] = "user"
             PROVE  root'[s] = "user"
  OBVIOUS
<1>1. ASSUME NEW t \in Suites, UserPuts(t) PROVE root'[s] = "user"
  BY <1>1 DEF UserPuts, TypeOK
<1>2. CASE CopyBegins
  BY <1>2 DEF CopyBegins, CopyInv, TypeOK
<1>3. CASE CopyEnds
  BY <1>3 DEF CopyEnds, Raise, CopyInv, TypeOK
<1>4. CASE FinallyElf
  BY <1>4 DEF FinallyElf, CopyInv, TypeOK, Builds
<1>5. CASE UNCHANGED root
  BY <1>5
<1>6. ASSUME NEW t \in Suites, Build(t) \/ LoseLibrary(t) \/ Skip(t) \/ Turn(t)
      PROVE  UNCHANGED root
  BY <1>6 DEF Build, LoseLibrary, Skip, Turn
<1>7. ASSUME \/ \E m \in {"standalone", "other"} : Start(m)
             \/ Interrupt \/ Kill \/ Stop \/ Copied \/ InitrdMade \/ PrintOk
             \/ FinallyInitrd \/ Finish
      PROVE  UNCHANGED root
  BY <1>7 DEF Start, Interrupt, Kill, Stop, vars, Copied, InitrdMade, PrintOk,
              FinallyInitrd, Finish
<1>8. ASSUME Exists \/ MakeInitrd \/ Libraries \/ Mkramfs \/ Nanvixd
      PROVE  UNCHANGED root
  BY <1>8 DEF Exists, MakeInitrd, Libraries, Mkramfs, Nanvixd, Go, Fail, Raise
<1> QED
  BY <1>1, <1>2, <1>3, <1>4, <1>5, <1>6, <1>7, <1>8 DEF Next, Runner

(***************************************************************************)
(* The three together hold in every state.                                 *)
(***************************************************************************)
LEMMA RunnerInvariants == Spec => [](TypeOK /\ CopyInv /\ ImageInv)
<1>1. Init => CopyInv /\ ImageInv
  BY DEF Init, CopyInv, ImageInv, TestedInRun
<1> QED
  BY <1>1, TypeInit, TypeStep, CopyStep, ImageStep, PTL DEF Spec

(***************************************************************************)
(* A suite reported OK was run from the binary in build/, whatever is at   *)
(* the repository root and wherever earlier runs were stopped.             *)
(***************************************************************************)
THEOREM ReportedIsBuilt == Spec => []TestedInRun
<1>1. ImageInv => TestedInRun
  BY DEF ImageInv
<1> QED
  BY <1>1, RunnerInvariants, PTL

(***************************************************************************)
(* A file of the user's at the repository root is never overwritten and    *)
(* never removed.                                                          *)
(***************************************************************************)
THEOREM UserFileSafe == Spec => UserFileKept
BY RunnerInvariants, RootStep, PTL DEF Spec, UserFileKept

(***************************************************************************)
(* Every suite of the mode that has a binary is still to come, at its      *)
(* turn, or was recorded.  A turn that is left by an exception records     *)
(* nothing, but then the run ends with it.                                 *)
(***************************************************************************)
ModeSuites == IF mode = "standalone" THEN Suites ELSE TestableSuites

AtTurn(s) ==
  /\ s = suite
  /\ pc \in Trying \/ (pc \in {"finally", "unlink_elf"} /\ raised)

RecordInv ==
  pc # "idle" =>
    \A s \in ModeSuites :
      built[s] # "none" => s \in todo \cup passed \cup failed \/ AtTurn(s)

(***************************************************************************)
(* No statement of a turn loses a suite.                                   *)
(***************************************************************************)
LEMMA RecordStep == TypeOK /\ RecordInv /\ [Next]_vars => RecordInv'
<1> SUFFICES ASSUME TypeOK, RecordInv, [Next]_vars PROVE RecordInv'
  OBVIOUS
<1> USE DEF RecordInv, AtTurn, ModeSuites
<1>1. ASSUME NEW s \in Suites, Build(s) \/ LoseLibrary(s) \/ UserPuts(s)
      PROVE  RecordInv'
  BY <1>1 DEF Build, LoseLibrary, UserPuts
<1>2. ASSUME NEW m \in {"standalone", "other"}, Start(m) PROVE RecordInv'
  BY <1>2 DEF Start
<1>3. ASSUME NEW s \in Suites, Skip(s) PROVE RecordInv'
  BY <1>3 DEF Skip
<1>4. ASSUME NEW s \in Suites, Turn(s) PROVE RecordInv'
  BY <1>4 DEF Turn
<1>5. ASSUME NEW from \in Trying, NEW to \in Trying, Go(from, to) PROVE RecordInv'
  BY <1>5 DEF Go
<1>6. ASSUME NEW from \in Trying, Fail(from) \/ Raise(from) PROVE RecordInv'
  BY <1>6 DEF Fail, Raise
<1>7. CASE Exists \/ Libraries \/ Mkramfs
  BY <1>5, <1>6, <1>7 DEF Exists, Libraries, Mkramfs
<1>8. CASE CopyBegins \/ Copied \/ InitrdMade
  BY <1>8 DEF CopyBegins, Copied, InitrdMade
<1>9. CASE CopyEnds
  <2>1. CASE ~(DiskFails /\ Raise("copying"))
    BY <1>9, <2>1 DEF CopyEnds
  <2> QED
    BY <1>6, <2>1
<1>10. CASE MakeInitrd
  <2>1. CASE ~(Fail("initrd") \/ Raise("initrd"))
    BY <1>10, <2>1 DEF MakeInitrd
  <2> QED
    BY <1>6, <2>1
<1>11. CASE Nanvixd
  <2>1. CASE ~Fail("nanvixd")
    BY <1>11, <2>1 DEF Nanvixd
  <2> QED
    BY <1>6, <2>1
<1>12. CASE PrintOk \/ FinallyInitrd
  BY <1>12 DEF PrintOk, FinallyInitrd
<1>13. CASE FinallyElf
  BY <1>13 DEF FinallyElf, EndTurn, EndRun, ForgetTurn
<1>14. CASE Finish \/ Kill
  BY <1>14 DEF Finish, Kill, EndRun
<1>15. CASE Interrupt
  BY <1>15 DEF Interrupt
<1>16. CASE UNCHANGED vars
  BY <1>16 DEF vars
<1> QED
  BY <1>1, <1>2, <1>3, <1>4, <1>7, <1>8, <1>9, <1>10, <1>11, <1>12, <1>13,
     <1>14, <1>15, <1>16 DEF Next, Runner, Stop

(***************************************************************************)
(* "POSIX tests PASSED" is printed only if every suite of the mode that    *)
(* has a binary was reported OK.                                           *)
(***************************************************************************)
THEOREM PassedIsOk == Spec => []PassedMeansOk
<1>1. Init => RecordInv
  BY DEF Init, RecordInv
<1>2. RecordInv => PassedMeansOk
  BY DEF RecordInv, AtTurn, ModeSuites, PassedMeansOk
<1> QED
  BY <1>1, <1>2, TypeInit, TypeStep, RecordStep, PTL DEF Spec

(***************************************************************************)
(* Between two turns no exception is on its way.                           *)
(***************************************************************************)
RaisedInv == pc \in {"idle", "next"} => ~raised /\ ~copied_elf /\ ~initrd

(***************************************************************************)
(* Every turn forgets its exception, or ends the run with it.              *)
(***************************************************************************)
LEMMA RaisedStep == RaisedInv /\ [Next]_vars => RaisedInv'
<1> SUFFICES ASSUME RaisedInv, [Next]_vars PROVE RaisedInv'
  OBVIOUS
<1>1. ASSUME \E s \in Suites : Build(s) \/ LoseLibrary(s) \/ UserPuts(s) \/ Skip(s)
                               \/ Turn(s)
      PROVE  RaisedInv'
  BY <1>1 DEF RaisedInv, Build, LoseLibrary, UserPuts, Skip, Turn
<1>2. ASSUME NEW m \in {"standalone", "other"}, Start(m) PROVE RaisedInv'
  BY <1>2 DEF RaisedInv, Start
<1>3. CASE Exists \/ CopyBegins \/ CopyEnds \/ Copied \/ MakeInitrd \/ Libraries
  BY <1>3 DEF RaisedInv, Exists, CopyBegins, CopyEnds, Copied, MakeInitrd,
              Libraries, Go, Fail, Raise
<1>4. CASE InitrdMade \/ Mkramfs \/ Nanvixd \/ PrintOk \/ FinallyInitrd \/ Interrupt
  BY <1>4 DEF RaisedInv, InitrdMade, Mkramfs, Nanvixd, PrintOk, FinallyInitrd, Interrupt,
              Go, Fail, Raise
<1>5. CASE FinallyElf \/ Finish \/ Kill
  BY <1>5 DEF RaisedInv, FinallyElf, Finish, Kill, EndTurn, EndRun, ForgetTurn
<1>6. CASE UNCHANGED vars
  BY <1>6 DEF RaisedInv, vars
<1> QED
  BY <1>1, <1>2, <1>3, <1>4, <1>5, <1>6 DEF Next, Runner, Stop

(***************************************************************************)
(* How far the disk is from what the run found.  A turn that no exception  *)
(* leaves changes one file at the root, where there was none, for as long  *)
(* as copied_elf or the place of the statement says so, and one image.     *)
(***************************************************************************)
Copying == pc \in {"copying", "copied"} \/ copied_elf

TraceInv ==
  pc # "idle" /\ ~raised =>
    /\ ~Copying => root = before[1]
    /\ Copying => /\ before[1][suite] = "none"
                  /\ \A s \in Suites \ {suite} : root[s] = before[1][s]
    /\ initrds \ {suite} \subseteq before[2]
    /\ (~initrd /\ pc # "made") \/ pc = "unlink_elf" => initrds \subseteq before[2]
    /\ pc \in {"next", "exists", "copy", "copying", "copied"} => ~initrd

(***************************************************************************)
(* The finally clause takes the copy and the image away again.             *)
(***************************************************************************)
LEMMA TraceStep == TypeOK /\ CopyInv /\ RaisedInv /\ TraceInv /\ [Next]_vars => TraceInv'
<1> SUFFICES ASSUME TypeOK, CopyInv, RaisedInv, TraceInv, [Next]_vars PROVE TraceInv'
  OBVIOUS
<1> USE DEF TraceInv, Copying
<1>1. ASSUME NEW s \in Suites, Build(s) \/ LoseLibrary(s) \/ UserPuts(s)
      PROVE  TraceInv'
  BY <1>1 DEF Build, LoseLibrary, UserPuts
<1>2. ASSUME NEW m \in {"standalone", "other"}, Start(m) PROVE TraceInv'
  BY <1>2 DEF Start, RaisedInv
<1>3. ASSUME NEW s \in Suites, Skip(s) PROVE TraceInv'
  BY <1>3 DEF Skip
<1>4. ASSUME NEW s \in Suites, Turn(s) PROVE TraceInv'
  BY <1>4 DEF Turn, RaisedInv
<1>5. ASSUME NEW from \in Trying \ {"copying", "copied"},
             NEW to \in Trying \ {"copying", "copied", "made"},
             from # "made", Go(from, to), to \notin {"exists", "copy"} \/ from = "exists"
      PROVE  TraceInv'
  BY <1>5 DEF Go
<1>6. ASSUME NEW from \in Trying \ {"copying", "copied", "made"}, Fail(from)
      PROVE  TraceInv'
  BY <1>6 DEF Fail
<1>7. ASSUME NEW from \in Trying, Raise(from) PROVE TraceInv'
  BY <1>7 DEF Raise
<1>8. CASE Exists \/ Libraries \/ Mkramfs
  BY <1>5, <1>6, <1>7, <1>8 DEF Exists, Libraries, Mkramfs
<1>9. CASE CopyBegins
  BY <1>9 DEF CopyBegins, CopyInv, TypeOK
<1>10. CASE CopyEnds
  <2>1. CASE ~(DiskFails /\ Raise("copying"))
    BY <1>10, <2>1 DEF CopyEnds, TypeOK
  <2> QED
    BY <1>7, <2>1
<1>11. CASE Copied
  BY <1>11 DEF Copied
<1>12. CASE MakeInitrd
  <2>1. CASE ~(Fail("initrd") \/ Raise("initrd"))
    BY <1>12, <2>1 DEF MakeInitrd
  <2> QED
    BY <1>6, <1>7, <2>1
<1>20. CASE InitrdMade
  BY <1>20 DEF InitrdMade
<1>13. CASE Nanvixd
  <2>1. CASE ~Fail("nanvixd")
    BY <1>13, <2>1 DEF Nanvixd
  <2> QED
    BY <1>6, <2>1
<1>14. CASE PrintOk
  BY <1>14 DEF PrintOk
<1>15. CASE FinallyInitrd
  BY <1>15 DEF FinallyInitrd
<1>16. CASE FinallyElf
  <2>1. CASE raised
    BY <1>16, <2>1 DEF FinallyElf, EndRun
  <2>2. CASE ~raised
    <3>1. pc = "unlink_elf" /\ EndTurn /\ UNCHANGED initrds /\ before' = before
      BY <1>16, <2>2 DEF FinallyElf, EndTurn
    <3>2. root' = before[1]
      <4>1. CASE copied_elf
        <5>1. /\ root' = [root EXCEPT ![suite] = "none"]
              /\ root \in [Suites -> RootContents]
              /\ before[1] \in [Suites -> RootContents]
              /\ before[1][suite] = "none"
              /\ \A s \in Suites \ {suite} : root[s] = before[1][s]
          BY <1>16, <2>2, <3>1, <4>1 DEF FinallyElf, TypeOK
        <5> QED
          BY <5>1
      <4>2. CASE ~copied_elf
        BY <1>16, <2>2, <3>1, <4>2 DEF FinallyElf
      <4> QED
        BY <4>1, <4>2
    <3> QED
      BY <2>2, <3>1, <3>2 DEF EndTurn, ForgetTurn
  <2> QED
    BY <2>1, <2>2
<1>17. CASE Finish \/ Kill
  BY <1>17 DEF Finish, Kill, EndRun
<1>18. CASE Interrupt
  BY <1>18 DEF Interrupt
<1>19. CASE UNCHANGED vars
  BY <1>19 DEF vars
<1> QED
  BY <1>1, <1>2, <1>3, <1>4, <1>8, <1>9, <1>10, <1>11, <1>12, <1>13,
     <1>14, <1>15, <1>16, <1>17, <1>18, <1>19, <1>20 DEF Next, Runner, Stop

(***************************************************************************)
(* A run that comes to its end leaves the root as it found it, and no      *)
(* image that was not there.                                               *)
(***************************************************************************)
THEOREM EndsClean == Spec => LeavesNoTrace
<1>1. Init => CopyInv /\ TraceInv /\ RaisedInv
  BY DEF Init, CopyInv, TraceInv, RaisedInv
<1>2. TypeOK /\ TraceInv /\ RaisedInv /\ [Next]_vars
        => [pc # "idle" /\ pc' = "idle" /\ verdict' # "error" =>
              root' = before[1] /\ initrds' \subseteq before[2]]_vars
  <2> SUFFICES ASSUME TypeOK, TraceInv, RaisedInv, Next,
                      pc # "idle", pc' = "idle", verdict' # "error"
               PROVE  root' = before[1] /\ initrds' \subseteq before[2]
    OBVIOUS
  <2>1. CASE Finish
    BY <2>1 DEF Finish, TraceInv, Copying, RaisedInv
  <2>2. CASE ~Finish
    <3>1. CASE FinallyElf \/ Kill
      BY <3>1 DEF FinallyElf, Kill, EndTurn, EndRun
    <3>2. ASSUME \E s \in Suites : Build(s) \/ LoseLibrary(s) \/ UserPuts(s)
                                   \/ Skip(s) \/ Turn(s)
          PROVE  FALSE
      BY <3>2 DEF Build, LoseLibrary, UserPuts, Skip, Turn
    <3>3. ASSUME \/ \E m \in {"standalone", "other"} : Start(m)
                 \/ Interrupt \/ Stop \/ PrintOk \/ FinallyInitrd \/ CopyBegins
                 \/ Copied \/ InitrdMade
          PROVE  FALSE
      BY <3>3 DEF Start, Interrupt, Stop, vars, PrintOk, FinallyInitrd,
                  CopyBegins, Copied, InitrdMade
    <3>4. ASSUME Exists \/ CopyEnds \/ MakeInitrd \/ Libraries \/ Mkramfs \/ Nanvixd
          PROVE  FALSE
      BY <3>4 DEF Exists, CopyEnds, MakeInitrd, Libraries, Mkramfs, Nanvixd,
                  Go, Fail, Raise
    <3> QED
      BY <2>2, <3>1, <3>2, <3>3, <3>4 DEF Next, Runner
  <2> QED
    BY <2>1, <2>2
<1> QED
  BY <1>1, <1>2, TypeInit, TypeStep, CopyStep, TraceStep, RaisedStep, PTL
     DEF Spec, LeavesNoTrace
=============================================================================
