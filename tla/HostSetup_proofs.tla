-------------------------- MODULE HostSetup_proofs --------------------------
(***************************************************************************)
(* Proofs about HostSetup, for every set of versions, trees and local      *)
(* directories, every number of kills and builds, on Linux and on Windows. *)
(***************************************************************************)
EXTENDS HostSetup, TLAPS

USE DEF Rest

(***************************************************************************)
(* Why the right tool runs.  Installing begins with an empty venv, so a    *)
(* record is only ever written beside the package it is about; what a kill *)
(* takes away never makes the record name another package.                 *)
(***************************************************************************)
ToolInv ==
  /\ at \in {"clear", "install", "record"} => tool = "venv"
  /\ at = "install" => venv.record = None
  /\ at = "record" => asked # None /\ venv.source = asked
  /\ venv.record # None => venv.source = venv.record \/ (venv.source = None /\ kills > 0)
  /\ ToolIsRight

(***************************************************************************)
(* A command that is under way is one that the tool runs, and the directory*)
(* it copies from is there: nothing else happens meanwhile.                *)
(***************************************************************************)
FromSetup == {"remove", "copy", "verify", "save"}
SourceInv ==
  /\ step \notin Rest => at = "command"
  /\ step \in FromSetup => There(given)
  /\ step = "overlay_copy" => There(Path)
  /\ step \in FromSetup \cup {"base", "download", "fetch", "extract"} => cmd = "setup"
  /\ step \in {"check", "started"} => cmd # "setup"

(***************************************************************************)
(* What a setup has put in the sysroot so far is whole, and what it        *)
(* requires is there once it is past its own check.                        *)
(***************************************************************************)
PastVerify == {"save", "download", "fetch", "extract", "overlay", "overlay_copy", "ok"}
SetupInv ==
  cmd = "setup" =>
    /\ step \in PastVerify \cup {"copy", "verify"} => \A n \in Names : file[n] # Torn
    /\ step \in PastVerify => \A n \in Required : file[n] # Missing

(***************************************************************************)
(* Only a setup or distclean removes anything, and a setup that has begun  *)
(* is no success before it ends well.                                      *)
(***************************************************************************)
RequiredInv ==
  /\ cmd = "setup" => setup = IF step = "ok" THEN "ok" ELSE "begun"
  /\ setup = "ok" => \A n \in Required : file[n] # Missing

(***************************************************************************)
(* The first k - 1 of the files have been copied from the directory in     *)
(* force, and all of them once tests are about to start.                   *)
(***************************************************************************)
CopiedFrom(d, i) == Order[i] \in local[d].has => file[Order[i]] = Current(d)
OverlayInv ==
  /\ step = "overlay_copy" => sysroot /\ \A i \in 1..k - 1 : CopiedFrom(Path, i)
  /\ step \in {"check", "started"} /\ sysroot /\ There(Path) =>
       \A i \in 1..Len(Order) : CopiedFrom(Path, i)
  /\ step = "started" => sysroot

(***************************************************************************)
(* Unless a command is killed or a directory incomplete, the sysroot holds *)
(* one build, or nothing, or on Windows one build but for what nobody      *)
(* checks, except while it is being filled.                                *)
(***************************************************************************)
Complete == \A d \in Locals : local[d].has = Names
Whole(c, n) == file[n] = c \/ (Windows /\ n \notin Required /\ file[n] = Missing)
Uniform == \E c \in Contents \ {Torn} : \A n \in Names : Whole(c, n)
BuildInv ==
  /\ step = "started" => \A n \in Tested : file[n] # Missing
  /\ kills = 0 /\ Complete =>
       /\ step \notin {"copy", "overlay_copy"} => Uniform
       /\ step = "copy" => \A i \in 1..k - 1 : file[Order[i]] = Current(given)
       /\ step \in {"verify", "save"} => \A n \in Names : file[n] # Missing
       /\ step = "download" =>
            (\A n \in Names : Whole(Release, n)) \/ (\A n \in Names : file[n] # Missing)
       /\ step \in {"fetch", "extract"} => \A n \in Names : Whole(Release, n)
-----------------------------------------------------------------------------
(***************************************************************************)
(* The files in their order.                                               *)
(***************************************************************************)
LEMMA OrderFacts ==
  /\ Len(Order) = 4
  /\ \A i \in 1..4 : Order[i] \in Names
  /\ \A n \in Names : \E i \in 1..4 : Order[i] = n
BY DEF Order, Names

(***************************************************************************)
(* The steps of a command leave the tool and the directories alone.        *)
(***************************************************************************)
LEMMA CommandQuiet ==
  ASSUME CommandStep
  PROVE  /\ at = "command" /\ at' \in {"command", "done"}
         /\ UNCHANGED <<pin, global, venv, asked, tool, local>>
         /\ kills' = kills \/ (kills < MaxKills /\ kills' = kills + 1)
BY DEF CommandStep, Begin, RemoveSysroot, SetupCopy, CopyFrom, Verify, Save, Base,
       BaseFails, Download, DownloadUnavailable, Fetch, FetchFails, Extract,
       ExtractFails, Overlay, OverlayCopy, AfterCopy, AfterOverlay, Check, Finish,
       KillCommand, At, Goto, Again, End, Fail, Quiet, zvars

(***************************************************************************)
(* The right tool.                                                         *)
(***************************************************************************)
LEMMA InitTool == Init => ToolInv
BY DEF Init, ToolInit, ToolInv, ToolIsRight, Empty

\* What an install that breaks off leaves in a venv is of its type, and the
\* record there is not touched.
LEMMA HalfFacts ==
  ASSUME HalfInstalled, venv \in Venvs, pin \in Versions, asked \in Trees \cup {None}
  PROVE  venv' \in Venvs /\ venv'.record = venv.record
BY DEF HalfInstalled, Venvs

LEMMA NextTool ==
  ASSUME TypeOK, ToolInv, [Next]_vars
  PROVE  ToolInv'
<1> USE DEF ToolInv, ToolIsRight, RunVersion, VenvVersion
<1>t. /\ venv \in Venvs /\ kills \in Nat /\ at \in Places
      /\ pin \in Versions /\ asked \in Trees \cup {None}
  BY DEF TypeOK
<1>1. CASE Invoke
  BY <1>1 DEF Invoke
<1>2. CASE Choose
  BY <1>2 DEF Choose, InstallLocal, InstallPinned, RunGlobal
<1>3. CASE Clear
  BY <1>3 DEF Clear, Empty
<1>4. CASE Install
  BY <1>t, <1>4 DEF Install, Venvs
<1>5. CASE InstallFails
  <2>1. at' = "done" /\ kills' = kills
    BY <1>5 DEF InstallFails, Ended
  <2>2. CASE at = "install" /\ HalfInstalled
    BY <1>t, <2>1, <2>2, HalfFacts
  <2>3. CASE UNCHANGED venv
    BY <2>1, <2>3
  <2>4. QED  BY <1>5, <2>2, <2>3 DEF InstallFails
<1>6. CASE Record
  BY <1>t, <1>6 DEF Record, Venvs
<1>7. CASE Exec
  BY <1>7 DEF Exec, Ended
<1>8. CASE KillTool
  <2>1. at' = "done" /\ kills' > 0
    BY <1>t, <1>8 DEF KillTool, Ended
  <2>2. venv'.record # None => venv'.source = venv'.record \/ venv'.source = None
    <3>1. CASE at = "clear"
      <4>1. PICK b, v, r \in BOOLEAN : venv' = Gone(b, v, r)
        BY <1>8, <3>1 DEF KillTool
      <4>2. QED  BY <4>1 DEF Gone
    <3>2. CASE at = "install"
      <4>1. HalfInstalled
        BY <1>8, <3>2 DEF KillTool
      <4>2. QED  BY <1>t, <3>2, <4>1, HalfFacts
    <3>3. CASE at \notin {"clear", "install"}
      BY <1>8, <3>3 DEF KillTool
    <3>4. QED  BY <3>1, <3>2, <3>3
  <2>3. QED  BY <2>1, <2>2
<1>9. CASE Repin
  BY <1>9 DEF Repin
<1>10. CASE CommandStep
  BY <1>t, <1>10, CommandQuiet
<1>11. CASE Clean
  BY <1>11 DEF Clean, Distclean, Empty
<1>12. CASE Rebuild \/ RemoveLocal \/ UNCHANGED vars
  BY <1>12 DEF Rebuild, RemoveLocal, vars, zvars
<1>13. QED
  BY <1>1, <1>2, <1>3, <1>4, <1>5, <1>6, <1>7, <1>8, <1>9, <1>10, <1>11, <1>12
     DEF Next, ToolStep

-----------------------------------------------------------------------------
(***************************************************************************)
(* The source of a copy stays where it is.                                 *)
(***************************************************************************)
LEMMA InitSource == Init => SourceInv
BY DEF Init, SysInit, SourceInv, FromSetup

LEMMA NextSource ==
  ASSUME SourceInv, [Next]_vars
  PROVE  SourceInv'
<1> USE DEF SourceInv, FromSetup
<1>1. CASE (Invoke \/ ToolStep \/ Repin) /\ UNCHANGED sysvars
  <2>1. at # "command" /\ UNCHANGED sysvars
    BY <1>1 DEF Invoke, ToolStep, Repin, Choose, Clear, Install, InstallFails, Record,
                Exec, KillTool
  <2>2. QED  BY <2>1 DEF sysvars
<1>2. CASE CommandStep
  <2>1. UNCHANGED local
    BY <1>2, CommandQuiet
  <2>2. CASE Begin
    BY <2>1, <2>2 DEF Begin, zvars, There
  <2> USE DEF At, Goto, Again, End, Fail, Quiet
  <2>3. CASE RemoveSysroot
    BY <2>1, <2>3 DEF RemoveSysroot, There
  <2>4. CASE SetupCopy
    BY <2>1, <2>4 DEF SetupCopy, CopyFrom, AfterCopy, There
  <2>5. CASE Verify
    BY <2>1, <2>5 DEF Verify, There
  <2>6. CASE Save \/ Base \/ BaseFails
    BY <2>6 DEF Save, Base, BaseFails, AfterBase
  <2>7. CASE Download \/ DownloadUnavailable \/ Fetch \/ FetchFails
    BY <2>7 DEF Download, DownloadUnavailable, Fetch, FetchFails
  <2>8. CASE Extract \/ ExtractFails
    BY <2>8 DEF Extract, ExtractFails
  <2>9. CASE Overlay
    BY <2>1, <2>9 DEF Overlay, AfterOverlay, There, Path
  <2>10. CASE OverlayCopy
    BY <2>1, <2>10 DEF OverlayCopy, CopyFrom, AfterCopy, There, Path
  <2>11. CASE Check \/ Finish
    BY <2>11 DEF Check, Finish
  <2>12. CASE KillCommand
    BY <2>12 DEF KillCommand
  <2>13. QED
    BY <1>2, <2>2, <2>3, <2>4, <2>5, <2>6, <2>7, <2>8, <2>9, <2>10, <2>11, <2>12
       DEF CommandStep
<1>3. CASE Clean
  BY <1>3 DEF Clean, Distclean
<1>4. CASE Rebuild \/ RemoveLocal
  BY <1>4 DEF Rebuild, RemoveLocal, zvars
<1>5. CASE UNCHANGED vars
  BY <1>5 DEF vars, zvars, sysvars, There, Path
<1>6. QED
  BY <1>1, <1>2, <1>3, <1>4, <1>5 DEF Next

-----------------------------------------------------------------------------
(***************************************************************************)
(* What a setup leaves.                                                    *)
(***************************************************************************)
LEMMA InitSetup == Init => SetupInv
BY DEF Init, SysInit, SetupInv, PastVerify

LEMMA NextSetup ==
  ASSUME TypeOK, SourceInv, SetupInv, [Next]_vars
  PROVE  SetupInv'
<1> USE DEF SetupInv, PastVerify
<1>t. file \in [Names -> Contents] /\ k \in 1..4
  BY OrderFacts DEF TypeOK
<1>c. /\ \A c \in {Missing, Release} \cup {Built(d, n) : d \in Locals, n \in Nat} : c # Torn
      /\ \A c \in {Release} \cup {Built(d, n) : d \in Locals, n \in Nat} : c # Missing
      /\ Required \subseteq Names
  BY DEF Missing, Release, Torn, Built, Content, Required, Names
<1>1. CASE (Invoke \/ ToolStep \/ Repin) /\ UNCHANGED sysvars
  BY <1>1 DEF sysvars
<1>2. CASE CommandStep
  <2> USE DEF At, Goto, Again, End, Fail, Quiet
  <2>b. \A d : There(d) => Current(d) # Torn /\ Current(d) # Missing
    BY DEF There, Current, Built, Torn, Missing, Content
  <2>2. CASE Begin
    BY <2>2 DEF Begin
  <2>3. CASE RemoveSysroot
    BY <1>c, <2>3 DEF RemoveSysroot
  <2>4. CASE SetupCopy
    BY <1>t, <2>b, <2>4 DEF SetupCopy, CopyFrom, AfterCopy, SourceInv, FromSetup
  <2>5. CASE Verify
    BY <2>5 DEF Verify
  <2>6. CASE Save
    BY <2>6 DEF Save, AfterBase
  <2>7. CASE Base
    BY <1>c, <2>7 DEF Base, AfterBase
  <2>8. CASE Download \/ DownloadUnavailable \/ Fetch
    BY <2>8 DEF Download, DownloadUnavailable, Fetch
  <2>9. CASE Extract
    BY <1>t, <1>c, <2>9 DEF Extract
  <2>10. CASE BaseFails \/ FetchFails \/ ExtractFails \/ KillCommand
    BY <2>10 DEF BaseFails, FetchFails, ExtractFails, KillCommand
  <2>11. CASE Overlay
    BY <2>11 DEF Overlay, AfterOverlay
  <2>12. CASE OverlayCopy
    BY <1>t, <2>b, <2>12 DEF OverlayCopy, CopyFrom, AfterCopy, SourceInv
  <2>13. CASE Check \/ Finish
    BY <2>13 DEF Check, Finish, SourceInv
  <2>14. QED
    BY <1>2, <2>2, <2>3, <2>4, <2>5, <2>6, <2>7, <2>8, <2>9, <2>10, <2>11, <2>12, <2>13
       DEF CommandStep
<1>3. CASE Clean
  BY <1>3 DEF Clean
<1>4. CASE Rebuild \/ RemoveLocal
  BY <1>4 DEF Rebuild, RemoveLocal
<1>5. CASE UNCHANGED vars
  BY <1>5 DEF vars, sysvars
<1>6. QED
  BY <1>1, <1>2, <1>3, <1>4, <1>5 DEF Next

-----------------------------------------------------------------------------
(***************************************************************************)
(* What a setup required stays until the next one.                         *)
(***************************************************************************)
LEMMA InitRequired == Init => RequiredInv
BY DEF Init, SysInit, RequiredInv

LEMMA NextRequired ==
  ASSUME TypeOK, SourceInv, SetupInv, RequiredInv, [Next]_vars
  PROVE  RequiredInv'
<1> USE DEF RequiredInv
<1>1. CASE (Invoke \/ ToolStep \/ Repin) /\ UNCHANGED sysvars
  BY <1>1 DEF sysvars
<1>2. CASE CommandStep
  <2> USE DEF At, Goto, Again, End, Fail, Quiet
  <2>1. CASE Begin
    BY <2>1 DEF Begin
  <2>2. CASE RemoveSysroot \/ SetupCopy \/ Base \/ Extract
    <3>1. cmd = "setup" /\ step \notin Rest
      BY <2>2 DEF RemoveSysroot, SetupCopy, CopyFrom, Base, Extract, SourceInv, FromSetup
    <3>2. UNCHANGED <<setup, cmd>> /\ step' # "ok"
      <4>1. CASE RemoveSysroot \/ Base
        BY <4>1 DEF RemoveSysroot, Base, AfterBase
      <4>2. CASE SetupCopy
        BY <4>2 DEF SetupCopy, CopyFrom, AfterCopy
      <4>3. CASE Extract
        BY <4>3 DEF Extract
      <4>4. QED  BY <2>2, <4>1, <4>2, <4>3
    <3>3. QED  BY <3>1, <3>2
  <2>3. CASE Verify \/ Save \/ BaseFails \/ Check \/ Finish
    <3>1. UNCHANGED file
      BY <2>3 DEF Verify, Save, BaseFails, Check, Finish
    <3>2. CASE Verify \/ Save \/ BaseFails
      BY <3>1, <3>2 DEF Verify, Save, BaseFails, AfterBase
    <3>3. CASE Check \/ Finish
      BY <3>1, <3>3 DEF Check, Finish, SourceInv
    <3>4. QED  BY <2>3, <3>2, <3>3
  <2>4. CASE Download \/ DownloadUnavailable \/ Fetch \/ FetchFails \/ ExtractFails
    BY <2>4 DEF Download, DownloadUnavailable, Fetch, FetchFails, ExtractFails
  <2>5. CASE Overlay
    \* A setup that is over here is past its verification.
    BY <2>5 DEF Overlay, AfterOverlay, SetupInv, PastVerify
  <2>6. CASE OverlayCopy
    <3>1. Current(Path) # Missing
      BY <2>6 DEF OverlayCopy, CopyFrom, SourceInv, Current, Built, Missing, Content, There
    <3>2. \A n \in Required : file[n] # Missing => file'[n] # Missing
      BY <2>6, <3>1 DEF OverlayCopy, CopyFrom, TypeOK, Required, Names
    <3>3. cmd = "setup" => \A n \in Required : file[n] # Missing
      BY <2>6 DEF OverlayCopy, CopyFrom, SetupInv, PastVerify
    <3>4. setup' = "ok" => setup = "ok" \/ cmd = "setup"
      BY <2>6 DEF OverlayCopy, CopyFrom, AfterCopy
    <3>5. cmd' = "setup" => setup' = IF step' = "ok" THEN "ok" ELSE "begun"
      BY <2>6 DEF OverlayCopy, CopyFrom, AfterCopy
    <3>6. QED  BY <3>2, <3>3, <3>4, <3>5
  <2>7. CASE KillCommand
    <3>1. step \notin Rest /\ step' = "failed" /\ setup' = setup /\ cmd' = cmd
      BY <2>7 DEF KillCommand
    <3>2. setup = "ok" => step \notin {"remove", "copy", "extract"}
      BY <2>7 DEF KillCommand, SourceInv, FromSetup
    <3>3. CASE setup = "ok" /\ file' # file
      <4>1. file' = [file EXCEPT ![Order[k]] = Torn]
        BY <2>7, <3>2, <3>3 DEF KillCommand
      <4>2. QED  BY <3>1, <3>3, <4>1 DEF TypeOK, Torn, Missing, Content, Required, Names
    <3>4. QED  BY <3>1, <3>3
  <2>8. QED
    BY <1>2, <2>1, <2>2, <2>3, <2>4, <2>5, <2>6, <2>7 DEF CommandStep
<1>3. CASE Clean
  BY <1>3 DEF Clean
<1>4. CASE Rebuild \/ RemoveLocal
  BY <1>4 DEF Rebuild, RemoveLocal
<1>5. CASE UNCHANGED vars
  BY <1>5 DEF vars, sysvars
<1>6. QED
  BY <1>1, <1>2, <1>3, <1>4, <1>5 DEF Next

-----------------------------------------------------------------------------
(***************************************************************************)
(* Types.                                                                  *)
(***************************************************************************)
LEMMA InitType == Init => TypeOK
<1> SUFFICES ASSUME Init PROVE TypeOK
  OBVIOUS
<1>1. /\ pin \in Versions /\ global \in Versions \cup {None} /\ venv \in Venvs
      /\ asked \in Trees \cup {None} /\ at \in Places /\ tool \in {"venv", "global"}
      /\ kills \in 0..MaxKills
  BY ToolAssumption DEF Init, ToolInit, Venvs, Empty, Places
<1>2. file \in [Names -> Contents] /\ sysroot \in BOOLEAN
  <2>1. Missing \in Contents
    BY DEF Contents
  <2>2. QED  BY <2>1 DEF Init, SysInit
<1>3. /\ kept \in Locals \cup {None} /\ given \in Locals \cup {None}
      /\ cache \in {"none", "whole", "partial", "torn"}
      /\ cmd \in {"setup", "test", "distclean"}
      /\ step \in Steps /\ k \in 1..Len(Order)
  BY OrderFacts DEF Init, SysInit, Steps
<1>s. setup \in {"none", "begun", "ok"}
  BY DEF Init, SysInit
<1>4. local \in [Locals -> [builds : 0..MaxBuilds, has : SUBSET Names]]
  <2>1. {1} \subseteq 0..MaxBuilds /\ 0 \in 0..MaxBuilds
    BY SysrootAssumption
  <2>2. [builds |-> 0, has |-> {}] \in [builds : 0..MaxBuilds, has : SUBSET Names]
    BY <2>1
  <2>3. [builds : {1}, has : {Names, Names \ {"vfsd"}, Names \ {"kernel"}}]
          \subseteq [builds : 0..MaxBuilds, has : SUBSET Names]
    BY <2>1
  <2>4. QED  BY <2>2, <2>3 DEF Init, SysInit
<1>5. QED  BY <1>1, <1>2, <1>3, <1>4, <1>s DEF TypeOK

LEMMA BuildTyped ==
  ASSUME TypeOK, NEW d, There(d)
  PROVE  Current(d) \in Contents
BY DEF TypeOK, There, Current, Contents

LEMMA NextType ==
  ASSUME TypeOK, SourceInv, [Next]_vars
  PROVE  TypeOK'
<1> USE DEF TypeOK
<1>a. kills \in Nat /\ MaxKills \in Nat /\ Len(Order) = 4
  BY ToolAssumption, OrderFacts
<1>b. Empty \in Venvs
  BY DEF Empty, Venvs
<1>1. CASE (Invoke \/ ToolStep \/ Repin) /\ UNCHANGED sysvars
  <2>1. UNCHANGED <<file, sysroot, kept, local, cache, cmd, given, step, k, setup>>
    BY <1>1 DEF sysvars
  <2>2. /\ pin' \in Versions /\ global' \in Versions \cup {None}
        /\ asked' \in Trees \cup {None} /\ at' \in Places /\ tool' \in {"venv", "global"}
    BY <1>1 DEF Invoke, ToolStep, Repin, Choose, Clear, Install, InstallFails,
                      Record, Exec, KillTool, Ended, Places
  <2>k. kills' \in 0..MaxKills
    <3>1. CASE KillTool
      BY <1>a, <3>1 DEF KillTool
    <3>2. CASE ~KillTool
      BY <1>1, <3>2 DEF Invoke, ToolStep, Repin, Choose, Clear, Install, InstallFails,
                        Record, Exec
    <3>3. QED  BY <3>1, <3>2
  <2>3. venv' \in Venvs
    <3>1. CASE Clear
      BY <1>b, <3>1 DEF Clear
    <3> USE DEF Venvs
    <3>2. CASE Install
      BY <3>2 DEF Install
    <3>3. CASE Record
      BY <3>3 DEF Record
    <3>4. CASE KillTool
      <4>1. CASE at = "clear"
        BY <3>4, <4>1 DEF KillTool, Gone
      <4>2. CASE at = "install"
        BY <3>4, <4>2, HalfFacts DEF KillTool
      <4>3. CASE at \notin {"clear", "install"}
        BY <3>4, <4>3 DEF KillTool
      <4>4. QED  BY <4>1, <4>2, <4>3
    <3>5. CASE Invoke \/ Choose \/ Exec \/ Repin
      BY <3>5 DEF Invoke, Choose, Exec, Repin
    <3>6. CASE InstallFails
      BY <3>6, HalfFacts DEF InstallFails
    <3>7. QED
      BY <1>1, <3>1, <3>2, <3>3, <3>4, <3>5, <3>6 DEF ToolStep
  <2>4. QED  BY <2>1, <2>2, <2>k, <2>3
<1>2. CASE CommandStep
  <2>1. /\ UNCHANGED <<pin, global, venv, asked, tool, local>>
        /\ at' \in Places /\ kills' \in 0..MaxKills
    BY <1>2, <1>a, CommandQuiet DEF Places
  <2>2. /\ sysroot' \in BOOLEAN /\ kept' \in Locals \cup {None}
        /\ cache' \in {"none", "whole", "partial", "torn"}
        /\ cmd' \in {"setup", "test", "distclean"} /\ given' \in Locals \cup {None}
    BY <1>2 DEF CommandStep, Begin, RemoveSysroot, SetupCopy, CopyFrom, Verify, Save,
       Base, BaseFails, Download, DownloadUnavailable, Fetch, FetchFails, Extract,
       ExtractFails, Overlay, OverlayCopy, AfterCopy, AfterOverlay, Check, Finish,
       KillCommand, At, Goto, Again, End, Fail, Quiet, zvars, Path
  <2>3. step' \in Steps /\ k' \in 1..Len(Order)
    BY <1>2, <1>a DEF CommandStep, Begin, RemoveSysroot, SetupCopy, CopyFrom, Verify,
       Save, Base, BaseFails, Download, DownloadUnavailable, Fetch, FetchFails,
       Extract, ExtractFails, Overlay, OverlayCopy, AfterCopy, AfterOverlay,
       AfterBase, Check, Finish, KillCommand, At, Goto, Again, End, Fail, Steps
  <2>4. file' \in [Names -> Contents]
    <3>1. {Missing, Torn, Release} \subseteq Contents
      BY DEF Contents
    <3>2. CASE SetupCopy \/ OverlayCopy
      BY <3>2, BuildTyped DEF SetupCopy, OverlayCopy, CopyFrom, At, SourceInv, FromSetup
    <3>3. CASE RemoveSysroot \/ Base \/ Extract
      BY <3>1, <3>3 DEF RemoveSysroot, Base, Extract
    <3>4. CASE KillCommand
      BY <3>1, <3>4 DEF KillCommand
    <3>5. CASE ~(SetupCopy \/ OverlayCopy \/ RemoveSysroot \/ Base \/ Extract \/ KillCommand)
      BY <1>2, <3>5 DEF CommandStep, Begin, Verify, Save, BaseFails, Download,
         DownloadUnavailable, Fetch, FetchFails, ExtractFails, Overlay, Check, Finish
    <3>6. QED  BY <3>2, <3>3, <3>4, <3>5
  <2>s. setup' \in {"none", "begun", "ok"}
    BY <1>2 DEF CommandStep, Begin, RemoveSysroot, SetupCopy, CopyFrom, Verify, Save,
       Base, BaseFails, Download, DownloadUnavailable, Fetch, FetchFails, Extract,
       ExtractFails, Overlay, OverlayCopy, AfterCopy, AfterOverlay, Check, Finish,
       KillCommand, Goto, Again, End, Fail
  <2>5. QED  BY <2>1, <2>2, <2>3, <2>4, <2>s
<1>3. CASE Clean
  <2>1. venv' \in Venvs /\ at' \in Places
    BY <1>b, <1>3 DEF Clean, Distclean, Places
  <2>2. file' \in [Names -> Contents]
    BY <1>3 DEF Clean, Contents
  <2>3. QED  BY <1>3, <2>1, <2>2 DEF Clean, Distclean, Steps
<1>4. CASE Rebuild \/ RemoveLocal
  <2>1. local' \in [Locals -> [builds : 0..MaxBuilds, has : SUBSET Names]]
    <3>1. ASSUME NEW d \in Locals, NEW n \in 0..MaxBuilds,
                 local' = [local EXCEPT ![d].builds = n]
          PROVE  local' \in [Locals -> [builds : 0..MaxBuilds, has : SUBSET Names]]
      BY <3>1
    <3>2. CASE Rebuild
      <4>1. PICK d \in Locals : local' = [local EXCEPT ![d].builds = @ + 1]
        BY <3>2 DEF Rebuild
      <4>2. local[d].builds + 1 \in 0..MaxBuilds
        BY <3>2, SysrootAssumption DEF Rebuild
      <4>3. QED  BY <3>1, <4>1, <4>2
    <3>3. CASE RemoveLocal
      BY <3>1, <3>3, SysrootAssumption DEF RemoveLocal
    <3>4. QED  BY <1>4, <3>2, <3>3
  <2>2. QED  BY <1>4, <2>1 DEF Rebuild, RemoveLocal, zvars
<1>5. CASE UNCHANGED vars
  BY <1>5 DEF vars, zvars, sysvars
<1>6. QED
  BY <1>1, <1>2, <1>3, <1>4, <1>5 DEF Next

-----------------------------------------------------------------------------
(***************************************************************************)
(* Tests start on the directory in force.                                  *)
(***************************************************************************)
LEMMA InitOverlay == Init => OverlayInv
BY DEF Init, SysInit, OverlayInv

LEMMA NextOverlay ==
  ASSUME TypeOK, SourceInv, OverlayInv, [Next]_vars
  PROVE  OverlayInv'
<1> USE DEF OverlayInv
<1>t. file \in [Names -> Contents] /\ k \in 1..4 /\ Len(Order) = 4
  BY OrderFacts DEF TypeOK
<1>1. CASE (Invoke \/ ToolStep \/ Repin) /\ UNCHANGED sysvars
  BY <1>1 DEF sysvars, CopiedFrom, Current, There, Path
<1>2. CASE CommandStep
  <2>1. UNCHANGED local
    BY <1>2, CommandQuiet
  <2> USE DEF At, Goto, Again, End, Fail, Quiet
  <2>2. CASE Begin \/ RemoveSysroot \/ Verify \/ Save \/ Base \/ BaseFails
    BY <2>2 DEF Begin, RemoveSysroot, Verify, Save, Base, BaseFails, AfterBase
  <2>3. CASE Download \/ DownloadUnavailable \/ Fetch \/ FetchFails \/ Extract
             \/ ExtractFails \/ KillCommand \/ Finish
    BY <2>3 DEF Download, DownloadUnavailable, Fetch, FetchFails, Extract, ExtractFails,
                KillCommand, Finish
  <2>4. CASE SetupCopy
    BY <2>4 DEF SetupCopy, CopyFrom, AfterCopy
  <2>5. CASE Overlay
    BY <2>1, <2>5 DEF Overlay, AfterOverlay, There, Path
  <2>6. CASE OverlayCopy
    <3>1. step = "overlay_copy" /\ sysroot' = sysroot /\ (step' # "ok" => Path' = Path)
      BY <2>6 DEF OverlayCopy, CopyFrom, AfterCopy, Path
    <3>2. \A i \in 1..k : Order[i] \in local[Path].has => file'[Order[i]] = Current(Path)
      <4>1. SUFFICES ASSUME NEW i \in 1..k, Order[i] \in local[Path].has
                     PROVE  file'[Order[i]] = Current(Path)
        OBVIOUS
      <4>2. Order[i] \in Names
        BY <1>t, OrderFacts
      <4>3. CASE Order[i] = Order[k]
        BY <1>t, <2>6, <4>1, <4>2, <4>3 DEF OverlayCopy, CopyFrom
      <4>4. CASE Order[i] # Order[k]
        <5>1. i \in 1..k - 1
          BY <1>t, <4>4
        <5>2. file[Order[i]] = Current(Path)
          BY <3>1, <4>1, <5>1 DEF CopiedFrom
        <5>3. QED  BY <1>t, <2>6, <4>2, <4>4, <5>2 DEF OverlayCopy, CopyFrom
      <4>5. QED  BY <4>3, <4>4
    <3>3. \/ step' = "overlay_copy" /\ k' = k + 1
          \/ k = 4 /\ step' \in {"ok", "check"}
      BY <1>t, <2>6 DEF OverlayCopy, CopyFrom, AfterCopy
    <3>4. QED
      BY <1>t, <2>1, <3>1, <3>2, <3>3 DEF CopiedFrom, Current
  <2>7. CASE Check
    BY <2>1, <2>7 DEF Check, CopiedFrom, Current, There, Path
  <2>8. QED
    BY <1>2, <2>2, <2>3, <2>4, <2>5, <2>6, <2>7 DEF CommandStep
<1>3. CASE Clean
  BY <1>3 DEF Clean
<1>4. CASE Rebuild \/ RemoveLocal
  <2>1. at = "done" /\ UNCHANGED step
    BY <1>4 DEF Rebuild, RemoveLocal
  <2>2. QED  BY <2>1 DEF SourceInv
<1>5. CASE UNCHANGED vars
  BY <1>5 DEF vars, sysvars, CopiedFrom, Current, There, Path
<1>6. QED
  BY <1>1, <1>2, <1>3, <1>4, <1>5 DEF Next

-----------------------------------------------------------------------------
(***************************************************************************)
(* One build.                                                              *)
(***************************************************************************)
LEMMA InitBuild == Init => BuildInv
<1> SUFFICES ASSUME Init PROVE BuildInv
  OBVIOUS
<1>1. Missing \in Contents \ {Torn}
  BY DEF Contents, Missing, Torn, Content
<1>2. Uniform
  BY <1>1 DEF Init, SysInit, Uniform, Whole
<1>3. QED  BY <1>2 DEF Init, SysInit, BuildInv

LEMMA NextBuild ==
  ASSUME TypeOK, SourceInv, OverlayInv, BuildInv, [Next]_vars
  PROVE  BuildInv'
<1>t. file \in [Names -> Contents] /\ k \in 1..4 /\ Len(Order) = 4
  BY OrderFacts DEF TypeOK
<1>c. /\ {Missing, Release} \subseteq Contents \ {Torn} /\ Release # Missing
      /\ Required \subseteq Names /\ Tested \subseteq Names
      /\ \A d : There(d) => Current(d) \in Contents \ {Torn} /\ Current(d) # Missing
  BY BuildTyped
     DEF Contents, Missing, Release, Torn, Content, Built, Current, Required, Names, Tested
<1>1. CASE (Invoke \/ ToolStep \/ Repin) /\ UNCHANGED sysvars
  <2>1. kills' = 0 => kills = 0
    <3>1. CASE KillTool
      BY <3>1, ToolAssumption DEF KillTool, TypeOK
    <3>2. CASE ~KillTool
      BY <1>1, <3>2 DEF Invoke, ToolStep, Repin, Choose, Clear, Install, InstallFails,
                        Record, Exec
    <3>3. QED  BY <3>1, <3>2
  <2>2. QED
    BY <1>1, <2>1 DEF sysvars, BuildInv, Complete, Uniform, Whole, Current
<1>2. CASE CommandStep
  <2>1. /\ UNCHANGED local
        /\ kills' = 0 => kills = 0
    BY <1>2, CommandQuiet DEF TypeOK
  <2>2. Complete' <=> Complete
    BY <2>1 DEF Complete
  <2>3. UNCHANGED file => (Uniform' <=> Uniform) /\ \A c, n : Whole(c, n)' <=> Whole(c, n)
    BY DEF Uniform, Whole
  <2>n. \A n \in Names : n \in Required \/ n \notin Required
    OBVIOUS
  <2> USE DEF BuildInv, At, Goto, Again, End, Fail, Quiet
  <2>4. CASE Begin
    BY <2>1, <2>2, <2>3, <2>4 DEF Begin, zvars
  <2>5. CASE RemoveSysroot
    BY <1>c, <2>5 DEF RemoveSysroot
  <2>6. CASE SetupCopy
    <3>1. step = "copy" /\ There(given) /\ given' = given
      BY <2>6 DEF SetupCopy, CopyFrom, SourceInv, FromSetup, AfterCopy
    <3>2. ASSUME kills = 0, Complete
          PROVE  \A i \in 1..k : file'[Order[i]] = Current(given)
      <4>1. local[given].has = Names
        BY <3>1, <3>2 DEF Complete, There
      <4>2. file' = [file EXCEPT ![Order[k]] = Current(given)]
        BY <1>t, <2>6, <4>1, OrderFacts DEF SetupCopy, CopyFrom
      <4>3. \A i \in 1..k - 1 : file[Order[i]] = Current(given)
        BY <3>1, <3>2
      <4>4. QED  BY <1>t, <4>2, <4>3, OrderFacts
    <3>3. \/ step' = "copy" /\ k' = k + 1
          \/ k = 4 /\ step' = "verify"
      BY <1>t, <2>6 DEF SetupCopy, CopyFrom, AfterCopy
    <3>4. CASE step' = "copy"
      BY <1>t, <2>1, <2>2, <3>1, <3>2, <3>3, <3>4 DEF Current
    <3>5. CASE step' = "verify"
      <4>1. ASSUME kills = 0, Complete
            PROVE  \A n \in Names : file'[n] = Current(given)
        BY <3>2, <3>3, <3>5, <4>1, OrderFacts
      <4>2. ASSUME kills = 0, Complete
            PROVE  Uniform' /\ \A n \in Names : file'[n] # Missing
        BY <1>c, <3>1, <4>1, <4>2 DEF Uniform, Whole
      <4>3. QED  BY <2>1, <2>2, <3>5, <4>2
    <3>6. QED  BY <3>3, <3>4, <3>5
  <2>7. CASE Verify \/ Save
    BY <2>1, <2>2, <2>3, <2>7 DEF Verify, Save, AfterBase
  <2>8. CASE Base
    <3>1. \A n \in Names : Whole(Release, n)'
      BY <2>8 DEF Base, Whole
    <3>2. Uniform'
      BY <1>c, <3>1 DEF Uniform
    <3>3. QED  BY <2>8, <3>1, <3>2 DEF Base, AfterBase
  <2>9. CASE BaseFails \/ Download \/ DownloadUnavailable \/ Fetch \/ FetchFails \/ ExtractFails
    BY <2>1, <2>2, <2>3, <2>9 DEF BaseFails, Download, DownloadUnavailable, Fetch,
       FetchFails, ExtractFails
  <2>10. CASE Extract
    <3>1. ASSUME \A n \in Names : Whole(Release, n)
          PROVE  \A n \in Names : Whole(Release, n)'
      BY <1>t, <2>10, <3>1 DEF Extract, Whole
    <3>2. ASSUME kills = 0, Complete
          PROVE  Uniform' /\ \A n \in Names : Whole(Release, n)'
      BY <1>c, <2>10, <3>1, <3>2 DEF Extract, Uniform
    <3>3. step' \in {"extract", "overlay", "failed"}
      BY <2>10 DEF Extract
    <3>4. QED  BY <2>1, <2>2, <3>2, <3>3
  <2>11. CASE Overlay
    BY <2>1, <2>2, <2>3, <2>11 DEF Overlay, AfterOverlay
  <2>12. CASE OverlayCopy
    <3>1. There(Path)
      BY <2>12 DEF SourceInv, OverlayCopy, CopyFrom
    <3>2. step' \in {"overlay_copy", "ok", "check"}
      BY <2>12 DEF OverlayCopy, CopyFrom, AfterCopy
    <3>3. ASSUME kills = 0, Complete, step' # "overlay_copy"
          PROVE  Uniform'
      <4>1. local[Path].has = Names /\ k = 4 /\ step = "overlay_copy"
        BY <1>t, <2>12, <3>1, <3>3 DEF Complete, There, OverlayCopy, CopyFrom, AfterCopy
      <4>2. file' = [file EXCEPT ![Order[k]] = Current(Path)]
        BY <1>t, <2>12, <4>1, OrderFacts DEF OverlayCopy, CopyFrom
      <4>3. \A i \in 1..3 : file[Order[i]] = Current(Path)
        BY <4>1, OrderFacts DEF OverlayInv, CopiedFrom
      <4>4. \A i \in 1..4 : file'[Order[i]] = Current(Path)
        BY <1>t, <4>1, <4>2, <4>3, OrderFacts
      <4>5. \A n \in Names : file'[n] = Current(Path)
        BY <4>4, OrderFacts
      <4>6. QED  BY <1>c, <3>1, <4>5 DEF Uniform, Whole
    <3>4. QED  BY <2>1, <2>2, <3>2, <3>3
  <2>13. CASE Check
    BY <2>1, <2>2, <2>3, <2>13 DEF Check
  <2>14. CASE Finish
    BY <2>1, <2>2, <2>3, <2>14 DEF Finish
  <2>15. CASE KillCommand
    BY <2>15 DEF KillCommand, TypeOK
  <2>16. QED
    BY <1>2, <2>4, <2>5, <2>6, <2>7, <2>8, <2>9, <2>10, <2>11, <2>12, <2>13, <2>14, <2>15
       DEF CommandStep
<1>3. CASE Clean
  <2>1. CASE UNCHANGED file
    BY <1>3, <2>1 DEF Clean, Distclean, BuildInv, Complete, Uniform, Whole
  <2>2. CASE file' = [n \in Names |-> Missing]
    BY <1>3, <1>c, <2>2 DEF Clean, Distclean, BuildInv, Uniform, Whole
  <2>3. QED  BY <1>3, <2>1, <2>2 DEF Clean
<1>4. CASE Rebuild \/ RemoveLocal
  <2>1. at = "done" /\ UNCHANGED <<step, file, kills>>
    BY <1>4 DEF Rebuild, RemoveLocal, zvars
  <2>2. \A d \in Locals : local'[d].has = local[d].has
    BY <1>4 DEF Rebuild, RemoveLocal, TypeOK
  <2>3. QED  BY <2>1, <2>2 DEF BuildInv, SourceInv, Complete, Uniform, Whole
<1>5. CASE UNCHANGED vars
  BY <1>5 DEF vars, zvars, sysvars, BuildInv, Complete, Uniform, Whole, Current
<1>6. QED
  BY <1>1, <1>2, <1>3, <1>4, <1>5 DEF Next

-----------------------------------------------------------------------------
(***************************************************************************)
(* The invariant of the whole, and what it says.                           *)
(***************************************************************************)
IInv == TypeOK /\ ToolInv /\ SourceInv /\ SetupInv /\ RequiredInv /\ OverlayInv
        /\ BuildInv

LEMMA Invariant == Spec => []IInv
<1>1. Init => IInv
  BY InitType, InitTool, InitSource, InitSetup, InitRequired, InitOverlay, InitBuild
     DEF IInv
<1>2. IInv /\ [Next]_vars => IInv'
  BY NextType, NextTool, NextSource, NextSetup, NextRequired, NextOverlay, NextBuild
     DEF IInv
<1>3. QED  BY <1>1, <1>2, PTL DEF Spec

\* The venv, the sysroot and env.json hold what some step can put there.
THEOREM HostTypes == Spec => []TypeOK
<1>1. IInv => TypeOK
  BY DEF IInv
<1>2. QED  BY <1>1, Invariant, PTL

\* z.sh runs the pinned version or the tree that was asked for (z.sh:153-183),
\* whatever was killed while it installed one.
THEOREM RightTool == Spec => []ToolIsRight
<1>1. IInv => ToolIsRight
  BY DEF IInv, ToolInv
<1>2. QED  BY <1>1, Invariant, PTL

\* A setup that ends well leaves whole files (z.py:334, :792), whatever was
\* there before, and until the next one begins none it requires goes away
\* (z.py:296, :445).
THEOREM RequiredStay == Spec => []RequiredOnceSetUp
<1>1. IInv => RequiredOnceSetUp
  BY DEF IInv, SetupInv, RequiredInv, RequiredOnceSetUp, PastVerify, Required, Names
<1>2. QED  BY <1>1, Invariant, PTL

\* Tests start on the last build of the directory in force (z.py:393).
THEOREM TestsOnLocalBuild == Spec => []TestsRunLocal
<1>1. IInv => TestsRunLocal
  <2>1. SUFFICES ASSUME IInv, Started, There(Path), NEW n \in local[Path].has
                 PROVE  file[n] = Current(Path)
    BY DEF TestsRunLocal
  <2>2. n \in Names
    BY <2>1 DEF IInv, TypeOK, There
  <2>3. PICK i \in 1..4 : Order[i] = n
    BY <2>2, OrderFacts
  <2>4. CopiedFrom(Path, i)
    BY <2>1, OrderFacts DEF IInv, OverlayInv, Started
  <2>5. QED  BY <2>1, <2>3, <2>4 DEF CopiedFrom
<1>2. QED  BY <1>1, Invariant, PTL

\* Without a kill, and with complete directories, tests start on one build
\* (z.py:297, :330, :250).
THEOREM TestsOnOneBuild == Spec => []OneBuild
<1>1. IInv => OneBuild
  <2>1. SUFFICES ASSUME IInv, Started, kills = 0, Complete
                 PROVE  \E c \in Contents \ {Missing, Torn} : \A n \in Names :
                          file[n] = c \/ (Windows /\ n \notin Required /\ file[n] = Missing)
    BY DEF OneBuild, Complete
  <2>2. step = "started"
    BY <2>1 DEF Started
  <2>3. PICK c \in Contents \ {Torn} : \A n \in Names : Whole(c, n)
    BY <2>1, <2>2 DEF IInv, BuildInv, Uniform
  <2>4. file["nanvixd"] = c /\ file["nanvixd"] # Missing
    BY <2>1, <2>2, <2>3 DEF IInv, BuildInv, Whole, Tested, Required, Names
  <2>5. QED  BY <2>3, <2>4 DEF Whole
<1>2. QED  BY <1>1, Invariant, PTL
=============================================================================
