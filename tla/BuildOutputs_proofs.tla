------------------------ MODULE BuildOutputs_proofs ------------------------
(***************************************************************************)
(* Proofs about BuildOutputs, for every set of suites, modes and           *)
(* toolchains, and every number of edits and kills.                        *)
(***************************************************************************)
EXTENDS BuildOutputs, TLAPS

(***************************************************************************)
(* How far the build has come: the suites its loop has been to are made of *)
(* the sources of now, and staged; and nothing changes after a build but   *)
(* by a command or an edit, which says so.                                 *)
(***************************************************************************)
Fresh(s) == build[s].source = source[s]
BuildInv ==
  /\ pc # "idle" => last = "started"
  /\ pc = "make" => \A s \in Suites \ todo : Fresh(s)
  /\ pc = "stage" \/ last = "build" => \A s \in Suites : Fresh(s)
  /\ pc = "stage" => \A s \in Suites \ todo : staged[s] = build[s]
  /\ last = "build" => staged = build

(***************************************************************************)
(* Once the objects were removed, an object is of the sources, headers and *)
(* mode of now or is not there, as long as nothing changes; so that what   *)
(* is linked is current as well.                                           *)
(***************************************************************************)
CleanInv ==
  cleaned =>
    /\ \A s \in Suites : object[s] = None \/ object[s] = Current(s)
    /\ pc = "make" => \A s \in Suites \ todo : build[s] = Current(s)
    /\ pc = "stage" \/ last = "build" => \A s \in Suites : build[s] = Current(s)

(***************************************************************************)
(* Only staging writes the staging area: outside of it, and unless it was  *)
(* stopped, what is there is of the .c files the last good build found.    *)
(***************************************************************************)
ReleaseInv ==
  pc # "stage" /\ ~stopped => \A s \in Suites : staged[s].source = released[s]

IInv == TypeOK /\ BuildInv /\ CleanInv /\ ReleaseInv
-----------------------------------------------------------------------------
(***************************************************************************)
(* What make links has its types, is of the source of now, and after a     *)
(* clean of everything of now.                                             *)
(***************************************************************************)
LEMMA LinkedFacts ==
  ASSUME TypeOK, NEW s \in Suites, NEW m \in Modes
  PROVE  /\ Linked(s, m) \in Compiled /\ None \in Compiled
         /\ Linked(s, m).source = source[s]
         /\ object[s] = None \/ object[s] = CompiledFor(s, m)
              => Linked(s, m) = CompiledFor(s, m)
<1> USE DEF TypeOK
<1>1. /\ CompiledFor(s, m) \in Compiled /\ CompiledFor(s, m).source = source[s]
      /\ None \in Compiled
  BY DEF CompiledFor, Compiled
<1>2. object[s] = None => ~UpToDate(s)
  BY DEF UpToDate, None
<1>3. UpToDate(s) => object[s].source = source[s]
  BY DEF UpToDate
<1>4. QED  BY <1>1, <1>2, <1>3 DEF Linked

(***************************************************************************)
(* The one object a make that stops half way may leave is such a one.      *)
(***************************************************************************)
LEMMA LeftFacts ==
  ASSUME TypeOK, LeavesObject
  PROVE  /\ object' \in [Suites -> Compiled]
         /\ (\A s \in Suites : object[s] = None \/ object[s] = Current(s))
              => \A s \in Suites : object'[s] = None \/ object'[s] = Current(s)
<1>1. CASE UNCHANGED object
  BY <1>1 DEF TypeOK
<1>2. ASSUME NEW t \in todo, object' = [object EXCEPT ![t] = Linked(t, mode)]
      PROVE  /\ object' \in [Suites -> Compiled]
             /\ (\A s \in Suites : object[s] = None \/ object[s] = Current(s))
                  => \A s \in Suites : object'[s] = None \/ object'[s] = Current(s)
  <2>1. /\ t \in Suites /\ object \in [Suites -> Compiled]
        /\ Linked(t, mode) \in Compiled
        /\ object[t] = None \/ object[t] = Current(t)
             => Linked(t, mode) = Current(t)
    BY LinkedFacts DEF TypeOK, Current
  <2>2. QED  BY <1>2, <2>1
<1>3. QED  BY <1>1, <1>2 DEF LeavesObject

(***************************************************************************)
(* What is fresh is there, so that tests take it.                          *)
(***************************************************************************)
LEMMA FreshIsThere ==
  ASSUME TypeOK, NEW s \in Suites, Fresh(s)
  PROVE  UnderTest(s) = build[s]
<1>1. build[s] # None
  BY DEF TypeOK, Fresh, None
<1>2. QED  BY <1>1 DEF UnderTest, FromBuild

(***************************************************************************)
(* Types.                                                                  *)
(***************************************************************************)
LEMMA InitType == Init => TypeOK
<1>1. None \in Compiled
  BY DEF Compiled
<1>2. Init => /\ object \in [Suites -> Compiled] /\ build \in [Suites -> Compiled]
              /\ staged \in [Suites -> Compiled]
  BY <1>1 DEF Init
<1>3. Init => source \in [Suites -> Nat \ {0}] /\ header \in [Suites -> Nat \ {0}]
  BY DEF Init
<1>4. Init => /\ mode \in Modes /\ pc = "idle" /\ todo \subseteq Suites
              /\ last = "none" /\ changes \in Nat /\ kills \in Nat
              /\ released \in [Suites -> Nat]
  BY DEF Init
<1>5. Init => cleaned \in BOOLEAN /\ stopped \in BOOLEAN
  BY Zenon DEF Init
<1>6. QED  BY <1>2, <1>3, <1>4, <1>5 DEF TypeOK

LEMMA NextType ==
  ASSUME TypeOK, [Next]_vars
  PROVE  TypeOK'
<1> USE DEF TypeOK, tree, outputs, command, release, bounds
<1>0. \A s \in Suites, m \in Modes : Linked(s, m) \in Compiled /\ None \in Compiled
  BY LinkedFacts
<1>1. ASSUME NEW s \in Suites, EditSource(s) \/ EditHeader(s)  PROVE TypeOK'
  <2>1. source' \in [Suites -> Nat \ {0}] /\ header' \in [Suites -> Nat \ {0}]
    BY <1>1 DEF EditSource, EditHeader
  <2>2. cleaned' \in BOOLEAN
    BY <1>1, Zenon DEF EditSource, EditHeader, Changed
  <2>3. changes' \in Nat
    BY <1>1 DEF EditSource, EditHeader, Changed
  <2>4. QED  BY <1>1, <2>1, <2>2, <2>3 DEF EditSource, EditHeader, Changed
<1>2. ASSUME NEW m \in Modes, Configure(m)  PROVE TypeOK'
  <2>1. cleaned' \in BOOLEAN
    BY <1>2, Zenon DEF Configure, Changed
  <2>2. changes' \in Nat /\ mode' \in Modes
    BY <1>2 DEF Configure, Changed
  <2>3. QED  BY <1>2, <2>1, <2>2 DEF Configure, Changed
<1>3. CASE BuildNative \/ MakeEnds
  BY <1>3 DEF BuildNative, MakeEnds
<1>b. CASE BuildEnds
  <2>1. released' \in [Suites -> Nat] /\ stopped' \in BOOLEAN
    BY <1>b DEF BuildEnds
  <2>2. QED  BY <1>b, <2>1 DEF BuildEnds
<1>f. CASE MakeFails
  BY <1>f, LeftFacts DEF MakeFails
<1>k. CASE Kill
  <2>1. object' \in [Suites -> Compiled]
    BY <1>k, LeftFacts DEF Kill
  <2>2. stopped' \in BOOLEAN
    BY <1>k, Zenon DEF Kill
  <2>3. QED  BY <1>k, <2>1, <2>2 DEF Kill
<1>4. ASSUME NEW s \in Suites, MakeSuite(s)  PROVE TypeOK'
  BY <1>0, <1>4 DEF MakeSuite
<1>5. ASSUME NEW s \in Suites, StageSuite(s)  PROVE TypeOK'
  BY <1>5 DEF StageSuite
<1>6. CASE DockerBuild
  BY <1>0, <1>6 DEF DockerBuild, DockerExport
<1>7. CASE Clean
  BY <1>0, <1>7 DEF Clean
<1>8. CASE HostMake
  BY <1>0, <1>8 DEF HostMake, DockerExport
<1>9. CASE HostClean
  BY <1>0, <1>9 DEF HostClean
<1>10. CASE UNCHANGED vars
  BY <1>10 DEF vars
<1>11. QED
  BY <1>1, <1>2, <1>3, <1>4, <1>5, <1>6, <1>7, <1>8, <1>9, <1>10, <1>b, <1>f, <1>k
  DEF Next

(***************************************************************************)
(* How far the build has come.                                             *)
(***************************************************************************)
LEMMA InitBuild == Init => BuildInv
BY DEF Init, BuildInv

LEMMA NextBuild ==
  ASSUME TypeOK, BuildInv, [Next]_vars
  PROVE  BuildInv'
<1> USE DEF BuildInv, Fresh, tree, outputs, command, release, bounds
<1>0. \A s \in Suites, m \in Modes : Linked(s, m).source = source[s]
  BY LinkedFacts
<1>m. mode \in Modes
  BY DEF TypeOK
<1>t. build \in [Suites -> Compiled] /\ staged \in [Suites -> Compiled]
  BY DEF TypeOK
<1>1. ASSUME NEW s \in Suites, EditSource(s) \/ EditHeader(s)  PROVE BuildInv'
  BY <1>1 DEF EditSource, EditHeader, Changed
<1>2. ASSUME NEW m \in Modes, Configure(m)  PROVE BuildInv'
  BY <1>2 DEF Configure, Changed
<1>3. CASE BuildNative \/ MakeFails \/ MakeEnds \/ Kill
  BY <1>3 DEF BuildNative, MakeFails, MakeEnds, Kill
<1>4. ASSUME NEW s \in Suites, MakeSuite(s)  PROVE BuildInv'
  BY <1>0, <1>m, <1>t, <1>4 DEF MakeSuite
<1>5. ASSUME NEW s \in Suites, StageSuite(s)  PROVE BuildInv'
  <2>1. Fresh(s) /\ build[s] # None
    BY <1>5 DEF StageSuite, TypeOK, None
  <2>2. QED  BY <1>t, <1>5, <2>1 DEF StageSuite
<1>6. CASE DockerBuild
  BY <1>0, <1>m, <1>6 DEF DockerBuild, DockerExport
<1>7. CASE BuildEnds
  <2>1. \A s \in Suites : staged[s] = build[s]
    BY <1>7 DEF BuildEnds
  <2>2. staged = build
    BY <1>t, <2>1
  <2>3. QED  BY <1>7, <2>2 DEF BuildEnds
<1>8. CASE Clean \/ HostMake \/ HostClean
  BY <1>8 DEF Clean, HostMake, HostClean
<1>9. CASE UNCHANGED vars
  BY <1>9 DEF vars
<1>10. QED
  BY <1>1, <1>2, <1>3, <1>4, <1>5, <1>6, <1>7, <1>8, <1>9 DEF Next

(***************************************************************************)
(* What follows a clean is current.                                        *)
(***************************************************************************)
LEMMA InitClean == Init => CleanInv
BY DEF Init, CleanInv

LEMMA NextClean ==
  ASSUME TypeOK, BuildInv, CleanInv, [Next]_vars
  PROVE  CleanInv'
<1> USE DEF CleanInv, Current, CompiledFor, tree, outputs, command, release, bounds
<1>0. cleaned => \A s \in Suites : Linked(s, mode) = Current(s)
  BY LinkedFacts DEF TypeOK
<1>t. build \in [Suites -> Compiled] /\ object \in [Suites -> Compiled]
  BY DEF TypeOK
<1>1. ASSUME NEW s \in Suites, EditSource(s) \/ EditHeader(s)  PROVE CleanInv'
  BY <1>1 DEF EditSource, EditHeader, Changed
<1>2. ASSUME NEW m \in Modes, Configure(m)  PROVE CleanInv'
  BY <1>2 DEF Configure, Changed
<1>3. CASE BuildNative \/ MakeEnds \/ BuildEnds
  BY <1>3 DEF BuildNative, MakeEnds, BuildEnds
<1>f. CASE MakeFails \/ Kill
  <2>1. cleaned => \A s \in Suites : object'[s] = None \/ object'[s] = Current(s)
    BY <1>f, LeftFacts DEF MakeFails, Kill
  <2>2. QED  BY <1>f, <2>1 DEF MakeFails, Kill
<1>4. ASSUME NEW s \in Suites, MakeSuite(s)  PROVE CleanInv'
  BY <1>0, <1>t, <1>4 DEF MakeSuite, BuildInv
<1>5. ASSUME NEW s \in Suites, StageSuite(s)  PROVE CleanInv'
  BY <1>5 DEF StageSuite
<1>6. CASE DockerBuild
  BY <1>0, <1>6 DEF DockerBuild, DockerExport
<1>7. CASE Clean
  BY <1>7 DEF Clean, BuildInv
<1>8. CASE HostMake
  BY <1>8 DEF HostMake, BuildInv
<1>9. CASE HostClean
  BY <1>9 DEF HostClean
<1>10. CASE UNCHANGED vars
  BY <1>10 DEF vars
<1>11. QED
  BY <1>1, <1>2, <1>3, <1>4, <1>5, <1>6, <1>7, <1>8, <1>9, <1>10, <1>f DEF Next

(***************************************************************************)
(* What is in the staging area.                                            *)
(***************************************************************************)
LEMMA InitRelease == Init => ReleaseInv
BY DEF Init, ReleaseInv, None

LEMMA NextRelease ==
  ASSUME TypeOK, BuildInv, ReleaseInv, [Next]_vars
  PROVE  ReleaseInv'
<1> USE DEF ReleaseInv, tree, outputs, command, release, bounds
<1>1. ASSUME NEW s \in Suites, EditSource(s) \/ EditHeader(s)  PROVE ReleaseInv'
  BY <1>1 DEF EditSource, EditHeader, Changed
<1>2. ASSUME NEW m \in Modes, Configure(m)  PROVE ReleaseInv'
  BY <1>2 DEF Configure, Changed
<1>3. CASE BuildNative \/ MakeFails \/ MakeEnds
  BY <1>3 DEF BuildNative, MakeFails, MakeEnds
<1>4. ASSUME NEW s \in Suites, MakeSuite(s) \/ StageSuite(s)  PROVE ReleaseInv'
  BY <1>4 DEF MakeSuite, StageSuite
<1>5. CASE DockerBuild
  BY <1>5 DEF DockerBuild
<1>6. CASE BuildEnds
  BY <1>6 DEF BuildEnds, BuildInv, Fresh
<1>7. CASE Clean \/ HostMake \/ HostClean
  BY <1>7 DEF Clean, HostMake, HostClean
<1>8. CASE Kill
  BY <1>8 DEF Kill
<1>9. CASE UNCHANGED vars
  BY <1>9 DEF vars
<1>10. QED
  BY <1>1, <1>2, <1>3, <1>4, <1>5, <1>6, <1>7, <1>8, <1>9 DEF Next
-----------------------------------------------------------------------------
(***************************************************************************)
(* The conjunction is inductive.                                           *)
(***************************************************************************)
LEMMA Invariant == Spec => []IInv
<1>1. Init => IInv
  BY InitType, InitBuild, InitClean, InitRelease DEF IInv
<1>2. IInv /\ [Next]_vars => IInv'
  BY NextType, NextBuild, NextClean, NextRelease DEF IInv
<1>3. QED  BY <1>1, <1>2, PTL DEF Spec

(***************************************************************************)
(* Objects, binaries and staged copies are nothing, or of some version of  *)
(* the sources and some mode, in every state of the checkout.              *)
(***************************************************************************)
THEOREM BuildTypes == Spec => []TypeOK
<1>1. IInv => TypeOK
  BY DEF IInv
<1>2. QED  BY <1>1, Invariant, PTL

(***************************************************************************)
(* After ./z build ended well the tests run binaries of the .c files as    *)
(* they are, whatever earlier builds, failures and kills left.             *)
(***************************************************************************)
THEOREM EditsReach == Spec => []SourceEditsReach
<1>1. IInv => SourceEditsReach
  BY FreshIsThere DEF IInv, BuildInv, SourceEditsReach, Fresh
<1>2. QED  BY <1>1, Invariant, PTL

(***************************************************************************)
(* After ./z build ended well what is staged is what is in build/, also    *)
(* over the remains of a staging that was stopped half way.                *)
(***************************************************************************)
THEOREM Staged == Spec => [](last = "build" => staged = build)
<1>1. IInv => (last = "build" => staged = build)
  BY DEF IInv, BuildInv
<1>2. QED  BY <1>1, Invariant, PTL

(***************************************************************************)
(* The build that follows ./z clean has the current sources, headers and   *)
(* flags, whichever commands ran in between.                               *)
(***************************************************************************)
THEOREM CleanHelps == Spec => []CleanBuildIsCurrent
<1>1. IInv => CleanBuildIsCurrent
  <2>1. SUFFICES ASSUME IInv, last = "build", cleaned, NEW s \in Suites
                 PROVE  UnderTest(s) = Current(s)
    BY DEF CleanBuildIsCurrent
  <2>2. Fresh(s) /\ build[s] = Current(s)
    BY <2>1 DEF IInv, BuildInv, CleanInv
  <2>3. QED  BY <2>1, <2>2, FreshIsThere DEF IInv
<1>2. QED  BY <1>1, Invariant, PTL

(***************************************************************************)
(* With nothing in build/ the tests fall back on the binaries of the last  *)
(* ./z build that ended well, unless staging was stopped half way.         *)
(***************************************************************************)
THEOREM Fallback == Spec => []FallbackIsLastBuild
<1>1. IInv => FallbackIsLastBuild
  <2>1. SUFFICES ASSUME IInv, ~FromBuild, ~stopped, NEW s \in Suites
                 PROVE  UnderTest(s).source = released[s]
    BY DEF FallbackIsLastBuild
  <2>2. UnderTest(s) = staged[s]
    BY <2>1 DEF UnderTest
  <2>3. pc # "stage"
    <3>1. SUFFICES ASSUME pc = "stage"  PROVE FALSE
      OBVIOUS
    <3>2. build[s].source = source[s]
      BY <2>1, <3>1 DEF IInv, BuildInv, Fresh
    <3>3. build[s] # None
      BY <2>1, <3>2 DEF IInv, TypeOK, None
    <3>4. QED  BY <2>1, <3>3 DEF FromBuild
  <2>4. QED  BY <2>1, <2>2, <2>3 DEF IInv, ReleaseInv
<1>2. QED  BY <1>1, Invariant, PTL
=============================================================================
