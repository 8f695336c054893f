---------------------------- MODULE MCHostSetup ----------------------------
(***************************************************************************)
(* HostSetup for TLC: versions are alike, and so are trees and local       *)
(* directories.  The bootstrap and the sysroot share only where the script *)
(* is, so that one of the two at a time is taken away from its default.    *)
(***************************************************************************)
EXTENDS HostSetup, TLC

Symmetry == Permutations(Versions) \cup Permutations(Trees) \cup Permutations(Locals)

\* No tree, no tool on the PATH, and no version but the pinned one.
DefaultTool ==
  /\ global = None /\ asked = None /\ venv.source \in {None, Wheel}
  /\ venv.record = None /\ venv.version \in {None, pin}
\* No local directory: the release, or part of it.
DefaultSysroot == given = None /\ kept = None /\ \A d \in Locals : ~There(d)
OneAtATime == DefaultTool \/ DefaultSysroot
=============================================================================
