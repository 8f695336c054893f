----------------------------- MODULE HostSetup -----------------------------
(***************************************************************************)
(* ./z.sh [--with-zutils TREE] setup|test|distclean, again and again: each *)
(* invocation gets its tool as module ToolBootstrap has it, and the tool   *)
(* runs the command as module SysrootSetup has it.  Between two of them    *)
(* another pin may be checked out, and Nanvix built or removed.            *)
(***************************************************************************)
EXTENDS SysrootSetup

Init == ToolInit /\ SysInit

\* Whether nanvix-zutil's own part of it removes the sysroot, env.json and the
\* cache too is its affair.
Clean ==
  /\ at = "command" /\ step \in Rest
  /\ Distclean
  /\ \/ UNCHANGED <<file, sysroot, kept, cache>>
     \/ /\ file' = [n \in Names |-> Missing] /\ sysroot' = FALSE
        /\ kept' = None /\ cache' = "none"
  /\ setup' = "none"
  /\ step' = "ok" /\ cmd' = "distclean"
  /\ UNCHANGED <<local, given, k>>

Rebuild ==
  /\ at = "done"
  /\ \A d \in Locals : local[d].builds < MaxBuilds
  /\ \E d \in Locals : There(d) /\ local' = [local EXCEPT ![d].builds = @ + 1]
  /\ UNCHANGED <<zvars, file, sysroot, kept, cache, cmd, given, step, k, setup>>

RemoveLocal ==
  /\ at = "done"
  /\ \E d \in Locals : There(d) /\ local' = [local EXCEPT ![d].builds = 0]
  /\ UNCHANGED <<zvars, file, sysroot, kept, cache, cmd, given, step, k, setup>>

Next ==
  \/ (Invoke \/ ToolStep \/ Repin) /\ UNCHANGED sysvars
  \/ CommandStep \/ Clean \/ Rebuild \/ RemoveLocal

Spec == Init /\ [][Next]_vars
-----------------------------------------------------------------------------
(***************************************************************************)
(* Properties.                                                             *)
(***************************************************************************)
\* The venv, the sysroot and env.json hold what some step can put there.
TypeOK ==
  /\ pin \in Versions /\ global \in Versions \cup {None} /\ venv \in Venvs
  /\ asked \in Trees \cup {None} /\ at \in Places /\ tool \in {"venv", "global"}
  /\ kills \in 0..MaxKills
  /\ file \in [Names -> Contents] /\ sysroot \in BOOLEAN /\ kept \in Locals \cup {None}
  /\ local \in [Locals -> [builds : 0..MaxBuilds, has : SUBSET Names]]
  /\ cache \in {"none", "whole", "partial", "torn"}
  /\ cmd \in {"setup", "test", "distclean"} /\ given \in Locals \cup {None}
  /\ step \in Steps /\ k \in 1..Len(Order)
  /\ setup \in {"none", "begun", "ok"}

Started == at = "command" /\ step = "started"

\* Tests start on the last build of the local directory in force, the one
\* named now or the one remembered: no binary of it that the sysroot has is
\* older or torn, whatever was killed or rebuilt since the last command
\* (z.py:180-251).  If the directory is gone they start on anything.
TestsRunLocal ==
  Started /\ There(Path) => \A n \in local[Path].has : file[n] = Current(Path)

\* If no command was killed and local builds are complete, tests start on the
\* binaries of a single build, even after the directory is gone or was given
\* up for another one, or for the release (z.py:297, :330, :250); on Windows
\* one that nobody checks may be missing (z.py:751).
OneBuild ==
  Started /\ kills = 0 /\ (\A d \in Locals : local[d].has = Names) =>
    \E c \in Contents \ {Missing, Torn} : \A n \in Names :
      file[n] = c \/ (Windows /\ n \notin Required /\ file[n] = Missing)

\* A setup that succeeds leaves all files it requires whole, whatever an
\* earlier one that was killed left behind (z.py:334, :782-799); and until the
\* next setup or distclean no overlay, kill, rebuild or failed start takes one
\* away: tests start without a kernel only if the last setup failed, was
\* killed or was cleaned away, for nobody looks again (z.py:296, :445).
RequiredOnceSetUp ==
  setup = "ok" =>
    \A n \in Required : file[n] # Missing /\ (cmd = "setup" => file[n] # Torn)
=============================================================================
