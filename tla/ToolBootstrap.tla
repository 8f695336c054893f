--------------------------- MODULE ToolBootstrap ---------------------------
(***************************************************************************)
(* z.sh: which nanvix-zutil a command of the repository is run with.  The  *)
(* script takes the one of .nanvix/venv, the one on the PATH, or installs  *)
(* the version pinned by .zutils-version, or a source tree given with      *)
(* --with-zutils, into the venv first.  It may be killed at any point of   *)
(* that, and the network may fail it.                                      *)
(*                                                                         *)
(* python -m venv, pip and nanvix-zutil itself are outside the repository. *)
(***************************************************************************)
EXTENDS Naturals

CONSTANTS
  Versions,  \* the versions of nanvix-zutil
  Trees,     \* the source trees that --with-zutils may name
  MaxKills   \* bound: how often the user kills a command

None == "none"
Wheel == "wheel"

ASSUME ToolAssumption ==
  /\ None \notin Versions /\ {None, Wheel} \cap Trees = {}
  /\ MaxKills \in Nat

VARIABLES
  pin,     \* the content of .zutils-version
  global,  \* the version of the nanvix-zutil on the PATH, None without one;
           \* one that does not tell counts as one of another version
  venv,    \* [bin, version, source, record]: whether it has the executable,
           \* the package it has, and .with-zutils
  asked,   \* WITH_ZUTILS, or None
  at,      \* "done", or the point this invocation is at
  tool,    \* BIN, "venv" or "global"
  kills    \* how often a command was killed

zvars == <<pin, global, venv, asked, at, tool, kills>>

Places == {"choose", "clear", "install", "record", "exec", "command", "done"}
Venvs == [bin : BOOLEAN, version : Versions \cup {None},
          source : Trees \cup {None, Wheel}, record : Trees \cup {None}]

Empty == [bin |-> FALSE, version |-> None, source |-> None, record |-> None]

\* The end of the script, which forgets what it was asked for.
Ended(place) == at' = place /\ asked' = None /\ tool' = "venv"

ToolInit ==
  /\ pin \in Versions /\ global \in Versions \cup {None}
  /\ venv = Empty /\ asked = None
  /\ at = "done" /\ tool = "venv" /\ kills = 0
-----------------------------------------------------------------------------
\* nanvix-zutil --version says nothing if the executable or the package is
\* missing.
VenvVersion == IF venv.bin THEN venv.version ELSE None

\* The decision of z.sh:153-183: install first, or run what is there.  The
\* venv is preferred to the PATH as soon as it has an executable, and a directory
\* without one is as good as none.
InstallLocal == asked # None /\ (~venv.bin \/ venv.record # asked)
\* Mutant: an executable on the PATH is taken whatever its version.
InstallPinnedAbsent ==
  asked = None /\ IF venv.bin THEN VenvVersion # pin ELSE global = None
InstallPinned ==
  asked = None /\ IF venv.bin THEN VenvVersion # pin ELSE global # pin
RunGlobal == asked = None /\ ~venv.bin /\ ~InstallPinned

Choose ==
  /\ at = "choose"
  /\ at' = IF InstallLocal \/ InstallPinned THEN "clear" ELSE "exec"
  /\ tool' = IF RunGlobal THEN "global" ELSE "venv"
  /\ UNCHANGED <<pin, global, venv, asked, kills>>

\* python3 -m venv --clear: what the directory held is gone.
Clear ==
  /\ at = "clear"
  /\ venv' = Empty /\ at' = "install"
  /\ UNCHANGED <<pin, global, asked, tool, kills>>

\* pip install: the wheel of the pinned version, or the tree, whatever its
\* version is.
Install ==
  /\ at = "install"
  /\ \E v \in IF asked = None THEN {pin} ELSE Versions :
       venv' = [venv EXCEPT !.bin = TRUE, !.version = v,
                            !.source = IF asked = None THEN Wheel ELSE asked]
  /\ at' = IF asked = None THEN "exec" ELSE "record"
  /\ UNCHANGED <<pin, global, asked, tool, kills>>

\* Some of what pip installs: the executable, the package, both or neither.
HalfInstalled ==
  \E b \in BOOLEAN, v \in {None} \cup IF asked = None THEN {pin} ELSE Versions :
    venv' = [venv EXCEPT !.bin = b, !.version = v,
                         !.source = IF v = None THEN None
                                    ELSE IF asked = None THEN Wheel ELSE asked]

\* No python3, and nothing is touched; or no venv, no network or a tree that
\* does not build, and set -e ends the script over what was installed so far.
InstallFails ==
  /\ \/ at = "clear" /\ UNCHANGED venv
     \/ at = "install" /\ HalfInstalled
  /\ Ended("done")
  /\ UNCHANGED <<pin, global, kills>>

Record ==
  /\ at = "record"
  /\ venv' = [venv EXCEPT !.record = asked] /\ at' = "exec"
  /\ UNCHANGED <<pin, global, asked, tool, kills>>

\* What BIN runs: the package of the venv or of the PATH.
Works == IF tool = "global" THEN global \in Versions ELSE VenvVersion # None
RunVersion == IF tool = "global" THEN global ELSE VenvVersion

\* exec "$BIN": a tool without its package fails.
Exec ==
  /\ at = "exec"
  /\ Ended(IF Works THEN "command" ELSE "done")
  /\ UNCHANGED <<pin, global, venv, kills>>

\* A kill, or an error, during Clear leaves some of the entries of the
\* directory, which are removed in no particular order, and a kill during
\* Install leaves some of what pip installs.
Gone(b, v, r) ==
  [bin |-> venv.bin /\ b,
   version |-> IF v THEN venv.version ELSE None,
   source |-> IF v THEN venv.source ELSE None,
   record |-> IF r THEN venv.record ELSE None]

KillTool ==
  /\ at \in Places \ {"command", "done"} /\ kills < MaxKills
  /\ CASE at = "clear" -> \E b, v, r \in BOOLEAN : venv' = Gone(b, v, r)
       [] at = "install" -> HalfInstalled
       [] OTHER -> UNCHANGED venv
  /\ kills' = kills + 1 /\ Ended("done")
  /\ UNCHANGED <<pin, global>>

\* ./z.sh distclean: the tool does its part; only if it succeeds (set -e) is
\* the venv removed.
Distclean ==
  /\ at = "command"
  /\ venv' \in {Empty, venv} /\ at' = "done"
  /\ UNCHANGED <<pin, global, asked, tool, kills>>

ToolStep == Choose \/ Clear \/ Install \/ InstallFails \/ Record \/ Exec \/ KillTool

\* Between two invocations: another pin is checked out.
Repin ==
  /\ at = "done"
  /\ \E v \in Versions \ {pin} : pin' = v
  /\ UNCHANGED <<global, venv, asked, at, tool, kills>>

Invoke ==
  /\ at = "done"
  /\ asked' \in Trees \cup {None} /\ at' = "choose"
  /\ UNCHANGED <<pin, global, venv, tool, kills>>
-----------------------------------------------------------------------------
\* Without --with-zutils a command is run by the pinned version, and by no
\* other (z.sh:14-17), whatever was installed, recorded or killed before; with
\* it, by the tree that was asked for, or by nothing if a kill removed the
\* package of that tree and neither the executable nor the record.
ToolIsRight ==
  at = "exec" =>
    /\ asked = None => RunVersion = pin
    /\ asked # None => venv.source = asked \/ (venv.source = None /\ kills > 0)
=============================================================================
