----------------------------- MODULE FileTests -----------------------------
(***************************************************************************)
(* file-c, the tests of the file system calls: main() of src/file-c/main.c *)
(* runs 44 tests (27 when built for standalone mode) one after the other   *)
(* in one process and one working directory, each with names of its own    *)
(* that it creates and removes again.                                      *)
(*                                                                         *)
(* The tests are data, the sequences of calls of module FileScripts; the   *)
(* actions below are what the calls do in the library, which is outside    *)
(* the repository, and what the tests assert about them.  The library has  *)
(* at most one fault.  A run on a file system that outlives it may be      *)
(* killed and started again.                                               *)
(***************************************************************************)
EXTENDS FileScripts, FiniteSets

CONSTANTS
  MaxRuns  \* bound: how often the suite is started on one file system

ASSUME ConstantsAssumption == MaxRuns \in Nat

(***************************************************************************)
(* One wrong behaviour each of a call; the comments say which.             *)
(***************************************************************************)
Faults == {
  "write_drops",      \* write() stores zeros
  "lseek_end",        \* SEEK_END goes to the beginning
  "lseek_set",        \* SEEK_SET reports the offset but does not go there
  "pread_at_pos", "preadv_at_pos", "pwrite_at_pos", "pwritev_at_pos",
                      \* the offset given is ignored
  "pread_moves",      \* pread() moves the file offset
  "fallocate_none", "ftruncate_none", "utime_none", "chdir_none",
  "fchdir_none", "chmod_none", "fchmod_none", "lchmod_none", "rename_none",
                      \* the call returns 0 and does nothing
  "utime_swapped",    \* the two times are exchanged
  "unlink_keeps", "rmdir_keeps", "rename_keeps",
                      \* the old name stays
  "unlink_all",       \* all names of the file go
  "link_copies",      \* link() makes a second file
  "link_count",       \* st_nlink of a file stays 1
  "symlink_hard",     \* symlink() makes a hard link
  "readlink_short", "readlinkat_short",
                      \* only the beginning of the link is returned
  "mkdir_links",      \* st_nlink of a directory is 1
  "mkdir_existing",   \* mkdir() of what is there succeeds
  "excl_ignored",     \* O_EXCL has no effect
  "creat_truncates",  \* O_CREAT empties a file that is there
  "creat_mode",       \* the mode of a new file is ignored
  "access_always",    \* access() grants everything
  "getcwd_fixed",     \* getcwd() returns the initial directory
  "poll_never"}       \* poll() and select() only time out

VARIABLES
  \* the world, which does not change
  fault,       \* "none" or one of Faults
  standalone,  \* built with __NANVIX_STANDALONE__
  privileged,  \* the process may access files whatever their mode
  noisy,       \* successful calls may leave errno set, as POSIX allows
  \* the file system
  dir,         \* name -> inode, or None
  node,        \* inode -> what it holds
  \* the process
  open,        \* handle -> [inode, pos], or Closed
  cwd,         \* the inode of the current working directory
  saved,       \* the local in which a test keeps a file status
  saved_cwd,   \* the local in which it keeps the working directory
  test, step,  \* the call to be made next
  status,      \* "running", "ok", or "aborted" or "killed" in a test
  \* runs
  run,         \* number of this run
  found        \* history: the run started on names that block it

world == <<fault, standalone, privileged, noisy>>
disk == <<dir, node>>
locals == <<open, cwd, saved, saved_cwd>>
where == <<test, step, status>>
vars == <<world, disk, locals, where, run, found>>

Names == {".", "README.md", "README.link", "testfile_open_close.tmp",
  "testfile.txt", "testfile.tmp", "testfile.link", "testfile_stat.tmp",
  "poll_testfile.tmp", "select_testfile.tmp", "test.txt", "renamed.txt",
  "testdir", "testdir_chdir", "testdir_fchdir"}
Handles == {"fd", "initial_directory_fd", "target_directory_fd", "dirp"}

None == -1
Root == 0
Readme == 1
\* Enough that each name and each handle may have one of its own.
Nodes == 0..(Cardinality(Names) + Cardinality(Handles))

Closed == [inode |-> None, pos |-> 0]
Free == [type |-> "free", data |-> <<>>, mode |-> {}, atime |-> 0, mtime |-> 0]
New(type, data, mode) ==
  [type |-> type, data |-> data, mode |-> mode, atime |-> 1, mtime |-> 1]

InitialDir == [n \in Names |-> IF n = "." THEN Root
                               ELSE IF n = "README.md" THEN Readme ELSE None]
InitialNode == [k \in Nodes |-> IF k = Root THEN New("dir", <<>>, RWX)
                                ELSE IF k = Readme THEN New("file", Text, RW)
                                ELSE Free]

Init ==
  /\ fault \in Faults \cup {"none"}
  /\ standalone \in BOOLEAN /\ privileged \in BOOLEAN /\ noisy \in BOOLEAN
  /\ fault # "none" => ~privileged /\ ~noisy
  /\ dir = InitialDir /\ node = InitialNode
  /\ open = [h \in Handles |-> Closed]
  /\ cwd = Root /\ saved = Free /\ saved_cwd = Root
  /\ test = 1 /\ step = 1 /\ status = "running"
  /\ run = 1 /\ found = FALSE

-----------------------------------------------------------------------------
(***************************************************************************)
(* The process: main() goes from call to call, a failed assertion ends it. *)
(***************************************************************************)
Suite == Tests(standalone)
Now == Suite[test][step]
At(calls) == status = "running" /\ Now.call \in calls

GoOn ==
  /\ status' = IF test = Len(Suite) /\ step = Len(Suite[test])
               THEN "ok" ELSE "running"
  /\ IF step < Len(Suite[test]) THEN step' = step + 1 /\ UNCHANGED test
     ELSE step' = 1 /\ test' = IF test < Len(Suite) THEN test + 1 ELSE 1
  /\ UNCHANGED <<world, run, found>>

\* Inodes nothing refers to any more are free again; handles of a process
\* that ended refer to nothing.
Settle(contents) ==
  LET used == {dir'[n] : n \in Names} \cup {open'[h].inode : h \in Handles}
  IN  node' = [k \in Nodes |-> IF k \in used THEN contents[k] ELSE Free]

EndProcess(how) ==
  /\ status' = how
  /\ open' = [h \in Handles |-> Closed]
  /\ cwd' = Root /\ saved' = Free /\ saved_cwd' = Root
  /\ test' = 1 /\ step' = 1
  /\ UNCHANGED <<world, dir, run, found>>
  /\ Settle(node)

\* assert(ok): the call has the effect, or the process aborts.
Assert(ok, effect) == \/ ok /\ effect /\ GoOn
                      \/ ~ok /\ EndProcess("aborted")

-----------------------------------------------------------------------------
(***************************************************************************)
(* The library.                                                            *)
(***************************************************************************)
NewInode == CHOOSE k \in Nodes : \A n \in Names, h \in Handles :
                                   k # dir[n] /\ k # open[h].inode
Exists(name) == dir[name] # None

\* Symbolic links lead to the name they hold.
Follow(name) == IF node[dir[name]].type = "link" THEN dir[node[dir[name]].data[1]]
                ELSE dir[name]

\* What stat() returns of a file, and fstat() of an open one.
Status(name) == node[Follow(name)]

\* Its st_nlink; a directory has its name and ".".
LinkCount(name) ==
  IF Status(name).type = "dir" THEN IF fault = "mkdir_links" THEN 1 ELSE 2
  ELSE IF fault = "link_count" THEN 1
  ELSE Cardinality({n \in Names : dir[n] = Follow(name)})

Allowed(mode, wanted) == privileged \/ wanted \subseteq mode
Wanted(flags) ==
  (IF flags \cap {"O_RDONLY", "O_RDWR"} # {} THEN {"S_IRUSR"} ELSE {})
    \cup (IF flags \cap {"O_WRONLY", "O_RDWR"} # {} THEN {"S_IWUSR"} ELSE {})

SysOpen ==
  /\ At({"open", "opendir"})
  /\ LET there == Exists(Now.name)
         ok == IF there
               THEN /\ "O_EXCL" \in Now.flags => fault = "excl_ignored"
                    /\ Allowed(node[dir[Now.name]].mode, Wanted(Now.flags))
               ELSE "O_CREAT" \in Now.flags
         k == IF there THEN dir[Now.name] ELSE NewInode
         mode == IF fault = "creat_mode" THEN {"S_IRUSR", "S_IWUSR", "S_IRGRP"}
                 ELSE Now.mode
         effect ==
           /\ dir' = [dir EXCEPT ![Now.name] = k]
           /\ open' = [open EXCEPT ![Now.handle] = [inode |-> k, pos |-> 0]]
           /\ Settle([node EXCEPT ![k] =
                IF ~there THEN New("file", <<>>, mode)
                ELSE IF fault = "creat_truncates" /\ "O_CREAT" \in Now.flags
                THEN [@ EXCEPT !.data = <<>>] ELSE @])
     IN  Assert(ok, effect /\ UNCHANGED <<cwd, saved, saved_cwd>>)

SysClose ==
  /\ At({"close", "closedir"})
  /\ Assert(open[Now.handle] # Closed,
            /\ open' = [open EXCEPT ![Now.handle] = Closed]
            /\ UNCHANGED <<dir, cwd, saved, saved_cwd>>
            /\ Settle(node))

-----------------------------------------------------------------------------
\* The calls on the open file fd.
File == node[open["fd"].inode]
Pos == open["fd"].pos

\* data with the pieces of new from offset at on.
Written(data, at, new) ==
  [i \in 1..(IF at + Len(new) > Len(data) THEN at + Len(new) ELSE Len(data)) |->
     IF i \in (at + 1)..(at + Len(new)) THEN new[i - at]
     ELSE IF i <= Len(data) THEN data[i] ELSE Zero]

SetFile(data) ==
  /\ node' = [node EXCEPT ![open["fd"].inode].data = data]
  /\ UNCHANGED <<dir, cwd, saved, saved_cwd>>
SetPos(pos) == open' = [open EXCEPT !["fd"].pos = pos]

\* write() and writev(); the piece that is lost is replaced by zeros.
SysWrite ==
  /\ At({"write", "writev"})
  /\ LET new == IF fault = "write_drops" THEN [i \in DOMAIN Now.data |-> Zero]
                ELSE Now.data
     IN  Assert(TRUE, /\ SetFile(Written(File.data, Pos, new))
                      /\ SetPos(Pos + Len(new)))

SysPwrite ==
  /\ At({"pwrite", "pwritev"})
  /\ LET ignored == Now.call \o "_at_pos" = fault
         at == IF ignored THEN Pos ELSE Now.offset
     IN  Assert(TRUE, /\ SetFile(Written(File.data, at, Now.data))
                      /\ SetPos(IF ignored THEN Pos + Len(Now.data) ELSE Pos))

Piece(at, n) == SubSeq(File.data, at + 1, IF at + n < Len(File.data)
                                          THEN at + n ELSE Len(File.data))

\* read() and readv(): the test expects so many pieces, and these.
SysRead ==
  /\ At({"read", "readv"})
  /\ Assert(Piece(Pos, Len(Now.data)) = Now.data,
            SetFile(File.data) /\ SetPos(Pos + Len(Now.data)))

SysPread ==
  /\ At({"pread", "preadv"})
  /\ LET at == IF Now.call \o "_at_pos" = fault THEN Pos ELSE Now.offset
     IN  Assert(Piece(at, Len(Now.data)) = Now.data,
                /\ SetFile(File.data)
                /\ SetPos(IF fault = "pread_moves" THEN at + Len(Now.data) ELSE Pos))

SysLseek ==
  /\ At({"lseek"})
  /\ LET end == IF fault = "lseek_end" THEN 0 ELSE Len(File.data)
         to == IF Now.whence = "SEEK_END" THEN end + Now.offset ELSE Now.offset
     IN  Assert(Now.result \in {to, AnyResult},
                /\ SetFile(File.data)
                /\ SetPos(IF fault = "lseek_set" /\ Now.whence = "SEEK_SET"
                          THEN Pos ELSE to))

\* Both make the file so long, with zeros at its end.
SysResize ==
  /\ At({"posix_fallocate", "ftruncate"})
  /\ LET ignored == \/ Now.call = "posix_fallocate" /\ fault = "fallocate_none"
                    \/ Now.call = "ftruncate" /\ fault = "ftruncate_none"
         zeros == [i \in 1..Now.length |->
                     IF i <= Len(File.data) THEN File.data[i] ELSE Zero]
     IN  Assert(TRUE, /\ SetFile(IF ignored THEN File.data ELSE zeros)
                      /\ UNCHANGED open)

\* Ready for writing, or for reading; the last poll() may time out.
SysPoll ==
  /\ At({"poll", "select"})
  /\ Assert(fault = "poll_never" => Now.may_time_out, UNCHANGED <<disk, locals>>)

-----------------------------------------------------------------------------
\* The calls on names.
SysUnlink ==
  /\ At({"unlink", "unlinkat"})
  /\ LET gone == IF fault = "unlink_keeps" THEN {}
                 ELSE IF fault = "unlink_all"
                 THEN {n \in Names : dir[n] = dir[Now.name]} ELSE {Now.name}
     IN  Assert(Exists(Now.name),
                /\ dir' = [n \in Names |-> IF n \in gone THEN None ELSE dir[n]]
                /\ UNCHANGED locals
                /\ Settle(node))

SysRmdir ==
  /\ At({"rmdir"})
  /\ Assert(Exists(Now.name),
            /\ dir' = IF fault = "rmdir_keeps" THEN dir
                      ELSE [dir EXCEPT ![Now.name] = None]
            /\ UNCHANGED locals
            /\ Settle(node))

SysRename ==
  /\ At({"renameat"})
  /\ LET renamed == [dir EXCEPT ![Now.to] = dir[Now.name],
                      ![Now.name] = IF fault = "rename_keeps" THEN @ ELSE None]
     IN  Assert(Exists(Now.name),
                /\ dir' = IF fault = "rename_none" THEN dir ELSE renamed
                /\ UNCHANGED locals
                /\ Settle(node))

\* A new name for an inode, which gets these contents.
Enter(name, k, contents) ==
  /\ dir' = [dir EXCEPT ![name] = k]
  /\ UNCHANGED locals
  /\ Settle([node EXCEPT ![k] = contents])

SysLink ==
  /\ At({"link", "linkat"})
  /\ LET k == IF fault = "link_copies" THEN NewInode ELSE dir[Now.name]
     IN  Assert(Exists(Now.name) /\ ~Exists(Now.to),
                Enter(Now.to, k, node[dir[Now.name]]))

SysSymlink ==
  /\ At({"symlinkat"})
  /\ Assert(~Exists(Now.to),
            IF fault = "symlink_hard"
            THEN Enter(Now.to, dir[Now.name], node[dir[Now.name]])
            ELSE Enter(Now.to, NewInode, New("link", <<Now.name>>, RWX)))

SysMkdir ==
  /\ At({"mkdir", "mkdirat"})
  /\ \/ ~Exists(Now.name) /\ Assert(TRUE, Enter(Now.name, NewInode, New("dir", <<>>, RWX)))
     \/ Exists(Now.name) /\ Assert(fault = "mkdir_existing", UNCHANGED <<disk, locals>>)

\* readlink() and readlinkat(): strcmp() of the whole, or strncmp() of what
\* was returned.
SysReadlink ==
  /\ At({"readlink", "readlinkat"})
  /\ Assert(Now.call \o "_short" = fault => ~Now.exact, UNCHANGED <<disk, locals>>)

(***************************************************************************)
(* The status of a file: kept in a local, or compared.                     *)
(***************************************************************************)
SysStat ==
  /\ At({"stat"})
  /\ Assert(Exists(Now.name), /\ saved' = Status(Now.name)
                              /\ UNCHANGED <<disk, open, cwd, saved_cwd>>)

\* Later: read or write permission of group and others are gone; the mode,
\* the times, the length are as the test set them.
Expected(st) ==
  CASE Now.what = "private"  -> st.mode \cap {"S_IRGRP", "S_IROTH"} = {}
    [] Now.what = "original" -> st.mode = saved.mode
    [] Now.what = "times"    -> st.atime = saved.atime + 2 /\ st.mtime = saved.mtime + 1
    [] Now.what = "length"   -> Len(st.data) = Length
    [] Now.what = "file"     -> /\ st.type = "file" /\ st.data # <<>>
                                /\ LinkCount(Now.name) > 0
    [] Now.what = "dir"      -> /\ st.type = "dir" /\ RWX \subseteq st.mode
                                /\ LinkCount(Now.name) = 2

SysCheck ==
  /\ At({"check"})
  /\ Assert(Exists(Now.name) /\ Expected(Status(Now.name)), UNCHANGED <<disk, locals>>)

\* stat() of two names: the inodes are the same, and so is all the rest.
SysSame ==
  /\ At({"same"})
  /\ Assert(/\ Exists(Now.name) /\ Exists(Now.to)
            /\ Follow(Now.name) = Follow(Now.to)
            /\ LinkCount(Now.name) = LinkCount(Now.to),
            UNCHANGED <<disk, locals>>)

SysLstat ==
  /\ At({"lstat"})
  /\ Assert(node[dir[Now.name]].type = "link", UNCHANGED <<disk, locals>>)

SysChmod ==
  /\ At({"chmod", "fchmodat", "fchmod", "lchmod"})
  /\ LET mode == ((IF Now.from_saved THEN saved.mode ELSE {}) \cup Now.with) \ Now.without
         ignored == \/ Now.call \in {"chmod", "fchmodat"} /\ fault = "chmod_none"
                    \/ Now.call \o "_none" = fault
     IN  Assert(Exists(Now.name),
                /\ node' = IF ignored THEN node
                           ELSE [node EXCEPT ![Follow(Now.name)].mode = mode]
                /\ UNCHANGED <<dir, locals>>)

SysUtime ==
  /\ At({"utime", "utimes", "utimensat", "futimens"})
  /\ LET a == saved.atime + 2
         m == saved.mtime + 1
         swapped == fault = "utime_swapped"
     IN  Assert(Exists(Now.name),
                /\ node' = IF fault = "utime_none" THEN node
                           ELSE [node EXCEPT ![dir[Now.name]].atime = IF swapped THEN m ELSE a,
                                             ![dir[Now.name]].mtime = IF swapped THEN a ELSE m]
                /\ UNCHANGED <<dir, locals>>)

SysAccess ==
  /\ At({"access", "faccessat"})
  /\ LET granted == \/ fault = "access_always"
                    \/ Allowed(node[dir[Now.name]].mode, Now.wanted)
     IN  Assert(Now.granted = granted, UNCHANGED <<disk, locals>>)

\* Nothing the suite looks at changes: fdatasync(), posix_fadvise(), and
\* chown() and its kin, which are called with -1 for both identifiers.
SysNothing == At({"nothing"}) /\ Assert(TRUE, UNCHANGED <<disk, locals>>)

-----------------------------------------------------------------------------
\* The working directory.
SetCwd(k) == cwd' = k /\ UNCHANGED <<disk, open, saved, saved_cwd>>
Cwd == IF fault = "getcwd_fixed" THEN Root ELSE cwd

SysChdir ==
  /\ At({"chdir"})
  /\ Assert(Exists(Now.name),
            SetCwd(IF fault = "chdir_none" THEN cwd ELSE dir[Now.name]))
SysChdirBack ==
  /\ At({"chdir_saved"})
  /\ Assert(TRUE, SetCwd(IF fault = "chdir_none" THEN cwd ELSE saved_cwd))
SysFchdir ==
  /\ At({"fchdir"})
  /\ Assert(open[Now.handle] # Closed,
            SetCwd(IF fault = "fchdir_none" THEN cwd ELSE open[Now.handle].inode))
SysGetcwd ==
  /\ At({"getcwd"})
  /\ \/ /\ Now.like = "any"
        /\ Assert(TRUE, saved_cwd' = Cwd /\ UNCHANGED <<disk, open, cwd, saved>>)
     \/ /\ Now.like = "same"
        /\ Assert(Cwd = saved_cwd, UNCHANGED <<disk, locals>>)
     \/ /\ Now.like = "other"
        /\ Assert(Cwd # saved_cwd, UNCHANGED <<disk, locals>>)

\* readdir() to the end; errno is compared with 0, but never set to it.
SysReaddir == At({"readdir"}) /\ Assert(~noisy, UNCHANGED <<disk, locals>>)

-----------------------------------------------------------------------------
Call ==
  \/ SysOpen \/ SysClose \/ SysWrite \/ SysPwrite \/ SysRead \/ SysPread
  \/ SysLseek \/ SysResize \/ SysPoll \/ SysUnlink \/ SysRmdir \/ SysRename
  \/ SysLink \/ SysSymlink \/ SysMkdir \/ SysReadlink \/ SysStat \/ SysCheck
  \/ SysSame \/ SysLstat \/ SysChmod \/ SysUtime \/ SysAccess \/ SysNothing
  \/ SysChdir \/ SysChdirBack \/ SysFchdir \/ SysGetcwd \/ SysReaddir

\* Only the file system of a host outlives a run; a standalone run gets a
\* new image (z.py:555).
Kill ==
  /\ status = "running" /\ fault = "none" /\ ~standalone /\ run < MaxRuns
  /\ EndProcess("killed")

\* Names that stop a run which finds them: they must not exist, or must be
\* the caller's to write.
Blocked ==
  \/ \E n \in {"README.link", "testfile.link", "poll_testfile.tmp",
               "select_testfile.tmp", "testdir", "testdir_chdir",
               "testdir_fchdir"} : Exists(n)
  \/ /\ Exists("testfile.tmp")
     /\ ~Allowed(node[dir["testfile.tmp"]].mode, {"S_IRUSR", "S_IWUSR"})

Rerun ==
  /\ status \in {"aborted", "killed"} /\ fault = "none" /\ ~standalone
  /\ run < MaxRuns
  /\ status' = "running" /\ run' = run + 1 /\ found' = Blocked
  /\ UNCHANGED <<world, disk, locals, test, step>>

Stop == status # "running" /\ UNCHANGED vars

Next == Call \/ Kill \/ Rerun \/ Stop

Spec == Init /\ [][Next]_vars

\* The process makes its next call, and none of them blocks.
FairSpec == Spec /\ WF_vars(Call)
-----------------------------------------------------------------------------
(***************************************************************************)
(* Properties.                                                             *)
(***************************************************************************)
\* The library does what POSIX asks for, errno is 0 unless a call failed, and
\* the process is one whose accesses are checked (access.c:47).
Conforming == fault = "none" /\ ~noisy /\ (privileged => standalone)

\* On a conforming library every run that finds none of the names that block
\* it gets to "ok" unless it is killed (main.c:150), whatever an earlier run
\* that was killed anywhere left behind.
ConformingPasses ==
  Conforming /\ ~found /\ status = "running" ~> status \in {"ok", "killed"}

\* A name that blocks a run blocks every later one: no test removes what an
\* earlier run left before it asks for it not to exist (mkdir.c:38, link.c:39,
\* poll.c:48) or to be writable (test_write_read() is the first that does).
BlockedNeverPasses == found => status # "ok"

\* What the suite does not see, built with all tests ...
Unseen == {"pread_at_pos", "pwrite_at_pos", "pread_moves", "rename_keeps",
  "link_count", "readlinkat_short", "mkdir_existing", "excl_ignored",
  "creat_truncates", "fchmod_none", "lchmod_none"}
\* ... and what it does not see either without those of main.c:105-146 that a
\* standalone build leaves out.
UnseenStandalone == {"access_always", "chmod_none", "creat_mode", "link_copies",
  "poll_never", "readlink_short", "symlink_hard", "unlink_all", "utime_none",
  "utime_swapped"}

\* A run of the suite on a new file system fails if the library has a fault, or
\* leaves errno set in calls that succeed (dirent.c:42), and only then: the
\* assertions of 44 (or 27) tests together see all faults but those listed.
PassTells ==
  ~privileged /\ run = 1 /\ status \in {"ok", "aborted"} =>
    (status = "ok" <=>
       /\ ~noisy
       /\ fault \in {"none"} \cup Unseen \cup IF standalone THEN UnseenStandalone ELSE {})

\* Each test gives back what it took: when the next one begins the directory,
\* the descriptors and the working directory are as they were at the start.
CleanBetween ==
  fault = "none" /\ run = 1 /\ step = 1 /\ status \in {"running", "ok"} =>
    /\ dir = InitialDir /\ node = InitialNode
    /\ open = [h \in Handles |-> Closed] /\ cwd = Root

\* A run that passes leaves the directory as it was before the first one,
\* whatever those before it were killed at.
PassHeals == fault = "none" /\ status = "ok" => dir = InitialDir /\ node = InitialNode

\* README.md, a file of the user's, is linked to and never changed or removed;
\* only a library whose unlink() takes all links of a file does that.
ReadmeKept ==
  [][fault # "unlink_all" =>
       dir'["README.md"] = dir["README.md"] /\ node'[Readme] = node[Readme]]_vars
=============================================================================
