---------------------------- MODULE FileScripts ----------------------------
(***************************************************************************)
(* The tests of file-c as sequences of calls, in the order of              *)
(* src/file-c/main.c.  A call names its arguments and what the test asserts*)
(* about the result; the local variables that only carry a result from one *)
(* line to the next are left out.                                          *)
(*                                                                         *)
(* Contents are sequences of pieces: "Hello " and "Nanvix!" are one each,  *)
(* DATA_OFFSET 10, which is within the second, is 1, and the length of 1024*)
(* is 4.  The sums 20 and 10 of the time tests are 2 and 1.                *)
(***************************************************************************)
EXTENDS Integers, Sequences

Zero == "zero"
Hello == <<"Hello ">>
Nanvix == <<"Nanvix!">>
Text == Hello \o Nanvix
DATA_OFFSET == 1
Length == 4
AnyResult == -1

RW == {"S_IRUSR", "S_IWUSR"}
RWX == RW \cup {"S_IXUSR"}
GroupOthers == {"S_IRGRP", "S_IROTH"}
ReadAll == {"S_IRUSR"} \cup GroupOthers

-----------------------------------------------------------------------------
OpenAs(h, f, flags, m) ==
  [call |-> "open", handle |-> h, name |-> f, flags |-> flags, mode |-> m]
Open(f, flags) == OpenAs("fd", f, flags, RW)
Create(f) == Open(f, {"O_CREAT", "O_RDWR"})
Opendir == [OpenAs("dirp", ".", {"O_RDONLY"}, {}) EXCEPT !.call = "opendir"]
CloseAs(h) == [call |-> "close", handle |-> h]
Close == CloseAs("fd")

Write(c, d) == [call |-> c, data |-> d]
Pwrite(c, d, at) == [call |-> c, data |-> d, offset |-> at]
Read(c, d) == [call |-> c, data |-> d]
Pread(c, d, at) == [call |-> c, data |-> d, offset |-> at]
Lseek(at, from, to) ==
  [call |-> "lseek", offset |-> at, whence |-> from, result |-> to]
Resize(c) == [call |-> c, length |-> Length]
Poll(c, late) == [call |-> c, may_time_out |-> late]

Unlink(f) == [call |-> "unlink", name |-> f]
Rmdir(f) == [call |-> "rmdir", name |-> f]
Two(c, f, g) == [call |-> c, name |-> f, to |-> g]
Mkdir(c, f) == [call |-> c, name |-> f]
Readlink(c, f, whole) == [call |-> c, name |-> f, exact |-> whole]
Lstat(f) == [call |-> "lstat", name |-> f]
Stat(f) == [call |-> "stat", name |-> f]
Check(f, x) == [call |-> "check", name |-> f, what |-> x]
Times(c, f) == [call |-> c, name |-> f]
Access(c, f, w, ok) == [call |-> c, name |-> f, wanted |-> w, granted |-> ok]
ChmodTo(c, f, m) ==
  [call |-> c, name |-> f, from_saved |-> FALSE, with |-> m, without |-> {}]
ChmodPrivate(c, f) ==
  [call |-> c, name |-> f, from_saved |-> TRUE, with |-> {}, without |-> GroupOthers]
ChmodBack(c, f) ==
  [call |-> c, name |-> f, from_saved |-> TRUE, with |-> {}, without |-> {}]
Nothing == [call |-> "nothing"]
Getcwd(x) == [call |-> "getcwd", like |-> x]

TMP == "testfile.tmp"
-----------------------------------------------------------------------------
test_open_close ==
  LET f == "testfile_open_close.tmp"
  IN  <<Open(f, {"O_CREAT", "O_WRONLY"}), Close, Open(f, {"O_RDONLY"}), Close,
        Unlink(f)>>

test_create_unlink ==
  <<Open("testfile.txt", {"O_CREAT", "O_WRONLY"}), Close, Unlink("testfile.txt")>>

test_write_read ==
  <<Create(TMP), Write("write", Text), Close,
    Open(TMP, {"O_RDONLY"}), Read("read", Text), Close, Unlink(TMP)>>

\* Mutant: an old file will do.
MultiplexingShared(c, f) ==
  <<Create(f), Poll(c, FALSE), Write("write", Text), Lseek(0, "SEEK_SET", 0),
    Poll(c, FALSE), Read("read", Text), Close,
    Open(f, {"O_RDONLY"}), Lseek(0, "SEEK_END", AnyResult), Poll(c, TRUE),
    Close, Unlink(f)>>
\* test_poll() and test_select() make the same calls.
Multiplexing(c, f) ==
  <<Open(f, {"O_CREAT", "O_EXCL", "O_RDWR"}), Poll(c, FALSE),
    Write("write", Text), Lseek(0, "SEEK_SET", 0), Poll(c, FALSE),
    Read("read", Text), Close,
    Open(f, {"O_RDONLY"}), Lseek(0, "SEEK_END", AnyResult), Poll(c, TRUE),
    Close, Unlink(f)>>
test_poll == Multiplexing("poll", "poll_testfile.tmp")
test_select == Multiplexing("select", "select_testfile.tmp")

test_posix_fadvise ==
  <<Create(TMP), Write("write", Text), Nothing, Close, Unlink(TMP)>>

test_lseek ==
  <<Create(TMP), Write("write", Hello), Lseek(0, "SEEK_END", 1),
    Write("write", Nanvix), Lseek(0, "SEEK_SET", 0), Read("read", Text), Close,
    Unlink(TMP)>>

test_posix_fallocate ==
  <<Create(TMP), Resize("posix_fallocate"), Lseek(0, "SEEK_END", Length), Close,
    Unlink(TMP)>>

test_readv ==
  <<Create(TMP), Write("write", Text), Close,
    Open(TMP, {"O_RDONLY"}), Read("readv", Text), Close, Unlink(TMP)>>

\* Mutant: the offset is that of test_pread().
test_preadvAtStart ==
  <<Create(TMP), Write("write", Text), Close,
    Open(TMP, {"O_RDONLY"}), Pread("preadv", Text, 0), Close, Unlink(TMP)>>
test_preadv ==
  <<Create(TMP), Lseek(DATA_OFFSET, "SEEK_SET", DATA_OFFSET), Write("write", Text),
    Close, Open(TMP, {"O_RDONLY"}), Pread("preadv", Text, DATA_OFFSET), Close,
    Unlink(TMP)>>

test_writev ==
  <<Create(TMP), Write("writev", Text), Close,
    Open(TMP, {"O_RDONLY"}), Read("read", Text), Close, Unlink(TMP)>>

test_pwritev ==
  <<Create(TMP), Pwrite("pwritev", Text, DATA_OFFSET), Close,
    Open(TMP, {"O_RDONLY"}), Lseek(DATA_OFFSET, "SEEK_SET", DATA_OFFSET),
    Read("read", Text), Close, Unlink(TMP)>>

\* Its DATA_OFFSET is 0.
test_pread ==
  <<Create(TMP), Write("write", Text), Close,
    Open(TMP, {"O_RDONLY"}), Pread("pread", Text, 0), Close, Unlink(TMP)>>

test_pwrite ==
  <<Create(TMP), Pwrite("pwrite", Hello, 0), Pwrite("pwrite", Nanvix, Len(Hello)),
    Close, Open(TMP, {"O_RDONLY"}), Lseek(0, "SEEK_SET", 0), Read("read", Text),
    Close, Unlink(TMP)>>

test_fdatasync ==
  <<Create(TMP), Write("write", Text), Nothing, Close,
    Open(TMP, {"O_RDONLY"}), Read("read", Text), Close, Unlink(TMP)>>

\* Mutant: the file stays.
test_statKept ==
  LET f == "testfile_stat.tmp"
  IN  <<Open(f, {"O_CREAT", "O_WRONLY"}), Write("write", Hello), Close,
        Check(f, "file")>>
test_stat ==
  LET f == "testfile_stat.tmp"
  IN  <<Open(f, {"O_CREAT", "O_WRONLY"}), Write("write", Hello), Close,
        Check(f, "file"), Unlink(f)>>

test_ftruncate ==
  <<Create(TMP), Resize("ftruncate"), Check(TMP, "length"), Close, Unlink(TMP)>>

Linking(c) ==
  <<Two(c, "README.md", "README.link"), Two("same", "README.md", "README.link"),
    Unlink("README.link")>>
test_linkat == Linking("linkat")
test_link == Linking("link")

\* Mutant: the link is followed when it is removed.
test_symlinkatFollowed ==
  <<Two("symlinkat", "README.md", "README.link"), Lstat("README.link"),
    Readlink("readlink", "README.link", TRUE),
    Two("same", "README.md", "README.link"), Unlink("README.md")>>
test_symlinkat ==
  <<Two("symlinkat", "README.md", "README.link"), Lstat("README.link"),
    Readlink("readlink", "README.link", TRUE),
    Two("same", "README.md", "README.link"), Unlink("README.link")>>

\* Mutant: the link stays.
ReadingLinkKept(c) ==
  <<Two("symlinkat", "README.md", "README.link"),
    Readlink(c, "README.link", FALSE)>>
\* Both compare only as much as they were given.
ReadingLink(c) ==
  <<Two("symlinkat", "README.md", "README.link"),
    Readlink(c, "README.link", FALSE), Unlink("README.link")>>
test_readlinkat == ReadingLink("readlinkat")
test_readlink == ReadingLink("readlink")

test_renameat ==
  <<Create("test.txt"), Close, Two("renameat", "test.txt", "renamed.txt"),
    Unlink("renamed.txt")>>

test_unlinkat == <<Create("test.txt"), Close, Unlink("test.txt")>>

MakingDirectory(c) ==
  <<Mkdir(c, "testdir"), Check("testdir", "dir"), Rmdir("testdir")>>
test_mkdirat == MakingDirectory("mkdirat")
test_mkdir == MakingDirectory("mkdir")

test_dirent ==
  <<Opendir, CloseAs("dirp"), Opendir, [call |-> "readdir"], CloseAs("dirp")>>

test_getcwd == <<Getcwd("any")>>

test_chdir ==
  LET f == "testdir_chdir"
  IN  <<Mkdir("mkdir", f), Getcwd("any"), [call |-> "chdir", name |-> f],
        Getcwd("other"), [call |-> "chdir_saved"], Getcwd("same"), Rmdir(f)>>

\* Mutant: the descriptor of the initial directory stays open.
test_fchdirLeaks ==
  LET f == "testdir_fchdir"
      Fchdir(h) == [call |-> "fchdir", handle |-> h]
  IN  <<Mkdir("mkdir", f), OpenAs("initial_directory_fd", ".", {"O_RDONLY"}, {}),
        Getcwd("any"), OpenAs("target_directory_fd", f, {"O_RDONLY"}, {}),
        Fchdir("target_directory_fd"), Getcwd("other"),
        Fchdir("initial_directory_fd"), Getcwd("same"),
        CloseAs("target_directory_fd"), Rmdir(f)>>
test_fchdir ==
  LET f == "testdir_fchdir"
      Fchdir(h) == [call |-> "fchdir", handle |-> h]
  IN  <<Mkdir("mkdir", f), OpenAs("initial_directory_fd", ".", {"O_RDONLY"}, {}),
        Getcwd("any"), OpenAs("target_directory_fd", f, {"O_RDONLY"}, {}),
        Fchdir("target_directory_fd"), Getcwd("other"),
        Fchdir("initial_directory_fd"), Getcwd("same"),
        CloseAs("target_directory_fd"), CloseAs("initial_directory_fd"), Rmdir(f)>>

\* By name while the file is open, or by descriptor.
TimesOpen(c) ==
  <<Create(TMP), Stat(TMP), Times(c, TMP), Check(TMP, "times"), Close, Unlink(TMP)>>
\* By name after it was closed.
TimesClosed(c) ==
  <<Create(TMP), Close, Stat(TMP), Times(c, TMP), Check(TMP, "times"), Unlink(TMP)>>
test_utimensat == TimesOpen("utimensat")
test_utimes == TimesClosed("utimes")
test_utime == TimesClosed("utime")
test_futimens == TimesOpen("futimens")

\* Take the permissions of group and others away, and give them back.
Modes(c, f) ==
  <<ChmodPrivate(c, f), Check(f, "private"), ChmodBack(c, f), Check(f, "original")>>
test_chmod == <<Create(TMP), Close, Stat(TMP)>> \o Modes("chmod", TMP) \o <<Unlink(TMP)>>
test_fchmodat ==
  <<Create(TMP), Close, Stat(TMP)>> \o Modes("fchmodat", TMP) \o <<Unlink(TMP)>>
test_fchmod == <<Create(TMP), Stat(TMP)>> \o Modes("fchmod", TMP) \o <<Close, Unlink(TMP)>>
test_lchmod ==
  <<Create(TMP), Close, Stat(TMP), Two("link", TMP, "testfile.link")>>
    \o Modes("lchmod", "testfile.link") \o <<Unlink("testfile.link"), Unlink(TMP)>>

Owning == <<Create(TMP), Close, Nothing, Unlink(TMP)>>
test_fchownat == Owning
test_chown == Owning
test_lchown == Owning
test_fchown == <<Create(TMP), Nothing, Close, Unlink(TMP)>>

Readable(c) == Access(c, TMP, {"S_IRUSR"}, TRUE)
Writable(c, ok) == Access(c, TMP, {"S_IWUSR"}, ok)

test_faccessat ==
  <<OpenAs("fd", TMP, {"O_CREAT", "O_RDONLY"}, ReadAll), Close,
    Readable("faccessat"), Writable("faccessat", FALSE),
    ChmodTo("fchmodat", TMP, RW),
    Readable("faccessat"), Writable("faccessat", TRUE),
    ChmodTo("fchmodat", TMP, {"S_IRUSR"}),
    Readable("faccessat"), Writable("faccessat", FALSE), Unlink(TMP)>>

test_access ==
  <<Create(TMP), Close, Access("access", TMP, RW, TRUE),
    ChmodTo("chmod", TMP, {"S_IRUSR"}), Writable("access", FALSE),
    ChmodTo("chmod", TMP, RW), Writable("access", TRUE), Unlink(TMP)>>
-----------------------------------------------------------------------------
(***************************************************************************)
(* The calls of main(): those within #ifndef __NANVIX_STANDALONE__ are not *)
(* part of a standalone build.                                             *)
(***************************************************************************)
Unless(standalone, tests) == IF standalone THEN <<>> ELSE tests

Tests(standalone) ==
  <<test_open_close, test_create_unlink, test_write_read>>
    \o Unless(standalone, <<test_poll, test_select>>)
    \o <<test_posix_fadvise, test_lseek, test_posix_fallocate, test_readv,
         test_preadv, test_writev, test_pwritev, test_pread, test_pwrite,
         test_fdatasync, test_stat, test_ftruncate>>
    \o Unless(standalone, <<test_linkat, test_link, test_symlinkat,
                            test_readlinkat, test_readlink>>)
    \o <<test_renameat, test_unlinkat, test_mkdirat, test_mkdir, test_dirent,
         test_getcwd, test_chdir, test_fchdir>>
    \o Unless(standalone,
         <<test_utimensat, test_utimes, test_utime, test_chmod, test_fchmodat,
           test_fchmod, test_lchmod, test_fchownat, test_faccessat, test_access,
           test_chown, test_fchown, test_lchown, test_futimens>>)
=============================================================================
