------------------------- MODULE FileTests_proofs -------------------------
(***************************************************************************)
(* No run of file-c changes or removes README.md, the one file of the      *)
(* user's that its tests link to (link.c, symlink.c, readlink.c), on any    *)
(* library but one whose unlink() takes all names of a file, and however   *)
(* often it is killed and started again.                                   *)
(*                                                                         *)
(* Each script says which names its calls are about.  What remains is      *)
(* aliasing: no name but README.link, and no descriptor, ever refers to    *)
(* the inode of README.md or to a symbolic link to it, for a new inode is  *)
(* one that nothing refers to.                                             *)
(*                                                                         *)
(* A name that blocks a run when it starts blocks it for good.  And each   *)
(* test gives back what it took, so that a run that passes leaves nothing. *)
(***************************************************************************)
EXTENDS FileTests, FiniteSetTheorems, TLAPS

-----------------------------------------------------------------------------
Kept == {"README.md", "README.link"}

\* What a call may do to the names: README.link is made from README.md only,
\* and removed; all else is about other names.
Harmless(c) ==
  /\ c.call \in {"open", "opendir"} =>
       c.handle \in Handles /\ c.name \in Names \ Kept
  /\ c.call \in {"unlink", "unlinkat", "rmdir"} => c.name # "README.md"
  /\ c.call = "renameat" => c.name \in Names \ Kept /\ c.to \in Names \ Kept
  /\ c.call \in {"link", "linkat"} =>
       /\ c.name \in Names \ {"README.link"} /\ c.to \in Names \ {"README.md"}
       /\ c.name = "README.md" => c.to = "README.link"
  /\ c.call = "symlinkat" => c.name = "README.md" /\ c.to = "README.link"
  /\ c.call \in {"mkdir", "mkdirat"} => c.name \in Names \ Kept
  /\ c.call \in {"chmod", "fchmodat", "fchmod", "lchmod", "utime", "utimes",
                 "utimensat", "futimens"} => c.name \in Names \ Kept

Careful(calls) == /\ Len(calls) \in Nat \ {0}
                  /\ \A s \in 1..Len(calls) : Harmless(calls[s])

PlaceInv == test \in 1..Len(Suite) /\ step \in 1..Len(Suite[test])

TypesInv ==
  /\ dir \in [Names -> Nodes \cup {None}]
  /\ DOMAIN node = Nodes /\ \A k \in Nodes : "type" \in DOMAIN node[k]
  /\ DOMAIN open = Handles
  /\ \A h \in Handles : DOMAIN open[h] = {"inode", "pos"}

ReadmeInv == dir["README.md"] = Readme /\ node[Readme].type = "file"

\* Nothing else leads there.
AliasInv ==
  /\ \A n \in Names \ Kept : /\ dir[n] # Readme
                             /\ Exists(n) => node[dir[n]].type # "link"
  /\ \A h \in Handles : open[h].inode # Readme

DiskInv == TypesInv /\ ReadmeInv /\ AliasInv
IInv == fault # "unlink_all" => PlaceInv /\ DiskInv

-----------------------------------------------------------------------------
Scripts ==
  {test_open_close, test_create_unlink, test_write_read, test_poll,
   test_select, test_posix_fadvise, test_lseek, test_posix_fallocate,
   test_readv, test_preadv, test_writev, test_pwritev, test_pread,
   test_pwrite, test_fdatasync, test_stat, test_ftruncate, test_linkat,
   test_link, test_symlinkat, test_readlinkat, test_readlink, test_renameat,
   test_unlinkat, test_mkdirat, test_mkdir, test_dirent, test_getcwd,
   test_chdir, test_fchdir, test_utimensat, test_utimes, test_utime,
   test_chmod, test_fchmodat, test_fchmod, test_lchmod, test_fchownat,
   test_faccessat, test_access, test_chown, test_fchown, test_lchown,
   test_futimens}

\* Each test of the suite.
LEMMA ScriptsAreCareful == \A calls \in Scripts : Careful(calls)
<1> USE DEF Careful, Harmless, Kept, Names, Handles, Open, OpenAs, Create, Opendir,
  Close, CloseAs, Write, Pwrite, Read, Pread, Lseek, Resize, Poll, Unlink, Rmdir,
  Two, Mkdir, Readlink, Lstat, Stat, Check, Times, Access, ChmodTo, ChmodPrivate,
  ChmodBack, Nothing, Getcwd, TMP
<1>1. Careful(test_open_close)
  BY DEF test_open_close
<1>2. Careful(test_create_unlink)
  BY DEF test_create_unlink
<1>3. Careful(test_write_read)
  BY DEF test_write_read
<1>4. Careful(test_poll)
  BY DEF test_poll, Multiplexing
<1>5. Careful(test_select)
  BY DEF test_select, Multiplexing
<1>6. Careful(test_posix_fadvise)
  BY DEF test_posix_fadvise
<1>7. Careful(test_lseek)
  BY DEF test_lseek
<1>8. Careful(test_posix_fallocate)
  BY DEF test_posix_fallocate
<1>9. Careful(test_readv)
  BY DEF test_readv
<1>10. Careful(test_preadv)
  BY DEF test_preadv
<1>11. Careful(test_writev)
  BY DEF test_writev
<1>12. Careful(test_pwritev)
  BY DEF test_pwritev
<1>13. Careful(test_pread)
  BY DEF test_pread
<1>14. Careful(test_pwrite)
  BY DEF test_pwrite
<1>15. Careful(test_fdatasync)
  BY DEF test_fdatasync
<1>16. Careful(test_stat)
  BY DEF test_stat
<1>17. Careful(test_ftruncate)
  BY DEF test_ftruncate
<1>18. Careful(test_linkat)
  BY DEF test_linkat, Linking
<1>19. Careful(test_link)
  BY DEF test_link, Linking
<1>20. Careful(test_symlinkat)
  BY DEF test_symlinkat
<1>21. Careful(test_readlinkat)
  BY DEF test_readlinkat, ReadingLink
<1>22. Careful(test_readlink)
  BY DEF test_readlink, ReadingLink
<1>23. Careful(test_renameat)
  BY DEF test_renameat
<1>24. Careful(test_unlinkat)
  BY DEF test_unlinkat
<1>25. Careful(test_mkdirat)
  BY DEF test_mkdirat, MakingDirectory
<1>26. Careful(test_mkdir)
  BY DEF test_mkdir, MakingDirectory
<1>27. Careful(test_dirent)
  BY DEF test_dirent
<1>28. Careful(test_getcwd)
  BY DEF test_getcwd
<1>29. Careful(test_chdir)
  BY DEF test_chdir
<1>30. Careful(test_fchdir)
  BY DEF test_fchdir
<1>31. Careful(test_utimensat)
  BY DEF test_utimensat, TimesOpen
<1>32. Careful(test_utimes)
  BY DEF test_utimes, TimesClosed
<1>33. Careful(test_utime)
  BY DEF test_utime, TimesClosed
<1>34. Careful(test_chmod)
  BY DEF test_chmod, Modes
<1>35. Careful(test_fchmodat)
  BY DEF test_fchmodat, Modes
<1>36. Careful(test_fchmod)
  BY DEF test_fchmod, Modes
<1>37. Careful(test_lchmod)
  BY DEF test_lchmod, Modes
<1>38. Careful(test_fchownat)
  BY DEF test_fchownat, Owning
<1>39. Careful(test_faccessat)
  BY DEF test_faccessat, Readable, Writable
<1>40. Careful(test_access)
  BY DEF test_access, Writable
<1>41. Careful(test_chown)
  BY DEF test_chown, Owning
<1>42. Careful(test_fchown)
  BY DEF test_fchown
<1>43. Careful(test_lchown)
  BY DEF test_lchown, Owning
<1>44. Careful(test_futimens)
  BY DEF test_futimens, TimesOpen
<1> HIDE DEF Careful
<1>45. QED  BY <1>1, <1>2, <1>3, <1>4, <1>5, <1>6, <1>7, <1>8, <1>9, <1>10,
         <1>11, <1>12, <1>13, <1>14, <1>15, <1>16, <1>17, <1>18, <1>19,
         <1>20, <1>21, <1>22, <1>23, <1>24, <1>25, <1>26, <1>27, <1>28,
         <1>29, <1>30, <1>31, <1>32, <1>33, <1>34, <1>35, <1>36, <1>37,
         <1>38, <1>39, <1>40, <1>41, <1>42, <1>43, <1>44 DEF Scripts

\* The suite of either build is made of these tests, and of at least one.
LEMMA SuiteOfScripts ==
  /\ Len(Suite) \in Nat \ {0}
  /\ \A t \in 1..Len(Suite) : Suite[t] \in Scripts
<1>1. \A b : Tests(b) \in Seq(Scripts) /\ Len(Tests(b)) # 0
  <2> SUFFICES ASSUME NEW b
               PROVE  Tests(b) \in Seq(Scripts) /\ Len(Tests(b)) # 0
    OBVIOUS
  <2> DEFINE first == <<test_open_close, test_create_unlink, test_write_read>>
             poll == Unless(b, <<test_poll, test_select>>)
             files ==
               <<test_posix_fadvise, test_lseek, test_posix_fallocate, test_readv,
                 test_preadv, test_writev, test_pwritev, test_pread, test_pwrite,
                 test_fdatasync, test_stat, test_ftruncate>>
             links == Unless(b, <<test_linkat, test_link, test_symlinkat,
                                  test_readlinkat, test_readlink>>)
             dirs == <<test_renameat, test_unlinkat, test_mkdirat, test_mkdir,
                       test_dirent, test_getcwd, test_chdir, test_fchdir>>
             modes ==
               Unless(b, <<test_utimensat, test_utimes, test_utime, test_chmod,
                           test_fchmodat, test_fchmod, test_lchmod, test_fchownat,
                           test_faccessat, test_access, test_chown, test_fchown,
                           test_lchown, test_futimens>>)
  <2>1. Tests(b) = first \o poll \o files \o links \o dirs \o modes
    BY Zenon DEF Tests
  <2>2. first \in Seq(Scripts) /\ Len(first) = 3
    BY DEF Scripts
  <2>0. ASSUME NEW tests \in Seq(Scripts)
        PROVE  Unless(b, tests) \in Seq(Scripts)
    <3>1. <<>> \in Seq(Scripts)
      OBVIOUS
    <3>2. QED  BY <3>1, Zenon DEF Unless
  <2>3. poll \in Seq(Scripts)
    <3>1. <<test_poll, test_select>> \in Seq(Scripts)
      BY DEF Scripts
    <3>2. QED  BY <2>0, <3>1
  <2>4. files \in Seq(Scripts)
    BY DEF Scripts
  <2>5. links \in Seq(Scripts)
    <3>1. <<test_linkat, test_link, test_symlinkat, test_readlinkat,
            test_readlink>> \in Seq(Scripts)
      BY DEF Scripts
    <3>2. QED  BY <2>0, <3>1
  <2>6. dirs \in Seq(Scripts)
    BY DEF Scripts
  <2>7. modes \in Seq(Scripts)
    <3>1. <<test_utimensat, test_utimes, test_utime, test_chmod, test_fchmodat,
            test_fchmod, test_lchmod, test_fchownat, test_faccessat, test_access,
            test_chown, test_fchown, test_lchown, test_futimens>> \in Seq(Scripts)
      BY DEF Scripts
    <3>2. QED  BY <2>0, <3>1
  <2> HIDE DEF first, poll, files, links, dirs, modes
  <2>8. QED  BY <2>1, <2>2, <2>3, <2>4, <2>5, <2>6, <2>7
<1>2. QED  BY <1>1 DEF Suite

\* So it is careful.
LEMMA SuiteIsCareful ==
  /\ Len(Suite) \in Nat \ {0}
  /\ \A t \in 1..Len(Suite) : Careful(Suite[t])
BY SuiteOfScripts, ScriptsAreCareful

-----------------------------------------------------------------------------
\* The way through main() stays within the suite.
LEMMA GoOnKeepsPlace ==
  ASSUME PlaceInv, GoOn
  PROVE  PlaceInv'
<1>1. Suite' = Suite
  BY DEF GoOn, world, Suite
<1>2. \A t \in 1..Len(Suite) : Len(Suite[t]) \in Nat \ {0}
  BY SuiteIsCareful DEF Careful
<1>3. Len(Suite) \in Nat \ {0}
  BY SuiteIsCareful
<1>4. test' \in 1..Len(Suite) /\ step' \in 1..Len(Suite[test'])
  <2> DEFINE n == Len(Suite)
             m(t) == Len(Suite[t])
  <2>1. test \in 1..n /\ step \in 1..m(test)
    BY DEF PlaceInv
  <2>2. IF step < m(test) THEN step' = step + 1 /\ test' = test
        ELSE step' = 1 /\ test' = IF test < n THEN test + 1 ELSE 1
    BY DEF GoOn
  <2>3. n \in Nat \ {0} /\ \A t \in 1..n : m(t) \in Nat \ {0}
    BY <1>2, <1>3
  <2> HIDE DEF n, m
  <2>4. test' \in 1..n /\ step' \in 1..m(test')
    <3>1. CASE step < m(test)
      BY <3>1, <2>1, <2>2, <2>3
    <3>2. CASE ~(step < m(test))
      BY <3>2, <2>1, <2>2, <2>3
    <3>3. QED  BY <3>1, <3>2
  <2>5. QED  BY <2>4 DEF n, m
<1>5. QED  BY <1>1, <1>4 DEF PlaceInv

\* A process that ends is started again at the first call of the first test.
LEMMA EndKeepsPlace ==
  ASSUME NEW how, EndProcess(how)
  PROVE  PlaceInv'
<1>1. Suite' = Suite /\ test' = 1 /\ step' = 1
  BY DEF EndProcess, world, Suite
<1>2. 1 \in 1..Len(Suite) /\ 1 \in 1..Len(Suite[1])
  BY SuiteIsCareful DEF Careful
<1>3. QED  BY <1>1, <1>2 DEF PlaceInv

\* So the next call is one of a careful test.
LEMMA NowIsHarmless ==
  ASSUME PlaceInv
  PROVE  Harmless(Now)
BY SuiteIsCareful DEF PlaceInv, Careful, Now

-----------------------------------------------------------------------------
\* Names and handles can be counted.
LEMMA NamesAreFinite == IsFiniteSet(Names) /\ IsFiniteSet(Handles)
<1>1. ASSUME NEW S, IsFiniteSet(S), NEW x
      PROVE  IsFiniteSet(S \cup {x})
  BY <1>1, FS_AddElement
<1>2. IsFiniteSet({})
  BY FS_EmptySet
<1> DEFINE A == {} \cup {"."} \cup {"README.md"} \cup {"README.link"}
           B == A \cup {"testfile_open_close.tmp"} \cup {"testfile.txt"}
                  \cup {"testfile.tmp"} \cup {"testfile.link"}
           C == B \cup {"testfile_stat.tmp"} \cup {"poll_testfile.tmp"}
                  \cup {"select_testfile.tmp"} \cup {"test.txt"}
           D == C \cup {"renamed.txt"} \cup {"testdir"} \cup {"testdir_chdir"}
                  \cup {"testdir_fchdir"}
           E == {} \cup {"fd"} \cup {"initial_directory_fd"}
                  \cup {"target_directory_fd"} \cup {"dirp"}
<1>3. Names = D /\ Handles = E
  BY DEF Names, Handles
<1>4. IsFiniteSet(A)
  BY <1>1, <1>2
<1>5. IsFiniteSet(B)
  <2> HIDE DEF A
  <2>1. QED  BY <1>1, <1>4
<1>6. IsFiniteSet(C)
  <2> HIDE DEF B
  <2>1. QED  BY <1>1, <1>5
<1>7. IsFiniteSet(D)
  <2> HIDE DEF C
  <2>1. QED  BY <1>1, <1>6
<1>8. IsFiniteSet(E)
  BY <1>1, <1>2
<1>9. QED  BY <1>3, <1>7, <1>8

\* There is always an inode that nothing refers to.
LEMMA FreeInode ==
  /\ NewInode \in Nodes
  /\ \A n \in Names : NewInode # dir[n]
  /\ \A h \in Handles : NewInode # open[h].inode
<1> DEFINE d == {dir[n] : n \in Names}
           o == {open[h].inode : h \in Handles}
<1>1. IsFiniteSet(Names) /\ IsFiniteSet(Handles)
  BY NamesAreFinite
<1>2. IsFiniteSet(d) /\ Cardinality(d) <= Cardinality(Names)
  <2> DEFINE f == [n \in Names |-> dir[n]]
  <2>1. f \in Surjection(Names, d)
    BY DEF Surjection
  <2>2. QED  BY <1>1, <2>1, FS_Surjection
<1>3. IsFiniteSet(o) /\ Cardinality(o) <= Cardinality(Handles)
  <2> DEFINE f == [h \in Handles |-> open[h].inode]
  <2>1. f \in Surjection(Handles, o)
    BY DEF Surjection
  <2>2. QED  BY <1>1, <2>1, FS_Surjection
<1>4. /\ Cardinality(Names) \in Nat /\ Cardinality(Handles) \in Nat
      /\ Cardinality(d) \in Nat /\ Cardinality(o) \in Nat
  BY <1>1, <1>2, <1>3, FS_CardinalityType
<1>5. IsFiniteSet(d \cup o) /\ Cardinality(d \cup o) <= Cardinality(d) + Cardinality(o)
  <2>1. /\ IsFiniteSet(d \cup o)
        /\ Cardinality(d \cup o) =
             Cardinality(d) + Cardinality(o) - Cardinality(d \cap o)
    BY <1>2, <1>3, FS_Union
  <2>2. Cardinality(d \cap o) \in Nat
    BY <1>2, FS_Intersection, FS_CardinalityType
  <2>3. QED  BY <1>4, <2>1, <2>2
<1>6. Cardinality(Nodes) = Cardinality(Names) + Cardinality(Handles) + 1
  BY <1>4, FS_Interval DEF Nodes
<1>7. ~(Nodes \subseteq d \cup o)
  <2> HIDE DEF d, o
  <2>1. Cardinality(d \cup o) < Cardinality(Nodes)
    <3>1. Cardinality(d \cup o) \in Nat
      BY <1>5, FS_CardinalityType
    <3>2. QED  BY <1>2, <1>3, <1>4, <1>5, <1>6, <3>1
  <2>2. SUFFICES ASSUME Nodes \subseteq d \cup o
                 PROVE  FALSE
    OBVIOUS
  <2>3. Cardinality(Nodes) <= Cardinality(d \cup o)
    BY <1>5, <2>2, FS_Subset
  <2>4. Cardinality(Nodes) \in Nat /\ Cardinality(d \cup o) \in Nat
    BY <1>4, <1>5, <1>6, FS_CardinalityType
  <2>5. QED  BY <2>1, <2>3, <2>4
<1>8. \E k \in Nodes : \A n \in Names, h \in Handles :
                         k # dir[n] /\ k # open[h].inode
  BY <1>7
<1>9. /\ NewInode \in Nodes
      /\ \A n \in Names, h \in Handles : NewInode # dir[n] /\ NewInode # open[h].inode
  BY <1>8, Zenon DEF NewInode
<1>10. "." \in Names /\ "fd" \in Handles
  BY DEF Names, Handles
<1>11. QED  BY <1>9, <1>10

-----------------------------------------------------------------------------
\* What each call leaves as it was.
KeepsReadme == dir'["README.md"] = dir["README.md"] /\ node'[Readme] = node[Readme]
Keeps == DiskInv' /\ KeepsReadme

\* The inodes of the directory and of README.md are two different ones.
LEMMA Constants ==
  /\ Root \in Nodes /\ Readme \in Nodes /\ None \notin Nodes
  /\ "README.md" \in Names /\ Readme # None /\ Root # Readme
<1>1. Cardinality(Names) \in Nat /\ Cardinality(Handles) \in Nat
  BY NamesAreFinite, FS_CardinalityType
<1>2. Cardinality(Handles) # 0
  BY NamesAreFinite, FS_EmptySet DEF Handles
<1>3. QED  BY <1>1, <1>2 DEF Readme, Nodes, None, Names, Root

\* Freeing what nothing refers to keeps the rest: what is asked of a call is
\* about the names, the descriptors and the contents before that.
LEMMA SettleKeeps ==
  ASSUME NEW contents, Settle(contents), DiskInv,
         dir' \in [Names -> Nodes \cup {None}], dir'["README.md"] = Readme,
         DOMAIN open' = Handles,
         \A h \in Handles : /\ DOMAIN open'[h] = {"inode", "pos"}
                            /\ open'[h].inode # Readme,
         \A k \in Nodes : "type" \in DOMAIN contents[k],
         contents[Readme] = node[Readme],
         \A n \in Names \ Kept :
           /\ dir'[n] # Readme
           /\ dir'[n] # None => contents[dir'[n]].type # "link"
  PROVE  Keeps
<1> DEFINE used == {dir'[n] : n \in Names} \cup {open'[h].inode : h \in Handles}
<1>1. node' = [k \in Nodes |-> IF k \in used THEN contents[k] ELSE Free]
  BY DEF Settle
<1>2. node'[Readme] = node[Readme]
  BY <1>1, Constants
<1>3. \A k \in Nodes : "type" \in DOMAIN node'[k]
  BY <1>1 DEF Free
<1>4. \A n \in Names : dir'[n] # None => node'[dir'[n]] = contents[dir'[n]]
  BY <1>1
<1>5. QED
  BY <1>1, <1>2, <1>3, <1>4
     DEF Keeps, KeepsReadme, DiskInv, TypesInv, ReadmeInv, AliasInv, Exists

\* The end of a process closes descriptors and leaves the names alone.
LEMMA EndKeeps ==
  ASSUME DiskInv, NEW how, EndProcess(how)
  PROVE  Keeps
<1>1. /\ dir' = dir /\ open' = [h \in Handles |-> Closed] /\ Settle(node)
  BY DEF EndProcess
<1>2. \A h \in Handles : /\ DOMAIN open'[h] = {"inode", "pos"}
                         /\ open'[h].inode # Readme
  BY <1>1, Constants DEF Closed
<1>3. QED
  BY <1>1, <1>2, SettleKeeps
     DEF DiskInv, TypesInv, ReadmeInv, AliasInv, Exists

\* A call that changes neither names, nodes nor descriptors.
LEMMA SameKeeps ==
  ASSUME DiskInv, UNCHANGED <<disk, open>>
  PROVE  Keeps
BY DEF Keeps, KeepsReadme, DiskInv, TypesInv, ReadmeInv, AliasInv, Exists, disk

\* A call on the descriptor "fd" that changes its file and where it is in it.
LEMMA FileKeeps ==
  ASSUME DiskInv, NEW data, SetFile(data), UNCHANGED open \/ \E p : SetPos(p)
  PROVE  Keeps
<1>1. dir' = dir /\ node' = [node EXCEPT ![open["fd"].inode].data = data]
  BY DEF SetFile
<1>2. \A k \in Nodes : /\ "type" \in DOMAIN node'[k]
                       /\ node'[k].type = node[k].type
  BY <1>1 DEF DiskInv, TypesInv
<1>3. DOMAIN node' = Nodes /\ node'[Readme] = node[Readme]
  <2>1. open["fd"].inode # Readme
    BY DEF DiskInv, AliasInv, Handles
  <2>2. QED  BY <1>1, <2>1, Constants DEF DiskInv, TypesInv
<1>4. /\ DOMAIN open' = Handles
      /\ \A h \in Handles : /\ DOMAIN open'[h] = {"inode", "pos"}
                            /\ open'[h].inode = open[h].inode
  <2>1. CASE UNCHANGED open
    BY <2>1 DEF DiskInv, TypesInv
  <2>2. CASE \E p : SetPos(p)
    <3>1. PICK p : open' = [open EXCEPT !["fd"].pos = p]
      BY <2>2 DEF SetPos
    <3>2. QED  BY <3>1 DEF DiskInv, TypesInv
  <2>3. QED  BY <2>1, <2>2
<1>5. QED
  BY <1>1, <1>2, <1>3, <1>4
     DEF Keeps, KeepsReadme, DiskInv, TypesInv, ReadmeInv, AliasInv, Exists

\* A call that gives an inode that holds no link, and is not that of README.md,
\* to a name of the tests.
LEMMA EnterKeeps ==
  ASSUME DiskInv, NEW name \in Names \ Kept, NEW k \in Nodes \ {Readme},
         NEW contents, "type" \in DOMAIN contents, contents.type # "link",
         Enter(name, k, contents)
  PROVE  Keeps
<1> DEFINE after == [node EXCEPT ![k] = contents]
<1>1. dir' = [dir EXCEPT ![name] = k] /\ open' = open /\ Settle(after)
  BY DEF Enter, locals
<1>2. /\ dir' \in [Names -> Nodes \cup {None}] /\ dir'["README.md"] = Readme
      /\ after[Readme] = node[Readme]
  BY <1>1, Constants DEF DiskInv, TypesInv, ReadmeInv, Kept
<1>3. \A i \in Nodes : "type" \in DOMAIN after[i]
  BY DEF DiskInv, TypesInv
<1>4. \A n \in Names \ Kept :
        /\ dir'[n] # Readme
        /\ dir'[n] # None => after[dir'[n]].type # "link"
  BY <1>1 DEF DiskInv, TypesInv, AliasInv, Exists
<1>5. QED
  BY <1>1, <1>2, <1>3, <1>4, SettleKeeps DEF DiskInv, TypesInv, AliasInv

-----------------------------------------------------------------------------
\* The calls, one by one.  Each is made from a state of the invariant.
CallState == DiskInv /\ PlaceInv /\ fault # "unlink_all"

\* A descriptor is opened on a file of the tests, there or new.
LEMMA OpenKeeps == CallState /\ SysOpen => Keeps
<1> SUFFICES ASSUME CallState, SysOpen
             PROVE  Keeps
  OBVIOUS
<1> DEFINE there == Exists(Now.name)
           k == IF there THEN dir[Now.name] ELSE NewInode
           mode == IF fault = "creat_mode" THEN {"S_IRUSR", "S_IWUSR", "S_IRGRP"}
                   ELSE Now.mode
           after == [node EXCEPT ![k] =
                       IF ~there THEN New("file", <<>>, mode)
                       ELSE IF fault = "creat_truncates" /\ "O_CREAT" \in Now.flags
                       THEN [@ EXCEPT !.data = <<>>] ELSE @]
<1>1. Now.handle \in Handles /\ Now.name \in Names \ Kept
  BY NowIsHarmless DEF CallState, SysOpen, At, Harmless
<1>2. CASE EndProcess("aborted")
  BY <1>2, EndKeeps DEF CallState
<1>3. CASE /\ dir' = [dir EXCEPT ![Now.name] = k]
           /\ open' = [open EXCEPT ![Now.handle] = [inode |-> k, pos |-> 0]]
           /\ Settle(after)
  <2>1. DiskInv /\ TypesInv
    BY DEF CallState, DiskInv
  <2>2. k \in Nodes \ {Readme}
    <3>1. CASE there
      BY <3>1, <2>1, <1>1 DEF DiskInv, TypesInv, AliasInv, Exists
    <3>2. CASE ~there
      BY <3>2, <2>1, FreeInode, Constants DEF DiskInv, ReadmeInv
    <3>3. QED  BY <3>1, <3>2
  <2>3. ~there => \A n \in Names : dir[n] # k
    BY FreeInode
  <2>4. \A i \in Nodes : /\ "type" \in DOMAIN after[i]
                         /\ after[i].type = IF i = k /\ ~there THEN "file"
                                            ELSE node[i].type
    BY <2>1 DEF TypesInv, New
  <2> HIDE DEF after
  <2>5. after[Readme] = node[Readme]
    BY <2>1, <2>2, Constants DEF TypesInv, after
  <2> HIDE DEF there, k
  <2>6. /\ dir' \in [Names -> Nodes \cup {None}] /\ dir'["README.md"] = Readme
        /\ \A n \in Names : dir'[n] = IF n = Now.name THEN k ELSE dir[n]
    BY <1>1, <1>3, <2>1, <2>2, Constants DEF DiskInv, TypesInv, ReadmeInv, Kept
  <2>7. /\ DOMAIN open' = Handles
        /\ \A h \in Handles : /\ DOMAIN open'[h] = {"inode", "pos"}
                              /\ open'[h].inode # Readme
    BY <1>1, <1>3, <2>1, <2>2 DEF DiskInv, TypesInv, AliasInv
  <2>8. \A n \in Names \ Kept :
          /\ dir'[n] # Readme
          /\ dir'[n] # None => after[dir'[n]].type # "link"
    <3> SUFFICES ASSUME NEW n \in Names \ Kept
                 PROVE  /\ dir'[n] # Readme
                        /\ dir'[n] # None => after[dir'[n]].type # "link"
      OBVIOUS
    <3>1. /\ dir[n] # Readme /\ dir[n] \in Nodes \cup {None}
          /\ dir[n] # None => node[dir[n]].type # "link"
      BY <2>1 DEF DiskInv, TypesInv, AliasInv, Exists
    <3>2. CASE n # Now.name
      BY <3>1, <3>2, <2>4, <2>6
    <3>3. CASE n = Now.name /\ there
      BY <3>1, <3>3, <2>2, <2>4, <2>6 DEF there, k
    <3>4. CASE n = Now.name /\ ~there
      BY <3>4, <2>2, <2>4, <2>6
    <3>5. QED  BY <3>2, <3>3, <3>4
  <2>9. QED
    BY <1>3, <2>1, <2>4, <2>5, <2>6, <2>7, <2>8, SettleKeeps DEF TypesInv
<1>4. QED  BY <1>2, <1>3 DEF SysOpen, Assert

\* A descriptor less.
LEMMA CloseKeeps == CallState /\ SysClose => Keeps
<1> SUFFICES ASSUME CallState, SysClose
             PROVE  Keeps
  OBVIOUS
<1>1. CASE EndProcess("aborted")
  BY <1>1, EndKeeps DEF CallState
<1>2. CASE /\ open' = [open EXCEPT ![Now.handle] = Closed]
           /\ dir' = dir /\ Settle(node)
  <2>1. /\ DOMAIN open' = Handles
        /\ \A h \in Handles : /\ DOMAIN open'[h] = {"inode", "pos"}
                              /\ open'[h].inode # Readme
    BY <1>2, Constants DEF CallState, DiskInv, TypesInv, AliasInv, Closed
  <2>2. QED
    BY <1>2, <2>1, SettleKeeps
       DEF CallState, DiskInv, TypesInv, ReadmeInv, AliasInv, Exists
<1>3. QED  BY <1>1, <1>2 DEF SysClose, Assert

\* What is written goes to the file of a descriptor, never to README.md.
LEMMA FdCallsKeep ==
  CallState /\ (SysWrite \/ SysPwrite \/ SysRead \/ SysPread \/ SysLseek \/ SysResize)
    => Keeps
<1> SUFFICES ASSUME CallState,
                    \/ SysWrite \/ SysPwrite \/ SysRead \/ SysPread \/ SysLseek
                    \/ SysResize
             PROVE  Keeps
  OBVIOUS
<1>1. CASE EndProcess("aborted")
  BY <1>1, EndKeeps DEF CallState
<1>2. CASE \E data : SetFile(data) /\ (UNCHANGED open \/ \E p : SetPos(p))
  BY <1>2, FileKeeps DEF CallState
<1>3. CASE SysWrite
  BY <1>1, <1>2, <1>3, Zenon DEF SysWrite, Assert
<1>4. CASE SysPwrite
  BY <1>1, <1>2, <1>4, Zenon DEF SysPwrite, Assert
<1>5. CASE SysRead
  BY <1>1, <1>2, <1>5, Zenon DEF SysRead, Assert
<1>6. CASE SysPread
  BY <1>1, <1>2, <1>6, Zenon DEF SysPread, Assert
<1>7. CASE SysLseek
  BY <1>1, <1>2, <1>7, Zenon DEF SysLseek, Assert
<1>8. CASE SysResize
  BY <1>1, <1>2, <1>8, Zenon DEF SysResize, Assert
<1>9. QED  BY <1>3, <1>4, <1>5, <1>6, <1>7, <1>8

\* A name goes, or comes to be that of a file of the tests.
LEMMA NamesKeep ==
  ASSUME DiskInv, dir' \in [Names -> Nodes \cup {None}],
         dir'["README.md"] = Readme,
         \A n \in Names \ Kept :
           \/ dir'[n] = None
           \/ \E m \in Names \ Kept : dir'[n] = dir[m],
         UNCHANGED locals, Settle(node)
  PROVE  Keeps
<1>1. open' = open
  BY DEF locals
<1>2. \A n \in Names \ Kept :
        /\ dir'[n] # Readme
        /\ dir'[n] # None => node[dir'[n]].type # "link"
  BY Constants DEF DiskInv, AliasInv, Exists
<1>3. QED
  BY <1>1, <1>2, SettleKeeps DEF DiskInv, TypesInv, ReadmeInv, AliasInv

\* A name goes, and it is not README.md.
LEMMA UnlinkKeeps == CallState /\ (SysUnlink \/ SysRmdir) => Keeps
<1> SUFFICES ASSUME CallState, SysUnlink \/ SysRmdir
             PROVE  Keeps
  OBVIOUS
<1>1. Now.name # "README.md"
  BY NowIsHarmless DEF CallState, SysUnlink, SysRmdir, At, Harmless
<1>2. DiskInv /\ TypesInv /\ ReadmeInv /\ fault # "unlink_all"
  BY DEF CallState, DiskInv
<1>3. CASE EndProcess("aborted")
  BY <1>2, <1>3, EndKeeps
<1>4. CASE /\ \/ dir' = [n \in Names |-> IF n \in {Now.name} THEN None ELSE dir[n]]
              \/ dir' = [n \in Names |-> IF n \in {} THEN None ELSE dir[n]]
              \/ dir' = dir
              \/ dir' = [dir EXCEPT ![Now.name] = None]
           /\ UNCHANGED locals /\ Settle(node)
  <2>1. /\ dir' \in [Names -> Nodes \cup {None}] /\ dir'["README.md"] = Readme
        /\ \A n \in Names : dir'[n] = None \/ dir'[n] = dir[n]
    BY <1>1, <1>2, <1>4, Constants DEF TypesInv, ReadmeInv
  <2>2. QED  BY <1>2, <1>4, <2>1, NamesKeep
<1>5. CASE SysUnlink
  BY <1>2, <1>3, <1>4, <1>5 DEF SysUnlink, Assert
<1>6. CASE SysRmdir
  BY <1>3, <1>4, <1>6 DEF SysRmdir, Assert
<1>7. QED  BY <1>5, <1>6

\* Both names are of the tests.
LEMMA RenameKeeps == CallState /\ SysRename => Keeps
<1> SUFFICES ASSUME CallState, SysRename
             PROVE  Keeps
  OBVIOUS
<1>1. Now.name \in Names \ Kept /\ Now.to \in Names \ Kept
  BY NowIsHarmless DEF CallState, SysRename, At, Harmless
<1>2. DiskInv /\ TypesInv /\ ReadmeInv
  BY DEF CallState, DiskInv
<1>3. CASE EndProcess("aborted")
  BY <1>2, <1>3, EndKeeps
<1>4. CASE /\ \/ dir' = dir
              \/ dir' = [dir EXCEPT ![Now.to] = dir[Now.name],
                           ![Now.name] = IF fault = "rename_keeps" THEN @ ELSE None]
           /\ UNCHANGED locals /\ Settle(node)
  <2>1. /\ dir' \in [Names -> Nodes \cup {None}] /\ dir'["README.md"] = Readme
        /\ \A n \in Names \ Kept :
             \/ dir'[n] = None
             \/ \E m \in Names \ Kept : dir'[n] = dir[m]
    BY <1>1, <1>2, <1>4, Constants DEF TypesInv, ReadmeInv, Kept
  <2>2. QED  BY <1>2, <1>4, <2>1, NamesKeep
<1>5. QED  BY <1>3, <1>4 DEF SysRename, Assert

\* README.link is made, whatever it refers to.
LEMMA ReadmeLinkKeeps ==
  ASSUME DiskInv, NEW k \in Nodes, NEW contents, "type" \in DOMAIN contents,
         \/ k = Readme /\ contents = node[Readme]
         \/ k # Readme /\ \A n \in Names \ Kept : dir[n] # k
         \/ k # Readme /\ contents.type # "link",
         Enter("README.link", k, contents)
  PROVE  Keeps
<1> DEFINE after == [node EXCEPT ![k] = contents]
<1>1. dir' = [dir EXCEPT !["README.link"] = k] /\ open' = open /\ Settle(after)
  BY DEF Enter, locals
<1>2. /\ dir' \in [Names -> Nodes \cup {None}] /\ dir'["README.md"] = Readme
      /\ \A n \in Names \ Kept : dir'[n] = dir[n]
      /\ after[Readme] = node[Readme]
  BY <1>1, Constants DEF DiskInv, TypesInv, ReadmeInv, Kept, Names
<1>3. \A i \in Nodes : "type" \in DOMAIN after[i]
  BY DEF DiskInv, TypesInv
<1>4. \A n \in Names \ Kept :
        /\ dir'[n] # Readme
        /\ dir'[n] # None => after[dir'[n]].type # "link"
  BY <1>2 DEF DiskInv, TypesInv, AliasInv, Exists
<1>5. QED
  BY <1>1, <1>2, <1>3, <1>4, SettleKeeps DEF DiskInv, TypesInv, AliasInv

\* A second name: README.link for README.md, or testfile.link for a file of
\* the tests; or a copy of it, with a library that makes one.
LEMMA LinkKeeps == CallState /\ SysLink => Keeps
<1> SUFFICES ASSUME CallState, SysLink
             PROVE  Keeps
  OBVIOUS
<1> DEFINE k == IF fault = "link_copies" THEN NewInode ELSE dir[Now.name]
<1>1. /\ Now.name \in Names \ {"README.link"} /\ Now.to \in Names \ {"README.md"}
      /\ Now.name = "README.md" => Now.to = "README.link"
  BY NowIsHarmless DEF CallState, SysLink, At, Harmless
<1>2. DiskInv /\ TypesInv /\ ReadmeInv /\ AliasInv
  BY DEF CallState, DiskInv
<1>3. CASE EndProcess("aborted")
  BY <1>2, <1>3, EndKeeps
<1>4. CASE Exists(Now.name) /\ Enter(Now.to, k, node[dir[Now.name]])
  <2>1. k \in Nodes /\ dir[Now.name] \in Nodes /\ "type" \in DOMAIN node[dir[Now.name]]
    BY <1>1, <1>2, <1>4, FreeInode DEF TypesInv, Exists
  <2>2. CASE Now.name = "README.md"
    <3>1. \/ k = Readme /\ dir[Now.name] = Readme
          \/ k # Readme /\ \A n \in Names : dir[n] # k
      BY <1>2, <2>2, FreeInode, Constants DEF ReadmeInv
    <3>2. Enter("README.link", k, node[dir[Now.name]])
      BY <1>1, <1>4, <2>2
    <3> HIDE DEF k
    <3>3. QED  BY <1>2, <2>1, <3>1, <3>2, ReadmeLinkKeeps
  <2>3. CASE Now.name # "README.md"
    <3>1. /\ dir[Now.name] # Readme /\ node[dir[Now.name]].type # "link"
      BY <1>1, <1>2, <1>4, <2>3 DEF AliasInv, Kept
    <3>2. k # Readme
      BY <1>2, <3>1, FreeInode, Constants DEF ReadmeInv
    <3>3. CASE Now.to = "README.link"
      <4>1. Enter("README.link", k, node[dir[Now.name]])
        BY <1>4, <3>3
      <4> HIDE DEF k
      <4>2. QED  BY <1>2, <2>1, <3>1, <3>2, <4>1, ReadmeLinkKeeps
    <3>4. CASE Now.to # "README.link"
      <4>1. Now.to \in Names \ Kept
        BY <1>1, <3>4 DEF Kept
      <4> HIDE DEF k
      <4>2. QED  BY <1>2, <1>4, <2>1, <3>1, <3>2, <4>1, EnterKeeps
    <3>5. QED  BY <3>3, <3>4
  <2>4. QED  BY <2>2, <2>3
<1>5. QED  BY <1>3, <1>4 DEF SysLink, Assert

\* README.link gets a new inode, or that of README.md.
LEMMA SymlinkKeeps == CallState /\ SysSymlink => Keeps
<1> SUFFICES ASSUME CallState, SysSymlink
             PROVE  Keeps
  OBVIOUS
<1>1. Now.name = "README.md" /\ Now.to = "README.link"
  BY NowIsHarmless DEF CallState, SysSymlink, At, Harmless
<1>2. DiskInv /\ TypesInv /\ ReadmeInv
  BY DEF CallState, DiskInv
<1>3. CASE EndProcess("aborted")
  BY <1>2, <1>3, EndKeeps
<1>4. CASE Enter("README.link", Readme, node[Readme])
  BY <1>2, <1>4, Constants, ReadmeLinkKeeps DEF TypesInv
<1>5. CASE Enter("README.link", NewInode, New("link", <<Now.name>>, RWX))
  <2>1. NewInode \in Nodes /\ NewInode # Readme /\ \A n \in Names : dir[n] # NewInode
    BY <1>2, FreeInode, Constants DEF ReadmeInv
  <2>2. "type" \in DOMAIN New("link", <<Now.name>>, RWX)
    BY DEF New
  <2>3. QED  BY <1>2, <1>5, <2>1, <2>2, ReadmeLinkKeeps
<1>6. dir[Now.name] = Readme
  BY <1>1, <1>2 DEF ReadmeInv
<1>7. QED  BY <1>1, <1>3, <1>4, <1>5, <1>6 DEF SysSymlink, Assert

\* A directory gets a new inode.
LEMMA MkdirKeeps == CallState /\ SysMkdir => Keeps
<1> SUFFICES ASSUME CallState, SysMkdir
             PROVE  Keeps
  OBVIOUS
<1>1. Now.name \in Names \ Kept
  BY NowIsHarmless DEF CallState, SysMkdir, At, Harmless
<1>2. DiskInv /\ ReadmeInv
  BY DEF CallState, DiskInv
<1>3. CASE EndProcess("aborted")
  BY <1>2, <1>3, EndKeeps
<1>4. CASE Enter(Now.name, NewInode, New("dir", <<>>, RWX))
  <2>1. NewInode \in Nodes \ {Readme}
    BY <1>2, FreeInode, Constants DEF ReadmeInv
  <2>2. /\ "type" \in DOMAIN New("dir", <<>>, RWX)
        /\ New("dir", <<>>, RWX).type # "link"
    BY DEF New
  <2>3. QED  BY <1>1, <1>2, <1>4, <2>1, <2>2, EnterKeeps
<1>5. CASE UNCHANGED <<disk, locals>>
  BY <1>2, <1>5, SameKeeps DEF locals
<1>6. QED  BY <1>3, <1>4, <1>5 DEF SysMkdir, Assert

\* Nothing but the mode or the times of one inode changes.
LEMMA StatusKeeps ==
  ASSUME DiskInv, UNCHANGED <<dir, locals>>, DOMAIN node' = Nodes,
         node'[Readme] = node[Readme],
         \A k \in Nodes : /\ "type" \in DOMAIN node'[k]
                          /\ node'[k].type = node[k].type
  PROVE  Keeps
<1>1. dir' = dir /\ open' = open
  BY DEF locals
<1>2. QED
  BY <1>1 DEF Keeps, KeepsReadme, DiskInv, TypesInv, ReadmeInv, AliasInv, Exists

\* The mode and the times of a file of the tests, under a name that is no link.
LEMMA ChmodKeeps == CallState /\ (SysChmod \/ SysUtime) => Keeps
<1> SUFFICES ASSUME CallState, SysChmod \/ SysUtime
             PROVE  Keeps
  OBVIOUS
<1>1. Now.name \in Names \ Kept
  BY NowIsHarmless DEF CallState, SysChmod, SysUtime, At, Harmless
<1>2. DiskInv /\ TypesInv /\ ReadmeInv /\ AliasInv
  BY DEF CallState, DiskInv
<1>3. CASE EndProcess("aborted")
  BY <1>2, <1>3, EndKeeps
<1>4. CASE UNCHANGED <<dir, locals>> /\ node' = node
  BY <1>2, <1>4, SameKeeps DEF locals, disk
<1>5. CASE /\ Exists(Now.name) /\ UNCHANGED <<dir, locals>>
           /\ \/ \E m : node' = [node EXCEPT ![Follow(Now.name)].mode = m]
              \/ \E a, m : node' = [node EXCEPT ![dir[Now.name]].atime = a,
                                                ![dir[Now.name]].mtime = m]
  <2>1. /\ Follow(Now.name) = dir[Now.name]
        /\ dir[Now.name] # Readme
    BY <1>1, <1>2, <1>5 DEF AliasInv, Follow
  <2>2. DOMAIN node' = Nodes /\ node'[Readme] = node[Readme]
    BY <1>2, <1>5, <2>1, Constants DEF TypesInv
  <2>3. \A k \in Nodes : /\ "type" \in DOMAIN node'[k]
                         /\ node'[k].type = node[k].type
    <3> DEFINE i == dir[Now.name]
    <3>1. CASE \E m : node' = [node EXCEPT ![i].mode = m]
      BY <1>2, <3>1 DEF TypesInv
    <3>2. CASE \E a, m : node' = [node EXCEPT ![i].atime = a, ![i].mtime = m]
      <4>1. PICK a, m : node' = [node EXCEPT ![i].atime = a, ![i].mtime = m]
        BY <3>2
      <4> DEFINE mid == [node EXCEPT ![i].atime = a]
      <4>2. /\ DOMAIN mid = Nodes
            /\ \A k \in Nodes : "type" \in DOMAIN mid[k] /\ mid[k].type = node[k].type
        BY <1>2 DEF TypesInv
      <4>3. node' = [mid EXCEPT ![i].mtime = m]
        BY <4>1, Zenon
      <4> HIDE DEF mid
      <4>4. QED  BY <4>2, <4>3
    <3>3. QED  BY <1>5, <2>1, <3>1, <3>2
  <2>4. QED  BY <1>2, <1>5, <2>2, <2>3, StatusKeeps
<1>6. CASE SysChmod
  BY <1>3, <1>4, <1>5, <1>6, Zenon DEF SysChmod, Assert
<1>7. CASE SysUtime
  BY <1>3, <1>4, <1>5, <1>7, Zenon DEF SysUtime, Assert
<1>8. QED  BY <1>6, <1>7

\* The calls that change no name, node or descriptor.
Quiet ==
  \/ SysPoll \/ SysReadlink \/ SysStat \/ SysCheck \/ SysSame \/ SysLstat
  \/ SysAccess \/ SysNothing \/ SysChdir \/ SysChdirBack \/ SysFchdir \/ SysGetcwd
  \/ SysReaddir

\* They change nothing, or end the process.
LEMMA QuietEffect == Quiet => EndProcess("aborted") \/ UNCHANGED <<disk, open>>
<1>1. SysPoll => EndProcess("aborted") \/ UNCHANGED <<disk, open>>
  BY Zenon DEF SysPoll, Assert, locals
<1>2. SysReadlink => EndProcess("aborted") \/ UNCHANGED <<disk, open>>
  BY Zenon DEF SysReadlink, Assert, locals
<1>3. SysStat => EndProcess("aborted") \/ UNCHANGED <<disk, open>>
  BY Zenon DEF SysStat, Assert
<1>4. SysCheck \/ SysSame \/ SysLstat =>
        EndProcess("aborted") \/ UNCHANGED <<disk, open>>
  BY Zenon DEF SysCheck, SysSame, SysLstat, Assert, locals
<1>5. SysAccess \/ SysNothing \/ SysReaddir =>
        EndProcess("aborted") \/ UNCHANGED <<disk, open>>
  BY Zenon DEF SysAccess, SysNothing, SysReaddir, Assert, locals
<1>6. SysChdir \/ SysChdirBack \/ SysFchdir =>
        EndProcess("aborted") \/ UNCHANGED <<disk, open>>
  BY Zenon DEF SysChdir, SysChdirBack, SysFchdir, SetCwd, Assert
<1>7. SysGetcwd => EndProcess("aborted") \/ UNCHANGED <<disk, open>>
  BY Zenon DEF SysGetcwd, Assert, locals
<1>8. QED  BY <1>1, <1>2, <1>3, <1>4, <1>5, <1>6, <1>7 DEF Quiet

\* So they keep what the others do.
LEMMA QuietKeeps == CallState /\ Quiet => Keeps
<1> SUFFICES ASSUME CallState, Quiet
             PROVE  Keeps
  OBVIOUS
<1>1. CASE EndProcess("aborted")
  BY <1>1, EndKeeps DEF CallState
<1>2. CASE UNCHANGED <<disk, open>>
  BY <1>2, SameKeeps DEF CallState
<1>3. QED  BY <1>1, <1>2, QuietEffect

\* All calls together.
LEMMA CallKeeps == CallState /\ Call => Keeps
BY OpenKeeps, CloseKeeps, FdCallsKeep, UnlinkKeeps, RenameKeeps, LinkKeeps,
   SymlinkKeeps, MkdirKeeps, ChmodKeeps, QuietKeeps, Zenon DEF Call, Quiet

-----------------------------------------------------------------------------
\* Every call goes on or ends the process.
LEMMA CallGoesOn == Call => GoOn \/ EndProcess("aborted")
<1> USE DEF Assert
<1>1. SysOpen \/ SysClose => GoOn \/ EndProcess("aborted")
  BY Zenon DEF SysOpen, SysClose
<1>2. SysWrite \/ SysPwrite \/ SysRead => GoOn \/ EndProcess("aborted")
  BY Zenon DEF SysWrite, SysPwrite, SysRead
<1>3. SysPread \/ SysLseek \/ SysResize => GoOn \/ EndProcess("aborted")
  BY Zenon DEF SysPread, SysLseek, SysResize
<1>4. SysUnlink \/ SysRmdir \/ SysRename => GoOn \/ EndProcess("aborted")
  BY Zenon DEF SysUnlink, SysRmdir, SysRename
<1>5. SysLink \/ SysSymlink \/ SysMkdir => GoOn \/ EndProcess("aborted")
  BY Zenon DEF SysLink, SysSymlink, SysMkdir
<1>6. SysChmod \/ SysUtime => GoOn \/ EndProcess("aborted")
  BY Zenon DEF SysChmod, SysUtime
<1>7. SysPoll \/ SysReadlink \/ SysStat \/ SysCheck \/ SysSame \/ SysLstat
        => GoOn \/ EndProcess("aborted")
  BY Zenon DEF SysPoll, SysReadlink, SysStat, SysCheck, SysSame, SysLstat
<1>8. SysAccess \/ SysNothing \/ SysReaddir => GoOn \/ EndProcess("aborted")
  BY Zenon DEF SysAccess, SysNothing, SysReaddir
<1>9. SysChdir \/ SysChdirBack \/ SysFchdir \/ SysGetcwd
        => GoOn \/ EndProcess("aborted")
  BY Zenon DEF SysChdir, SysChdirBack, SysFchdir, SysGetcwd
<1>10. QED
  BY <1>1, <1>2, <1>3, <1>4, <1>5, <1>6, <1>7, <1>8, <1>9, Zenon DEF Call

\* What holds before the first call.
LEMMA InitIInv == Init => IInv
<1> SUFFICES ASSUME Init
             PROVE  PlaceInv /\ DiskInv
  BY DEF IInv
<1>1. PlaceInv
  BY SuiteIsCareful DEF Init, PlaceInv, Careful
<1>2. TypesInv
  <2>1. /\ dir = InitialDir /\ node = InitialNode
        /\ open = [h \in Handles |-> Closed]
    BY DEF Init
  <2>2. dir \in [Names -> Nodes \cup {None}]
    BY <2>1, Constants DEF InitialDir
  <2>3. DOMAIN node = Nodes /\ \A k \in Nodes : "type" \in DOMAIN node[k]
    BY <2>1 DEF InitialNode, New, Free
  <2>4. /\ DOMAIN open = Handles
        /\ \A h \in Handles : DOMAIN open[h] = {"inode", "pos"}
    BY <2>1 DEF Closed
  <2>5. QED  BY <2>2, <2>3, <2>4 DEF TypesInv
<1>3. ReadmeInv
  BY Constants DEF Init, InitialDir, InitialNode, ReadmeInv, New
<1>4. AliasInv
  <2>1. \A h \in Handles : open[h].inode # Readme
    BY Constants DEF Init, Closed
  <2>2. ASSUME NEW n \in Names \ Kept
        PROVE  dir[n] # Readme /\ (Exists(n) => node[dir[n]].type # "link")
    <3>1. n # "README.md" /\ n \in Names
      BY DEF Kept
    <3>2. dir[n] = IF n = "." THEN Root ELSE None
      BY <3>1 DEF Init, InitialDir
    <3>3. node[Root].type = "dir"
      BY Constants DEF Init, InitialNode, New
    <3>4. QED  BY <3>2, <3>3, Constants DEF Exists
  <2>3. QED  BY <2>1, <2>2 DEF AliasInv
<1>5. QED  BY <1>1, <1>2, <1>3, <1>4 DEF DiskInv

\* A step keeps the invariant, and README.md as it is.
LEMMA StepIInv ==
  ASSUME IInv, [Next]_vars
  PROVE  IInv' /\ (fault # "unlink_all" => KeepsReadme)
<1>1. fault' = fault
  BY CallGoesOn, Zenon
     DEF Next, Kill, Rerun, Stop, vars, world, GoOn, EndProcess
<1>2. SUFFICES ASSUME fault # "unlink_all"
               PROVE  PlaceInv' /\ Keeps
  BY <1>1 DEF IInv, Keeps
<1>3. PlaceInv /\ DiskInv
  BY <1>2 DEF IInv
<1>4. CASE Call
  <2>1. Keeps
    BY <1>2, <1>3, <1>4, CallKeeps DEF CallState
  <2>2. PlaceInv'
    BY <1>3, <1>4, CallGoesOn, GoOnKeepsPlace, EndKeepsPlace
  <2>3. QED  BY <2>1, <2>2
<1>5. CASE Kill
  <2>1. EndProcess("killed")
    BY <1>5 DEF Kill
  <2>2. QED  BY <1>3, <2>1, EndKeeps, EndKeepsPlace
<1>6. CASE Rerun \/ UNCHANGED vars
  <2>1. UNCHANGED <<disk, open>> /\ UNCHANGED <<world, test, step>>
    BY <1>6 DEF Rerun, vars, locals, where
  <2>2. PlaceInv'
    BY <1>3, <2>1 DEF PlaceInv, Suite, world
  <2>3. QED  BY <1>3, <2>1, <2>2, SameKeeps
<1>7. QED  BY <1>4, <1>5, <1>6 DEF Next, Stop

\* The invariant, for any bound on the runs.
THEOREM Invariant == Spec => []IInv
<1>1. IInv /\ [Next]_vars => IInv'
  BY StepIInv
<1>2. QED  BY InitIInv, <1>1, PTL DEF Spec

\* README.md, a file of the user's that link.c, symlink.c and readlink.c link
\* to, is neither changed nor removed, unless unlink() takes all its names.
THEOREM ReadmeStaysAsItIs == Spec => ReadmeKept
<1>1. IInv /\ [Next]_vars =>
        [fault # "unlink_all" =>
           dir'["README.md"] = dir["README.md"] /\ node'[Readme] = node[Readme]]_vars
  BY StepIInv DEF KeepsReadme
<1>2. QED  BY Invariant, <1>1, PTL DEF Spec, ReadmeKept

-----------------------------------------------------------------------------
(***************************************************************************)
(* A name that blocks a run blocks all later ones: until the first call    *)
(* that needs it to be free, no test removes it, and that call fails.      *)
(***************************************************************************)
Needed == {"testfile.tmp", "poll_testfile.tmp", "select_testfile.tmp",
  "README.link", "testdir", "testdir_chdir", "testdir_fchdir", "testfile.link"}

\* The test and the call that asks for the name first.
NeedTest(n) ==
  CASE n = "testfile.tmp"        -> 3
    [] n = "poll_testfile.tmp"   -> 4
    [] n = "select_testfile.tmp" -> 5
    [] n = "README.link"         -> 18
    [] n = "testdir"             -> 25
    [] n = "testdir_chdir"       -> 29
    [] n = "testdir_fchdir"      -> 30
    [] n = "testfile.link"       -> 37
NeedStep(n) == IF n = "testfile.link" THEN 4 ELSE 1

Ahead(n) == \/ test < NeedTest(n)
            \/ test = NeedTest(n) /\ step <= NeedStep(n)
InTheWay(n) ==
  /\ Exists(n)
  /\ n = "testfile.tmp" =>
       ~Allowed(node[dir["testfile.tmp"]].mode, {"S_IRUSR", "S_IWUSR"})

EndedInv == status # "running" => test = 1 /\ step = 1
BlockInv ==
  found => /\ fault = "none" /\ ~standalone /\ status # "ok"
           /\ status = "running" => \E n \in Needed : InTheWay(n) /\ Ahead(n)

Removes(c, n) ==
  c.call \in {"unlink", "unlinkat", "rmdir", "renameat"} /\ c.name = n

\* The one of the names that a test removes, if any.
Owned(t) == CASE t = 4            -> {"poll_testfile.tmp"}
              [] t = 5            -> {"select_testfile.tmp"}
              [] t \in 18..22     -> {"README.link"}
              [] t \in 25..26     -> {"testdir"}
              [] t = 29           -> {"testdir_chdir"}
              [] t = 30           -> {"testdir_fchdir"}
              [] t = 37           -> {"testfile.link"}
              [] OTHER            -> {}

Spares(calls, own) ==
  \A s \in 1..Len(calls), n \in Needed \ {"testfile.tmp"} :
    n \notin own => ~Removes(calls[s], n)

\* r has the elements of q, after the first at of its own.
Comes(r, at, q) == \A t \in 1..Len(q) : r[at + t] = q[t]

\* Where the elements of two sequences are when they are joined.
LEMMA Joined ==
  ASSUME NEW S, NEW p \in Seq(S), NEW q \in Seq(S)
  PROVE  /\ p \o q \in Seq(S) /\ Len(p \o q) = Len(p) + Len(q)
         /\ Comes(p \o q, 0, p)
         /\ Comes(p \o q, Len(p), q)
BY DEF Comes

\* And six of them.
LEMMA JoinedSix ==
  ASSUME NEW S, NEW a \in Seq(S), NEW b \in Seq(S), NEW c \in Seq(S),
         NEW d \in Seq(S), NEW e \in Seq(S), NEW f \in Seq(S)
  PROVE  LET r == a \o b \o c \o d \o e \o f
         IN  /\ Comes(r, 0, a)
             /\ Comes(r, Len(a), b)
             /\ Comes(r, Len(a) + Len(b), c)
             /\ Comes(r, Len(a) + Len(b) + Len(c), d)
             /\ Comes(r, Len(a) + Len(b) + Len(c) + Len(d), e)
             /\ Comes(r, Len(a) + Len(b) + Len(c) + Len(d) + Len(e), f)
             /\ Len(r) = Len(a) + Len(b) + Len(c) + Len(d) + Len(e) + Len(f)
<1> DEFINE s2 == a \o b
           s3 == s2 \o c
           s4 == s3 \o d
           s5 == s4 \o e
           s6 == s5 \o f
<1>0. /\ Len(a) \in Nat /\ Len(b) \in Nat /\ Len(c) \in Nat
      /\ Len(d) \in Nat /\ Len(e) \in Nat /\ Len(f) \in Nat
  OBVIOUS
<1> HIDE DEF s6, s5, s4, s3, s2
<1>1. /\ s2 \in Seq(S) /\ Len(s2) = Len(a) + Len(b)
      /\ Comes(s2, 0, a) /\ Comes(s2, Len(a), b)
  BY Joined DEF s2
<1>2. /\ s3 \in Seq(S) /\ Len(s3) = Len(s2) + Len(c)
      /\ Comes(s3, 0, s2) /\ Comes(s3, Len(s2), c)
  BY <1>1, Joined DEF s3
<1>3. /\ s4 \in Seq(S) /\ Len(s4) = Len(s3) + Len(d)
      /\ Comes(s4, 0, s3) /\ Comes(s4, Len(s3), d)
  BY <1>2, Joined DEF s4
<1>4. /\ s5 \in Seq(S) /\ Len(s5) = Len(s4) + Len(e)
      /\ Comes(s5, 0, s4) /\ Comes(s5, Len(s4), e)
  BY <1>3, Joined DEF s5
<1>5. /\ s6 \in Seq(S) /\ Len(s6) = Len(s5) + Len(f)
      /\ Comes(s6, 0, s5) /\ Comes(s6, Len(s5), f)
  BY <1>4, Joined DEF s6
<1>6. ASSUME NEW r \in Seq(S), NEW s \in Seq(S), NEW q \in Seq(S), NEW i \in Nat,
             Comes(r, 0, s), Comes(s, i, q), i + Len(q) <= Len(s)
      PROVE  Comes(r, i, q)
  <2>1. ASSUME NEW t \in 1..Len(q)
        PROVE  r[i + t] = q[t]
    <3>1. i + t \in 1..Len(s) /\ 0 + (i + t) = i + t
      BY <1>6
    <3>2. r[0 + (i + t)] = s[i + t]
      BY <1>6, <3>1 DEF Comes
    <3>3. s[i + t] = q[t]
      BY <1>6 DEF Comes
    <3>4. QED  BY <3>1, <3>2, <3>3
  <2>2. QED  BY <2>1 DEF Comes
<1>7. Comes(s4, 0, s2) /\ Comes(s5, 0, s2) /\ Comes(s6, 0, s2)
  BY <1>0, <1>1, <1>2, <1>3, <1>4, <1>5, <1>6
<1>8. Comes(s5, 0, s3) /\ Comes(s6, 0, s3) /\ Comes(s6, 0, s4)
  BY <1>0, <1>1, <1>2, <1>3, <1>4, <1>5, <1>6
<1>9. /\ Comes(s6, 0, a) /\ Comes(s6, Len(a), b) /\ Comes(s6, Len(s2), c)
      /\ Comes(s6, Len(s3), d) /\ Comes(s6, Len(s4), e)
  BY <1>0, <1>1, <1>2, <1>3, <1>4, <1>5, <1>6, <1>7, <1>8
<1>10. QED  BY <1>0, <1>1, <1>2, <1>3, <1>4, <1>5, <1>9 DEF s6, s5, s4, s3, s2

\* The tests of a build that is not standalone, by their numbers.
LEMMA HostSuite ==
  ASSUME ~standalone
  PROVE  /\ Len(Suite) = 44
         /\ Suite[1] = test_open_close
         /\ Suite[2] = test_create_unlink
         /\ Suite[3] = test_write_read
         /\ Suite[4] = test_poll
         /\ Suite[5] = test_select
         /\ Suite[6] = test_posix_fadvise
         /\ Suite[7] = test_lseek
         /\ Suite[8] = test_posix_fallocate
         /\ Suite[9] = test_readv
         /\ Suite[10] = test_preadv
         /\ Suite[11] = test_writev
         /\ Suite[12] = test_pwritev
         /\ Suite[13] = test_pread
         /\ Suite[14] = test_pwrite
         /\ Suite[15] = test_fdatasync
         /\ Suite[16] = test_stat
         /\ Suite[17] = test_ftruncate
         /\ Suite[18] = test_linkat
         /\ Suite[19] = test_link
         /\ Suite[20] = test_symlinkat
         /\ Suite[21] = test_readlinkat
         /\ Suite[22] = test_readlink
         /\ Suite[23] = test_renameat
         /\ Suite[24] = test_unlinkat
         /\ Suite[25] = test_mkdirat
         /\ Suite[26] = test_mkdir
         /\ Suite[27] = test_dirent
         /\ Suite[28] = test_getcwd
         /\ Suite[29] = test_chdir
         /\ Suite[30] = test_fchdir
         /\ Suite[31] = test_utimensat
         /\ Suite[32] = test_utimes
         /\ Suite[33] = test_utime
         /\ Suite[34] = test_chmod
         /\ Suite[35] = test_fchmodat
         /\ Suite[36] = test_fchmod
         /\ Suite[37] = test_lchmod
         /\ Suite[38] = test_fchownat
         /\ Suite[39] = test_faccessat
         /\ Suite[40] = test_access
         /\ Suite[41] = test_chown
         /\ Suite[42] = test_fchown
         /\ Suite[43] = test_lchown
         /\ Suite[44] = test_futimens
<1> DEFINE a == <<test_open_close, test_create_unlink, test_write_read>>
           b == <<test_poll, test_select>>
           c == <<test_posix_fadvise, test_lseek, test_posix_fallocate,
                  test_readv, test_preadv, test_writev, test_pwritev,
                  test_pread, test_pwrite, test_fdatasync, test_stat,
                  test_ftruncate>>
           d == <<test_linkat, test_link, test_symlinkat, test_readlinkat,
                  test_readlink>>
           e == <<test_renameat, test_unlinkat, test_mkdirat, test_mkdir,
                  test_dirent, test_getcwd, test_chdir, test_fchdir>>
           f == <<test_utimensat, test_utimes, test_utime, test_chmod,
                  test_fchmodat, test_fchmod, test_lchmod, test_fchownat,
                  test_faccessat, test_access, test_chown, test_fchown,
                  test_lchown, test_futimens>>
<1>1. /\ Unless(standalone, b) = b /\ Unless(standalone, d) = d
      /\ Unless(standalone, f) = f
  BY DEF Unless
<1>2. /\ a \in Seq(Scripts) /\ b \in Seq(Scripts) /\ c \in Seq(Scripts)
      /\ d \in Seq(Scripts) /\ e \in Seq(Scripts) /\ f \in Seq(Scripts)
  BY DEF Scripts
<1>3. /\ Len(a) = 3 /\ Len(b) = 2 /\ Len(c) = 12 /\ Len(d) = 5 /\ Len(e) = 8
      /\ Len(f) = 14
  OBVIOUS
<1>4. Suite = a \o b \o c \o d \o e \o f
  <2>1. Suite = a \o Unless(standalone, b) \o c \o Unless(standalone, d) \o e
                  \o Unless(standalone, f)
    BY Zenon DEF Suite, Tests
  <2> HIDE DEF a, b, c, d, e, f
  <2>2. QED  BY <1>1, <2>1, Zenon
<1>5. /\ Comes(Suite, 0, a) /\ Comes(Suite, Len(a), b)
      /\ Comes(Suite, Len(a) + Len(b), c)
      /\ Comes(Suite, Len(a) + Len(b) + Len(c), d)
      /\ Comes(Suite, Len(a) + Len(b) + Len(c) + Len(d), e)
      /\ Comes(Suite, Len(a) + Len(b) + Len(c) + Len(d) + Len(e), f)
      /\ Len(Suite) = Len(a) + Len(b) + Len(c) + Len(d) + Len(e) + Len(f)
  <2> HIDE DEF a, b, c, d, e, f
  <2>1. QED  BY <1>2, <1>4, JoinedSix
<1>6. /\ Comes(Suite, 0, a) /\ Comes(Suite, 3, b) /\ Comes(Suite, 5, c)
      /\ Comes(Suite, 17, d) /\ Comes(Suite, 22, e) /\ Comes(Suite, 30, f)
      /\ Len(Suite) = 44
  <2> HIDE DEF a, b, c, d, e, f
  <2>1. QED  BY <1>3, <1>5
<1>7. /\ Suite[1] = test_open_close
      /\ Suite[2] = test_create_unlink
      /\ Suite[3] = test_write_read
  <2>1. \A t \in 1..3 : Suite[0 + t] = a[t]
    BY <1>3, <1>6, Zenon DEF Comes
  <2>2. QED  BY <2>1
<1>8. /\ Suite[4] = test_poll
      /\ Suite[5] = test_select
  <2>1. \A t \in 1..2 : Suite[3 + t] = b[t]
    BY <1>3, <1>6, Zenon DEF Comes
  <2>2. QED  BY <2>1
<1>9. /\ Suite[6] = test_posix_fadvise
      /\ Suite[7] = test_lseek
      /\ Suite[8] = test_posix_fallocate
      /\ Suite[9] = test_readv
      /\ Suite[10] = test_preadv
      /\ Suite[11] = test_writev
      /\ Suite[12] = test_pwritev
      /\ Suite[13] = test_pread
      /\ Suite[14] = test_pwrite
      /\ Suite[15] = test_fdatasync
      /\ Suite[16] = test_stat
      /\ Suite[17] = test_ftruncate
  <2>1. \A t \in 1..12 : Suite[5 + t] = c[t]
    BY <1>3, <1>6, Zenon DEF Comes
  <2>2. QED  BY <2>1
<1>10. /\ Suite[18] = test_linkat
       /\ Suite[19] = test_link
       /\ Suite[20] = test_symlinkat
       /\ Suite[21] = test_readlinkat
       /\ Suite[22] = test_readlink
  <2>1. \A t \in 1..5 : Suite[17 + t] = d[t]
    BY <1>3, <1>6, Zenon DEF Comes
  <2>2. QED  BY <2>1
<1>11. /\ Suite[23] = test_renameat
       /\ Suite[24] = test_unlinkat
       /\ Suite[25] = test_mkdirat
       /\ Suite[26] = test_mkdir
       /\ Suite[27] = test_dirent
       /\ Suite[28] = test_getcwd
       /\ Suite[29] = test_chdir
       /\ Suite[30] = test_fchdir
  <2>1. \A t \in 1..8 : Suite[22 + t] = e[t]
    BY <1>3, <1>6, Zenon DEF Comes
  <2>2. QED  BY <2>1
<1>12. /\ Suite[31] = test_utimensat
       /\ Suite[32] = test_utimes
       /\ Suite[33] = test_utime
       /\ Suite[34] = test_chmod
       /\ Suite[35] = test_fchmodat
       /\ Suite[36] = test_fchmod
       /\ Suite[37] = test_lchmod
       /\ Suite[38] = test_fchownat
       /\ Suite[39] = test_faccessat
       /\ Suite[40] = test_access
       /\ Suite[41] = test_chown
       /\ Suite[42] = test_fchown
       /\ Suite[43] = test_lchown
       /\ Suite[44] = test_futimens
  <2>1. \A t \in 1..14 : Suite[30 + t] = f[t]
    BY <1>3, <1>6, Zenon DEF Comes
  <2>2. QED  BY <2>1
<1>13. QED
  BY <1>6, <1>7, <1>8, <1>9, <1>10, <1>11, <1>12, Zenon

\* What each script removes of the names.
LEMMA ScriptsSpare ==
  /\ Spares(test_open_close, {})
  /\ Spares(test_create_unlink, {})
  /\ Spares(test_write_read, {})
  /\ Spares(test_poll, {"poll_testfile.tmp"})
  /\ Spares(test_select, {"select_testfile.tmp"})
  /\ Spares(test_posix_fadvise, {})
  /\ Spares(test_lseek, {})
  /\ Spares(test_posix_fallocate, {})
  /\ Spares(test_readv, {})
  /\ Spares(test_preadv, {})
  /\ Spares(test_writev, {})
  /\ Spares(test_pwritev, {})
  /\ Spares(test_pread, {})
  /\ Spares(test_pwrite, {})
  /\ Spares(test_fdatasync, {})
  /\ Spares(test_stat, {})
  /\ Spares(test_ftruncate, {})
  /\ Spares(test_linkat, {"README.link"})
  /\ Spares(test_link, {"README.link"})
  /\ Spares(test_symlinkat, {"README.link"})
  /\ Spares(test_readlinkat, {"README.link"})
  /\ Spares(test_readlink, {"README.link"})
  /\ Spares(test_renameat, {})
  /\ Spares(test_unlinkat, {})
  /\ Spares(test_mkdirat, {"testdir"})
  /\ Spares(test_mkdir, {"testdir"})
  /\ Spares(test_dirent, {})
  /\ Spares(test_getcwd, {})
  /\ Spares(test_chdir, {"testdir_chdir"})
  /\ Spares(test_fchdir, {"testdir_fchdir"})
  /\ Spares(test_utimensat, {})
  /\ Spares(test_utimes, {})
  /\ Spares(test_utime, {})
  /\ Spares(test_chmod, {})
  /\ Spares(test_fchmodat, {})
  /\ Spares(test_fchmod, {})
  /\ Spares(test_lchmod, {"testfile.link"})
  /\ Spares(test_fchownat, {})
  /\ Spares(test_faccessat, {})
  /\ Spares(test_access, {})
  /\ Spares(test_chown, {})
  /\ Spares(test_fchown, {})
  /\ Spares(test_lchown, {})
  /\ Spares(test_futimens, {})
<1> USE DEF Spares, Removes, Needed, Open, OpenAs, Create, Opendir,
  Close, CloseAs, Write, Pwrite, Read, Pread, Lseek, Resize, Poll, Unlink, Rmdir,
  Two, Mkdir, Readlink, Lstat, Stat, Check, Times, Access, ChmodTo, ChmodPrivate,
  ChmodBack, Nothing, Getcwd, TMP
<1>1. Spares(test_open_close, {})
  BY DEF test_open_close
<1>2. Spares(test_create_unlink, {})
  BY DEF test_create_unlink
<1>3. Spares(test_write_read, {})
  BY DEF test_write_read
<1>4. Spares(test_poll, {"poll_testfile.tmp"})
  BY DEF test_poll, Multiplexing
<1>5. Spares(test_select, {"select_testfile.tmp"})
  BY DEF test_select, Multiplexing
<1>6. Spares(test_posix_fadvise, {})
  BY DEF test_posix_fadvise
<1>7. Spares(test_lseek, {})
  BY DEF test_lseek
<1>8. Spares(test_posix_fallocate, {})
  BY DEF test_posix_fallocate
<1>9. Spares(test_readv, {})
  BY DEF test_readv
<1>10. Spares(test_preadv, {})
  BY DEF test_preadv
<1>11. Spares(test_writev, {})
  BY DEF test_writev
<1>12. Spares(test_pwritev, {})
  BY DEF test_pwritev
<1>13. Spares(test_pread, {})
  BY DEF test_pread
<1>14. Spares(test_pwrite, {})
  BY DEF test_pwrite
<1>15. Spares(test_fdatasync, {})
  BY DEF test_fdatasync
<1>16. Spares(test_stat, {})
  BY DEF test_stat
<1>17. Spares(test_ftruncate, {})
  BY DEF test_ftruncate
<1>18. Spares(test_linkat, {"README.link"})
  BY DEF test_linkat, Linking
<1>19. Spares(test_link, {"README.link"})
  BY DEF test_link, Linking
<1>20. Spares(test_symlinkat, {"README.link"})
  BY DEF test_symlinkat
<1>21. Spares(test_readlinkat, {"README.link"})
  BY DEF test_readlinkat, ReadingLink
<1>22. Spares(test_readlink, {"README.link"})
  BY DEF test_readlink, ReadingLink
<1>23. Spares(test_renameat, {})
  BY DEF test_renameat
<1>24. Spares(test_unlinkat, {})
  BY DEF test_unlinkat
<1>25. Spares(test_mkdirat, {"testdir"})
  BY DEF test_mkdirat, MakingDirectory
<1>26. Spares(test_mkdir, {"testdir"})
  BY DEF test_mkdir, MakingDirectory
<1>27. Spares(test_dirent, {})
  BY DEF test_dirent
<1>28. Spares(test_getcwd, {})
  BY DEF test_getcwd
<1>29. Spares(test_chdir, {"testdir_chdir"})
  BY DEF test_chdir
<1>30. Spares(test_fchdir, {"testdir_fchdir"})
  BY DEF test_fchdir
<1>31. Spares(test_utimensat, {})
  BY DEF test_utimensat, TimesOpen
<1>32. Spares(test_utimes, {})
  BY DEF test_utimes, TimesClosed
<1>33. Spares(test_utime, {})
  BY DEF test_utime, TimesClosed
<1>34. Spares(test_chmod, {})
  BY DEF test_chmod, Modes
<1>35. Spares(test_fchmodat, {})
  BY DEF test_fchmodat, Modes
<1>36. Spares(test_fchmod, {})
  BY DEF test_fchmod, Modes
<1>37. Spares(test_lchmod, {"testfile.link"})
  BY DEF test_lchmod, Modes
<1>38. Spares(test_fchownat, {})
  BY DEF test_fchownat, Owning
<1>39. Spares(test_faccessat, {})
  BY DEF test_faccessat, Readable, Writable
<1>40. Spares(test_access, {})
  BY DEF test_access, Writable
<1>41. Spares(test_chown, {})
  BY DEF test_chown, Owning
<1>42. Spares(test_fchown, {})
  BY DEF test_fchown
<1>43. Spares(test_lchown, {})
  BY DEF test_lchown, Owning
<1>44. Spares(test_futimens, {})
  BY DEF test_futimens, TimesOpen
<1> HIDE DEF Spares
<1>45. QED  BY <1>1, <1>2, <1>3, <1>4, <1>5, <1>6, <1>7, <1>8, <1>9, <1>10,
         <1>11, <1>12, <1>13, <1>14, <1>15, <1>16, <1>17, <1>18, <1>19,
         <1>20, <1>21, <1>22, <1>23, <1>24, <1>25, <1>26, <1>27, <1>28,
         <1>29, <1>30, <1>31, <1>32, <1>33, <1>34, <1>35, <1>36, <1>37,
         <1>38, <1>39, <1>40, <1>41, <1>42, <1>43, <1>44

\* The same, by their numbers.
LEMMA TestsSpare ==
  ASSUME ~standalone, NEW t \in 1..44
  PROVE  Spares(Suite[t], Owned(t))
<1>1. t \in 1..5 => Spares(Suite[t], Owned(t))
  BY HostSuite, ScriptsSpare DEF Owned
<1>2. t \in 6..17 => Spares(Suite[t], Owned(t))
  BY HostSuite, ScriptsSpare DEF Owned
<1>3. t \in 18..26 => Spares(Suite[t], Owned(t))
  BY HostSuite, ScriptsSpare DEF Owned
<1>4. t \in 27..33 => Spares(Suite[t], Owned(t))
  BY HostSuite, ScriptsSpare DEF Owned
<1>5. t \in 34..44 => Spares(Suite[t], Owned(t))
  BY HostSuite, ScriptsSpare DEF Owned
<1>6. QED  BY <1>1, <1>2, <1>3, <1>4, <1>5

AtNeed(n) == test = NeedTest(n) /\ step = NeedStep(n)

\* Before the call that needs it, none removes a name.
LEMMA SparedUntilNeeded ==
  ASSUME PlaceInv, ~standalone, NEW n \in Needed \ {"testfile.tmp"}, Ahead(n),
         ~AtNeed(n)
  PROVE  ~Removes(Now, n)
<1>1. test \in 1..44 /\ step \in 1..Len(Suite[test])
  BY HostSuite DEF PlaceInv
<1>2. CASE test < NeedTest(n)
  <2>1. n \notin Owned(test)
    BY <1>1, <1>2 DEF Needed, NeedTest, Owned
  <2>2. QED  BY <1>1, <2>1, TestsSpare DEF Spares, Now
<1>3. CASE test = NeedTest(n)
  <2>1. step <= NeedStep(n) /\ step # NeedStep(n)
    BY <1>1, <1>3 DEF Ahead, AtNeed
  <2>2. n = "testfile.link"
    BY <1>1, <2>1 DEF NeedStep
  <2>3. test = 37 /\ step \in 1..3
    BY <1>1, <1>3, <2>1, <2>2 DEF NeedStep, NeedTest
  <2>4. Now = test_lchmod[step]
    BY <2>3, HostSuite DEF Now
  <2>5. /\ test_lchmod[1] = Create(TMP) /\ test_lchmod[2] = Close
        /\ test_lchmod[3] = Stat(TMP)
    BY DEF test_lchmod
  <2>6. QED
    BY <2>3, <2>4, <2>5 DEF Removes, Create, Open, OpenAs, Close, CloseAs, Stat
<1>4. QED  BY <1>2, <1>3 DEF Ahead

\* The tests before test_write_read() open, close and remove other names.
LEMMA TmpUntilNeeded ==
  ASSUME PlaceInv, ~standalone, test \in {1, 2}
  PROVE  /\ Now.call \in {"open", "close", "unlink"}
         /\ Now.call = "unlink" => Now.name # "testfile.tmp"
<1>1. /\ step \in 1..Len(Suite[test])
      /\ Suite[test] \in {test_open_close, test_create_unlink}
  BY HostSuite DEF PlaceInv
<1>2. \A s \in 1..Len(test_open_close) :
        /\ test_open_close[s].call \in {"open", "close", "unlink"}
        /\ test_open_close[s].call = "unlink" => test_open_close[s].name # "testfile.tmp"
  BY DEF test_open_close, Open, OpenAs, Close, CloseAs, Unlink
<1>3. \A s \in 1..Len(test_create_unlink) :
        /\ test_create_unlink[s].call \in {"open", "close", "unlink"}
        /\ test_create_unlink[s].call = "unlink"
             => test_create_unlink[s].name # "testfile.tmp"
  BY DEF test_create_unlink, Open, OpenAs, Close, CloseAs, Unlink
<1>4. QED  BY <1>1, <1>2, <1>3 DEF Now

\* The actions of the calls that matter here.
LEMMA OpenOrClose ==
  ASSUME Call,
         Now.call \in {"open", "close", "unlink", "link", "linkat", "mkdir", "mkdirat"}
  PROVE  SysOpen \/ SysClose \/ SysUnlink \/ SysLink \/ SysMkdir
<1>1. /\ ~SysWrite /\ ~SysPwrite /\ ~SysRead /\ ~SysPread
  BY DEF SysWrite, SysPwrite, SysRead, SysPread, At
<1>2. /\ ~SysLseek /\ ~SysResize /\ ~SysPoll /\ ~SysRmdir /\ ~SysRename
  BY DEF SysLseek, SysResize, SysPoll, SysRmdir, SysRename, At
<1>3. /\ ~SysSymlink /\ ~SysReadlink /\ ~SysStat /\ ~SysCheck /\ ~SysSame
  BY DEF SysSymlink, SysReadlink, SysStat, SysCheck, SysSame, At
<1>4. /\ ~SysLstat /\ ~SysChmod /\ ~SysUtime /\ ~SysAccess /\ ~SysNothing
  BY DEF SysLstat, SysChmod, SysUtime, SysAccess, SysNothing, At
<1>5. /\ ~SysChdir /\ ~SysChdirBack /\ ~SysFchdir /\ ~SysGetcwd /\ ~SysReaddir
  BY DEF SysChdir, SysChdirBack, SysFchdir, SysGetcwd, SysReaddir, At
<1>6. QED  BY <1>1, <1>2, <1>3, <1>4, <1>5 DEF Call

\* At the call that needs a name, the test fails if it is in the way.
LEMMA NeededFails ==
  ASSUME CallState, fault = "none", ~standalone, NEW n \in Needed, InTheWay(n),
         AtNeed(n), Call
  PROVE  EndProcess("aborted")
<1>1. CASE n = "testfile.tmp"
  <2>1. Now = Create(TMP)
    BY <1>1, HostSuite DEF AtNeed, NeedTest, NeedStep, Now, test_write_read
  <2>2. /\ Now.call = "open" /\ Now.name = "testfile.tmp"
        /\ Now.flags = {"O_CREAT", "O_RDWR"}
    BY <2>1 DEF Create, Open, OpenAs, TMP
  <2>3. SysOpen
    BY <2>2, OpenOrClose DEF SysClose, SysUnlink, SysLink, SysMkdir, At
  <2>4. Wanted(Now.flags) = {"S_IRUSR", "S_IWUSR"}
    BY <2>2 DEF Wanted
  <2>5. /\ Exists(Now.name)
        /\ ~Allowed(node[dir[Now.name]].mode, Wanted(Now.flags))
    BY <1>1, <2>2, <2>4 DEF InTheWay
  <2>6. QED  BY <2>3, <2>5, Zenon DEF SysOpen, Assert
<1>2. CASE n \in {"poll_testfile.tmp", "select_testfile.tmp"}
  <2>1. \E f \in {n} : Now = Open(f, {"O_CREAT", "O_EXCL", "O_RDWR"})
    BY <1>2, HostSuite DEF AtNeed, NeedTest, NeedStep, Now, test_poll, test_select,
                           Multiplexing
  <2>2. /\ Now.call = "open" /\ Now.name = n /\ "O_EXCL" \in Now.flags
    BY <2>1 DEF Open, OpenAs
  <2>3. SysOpen
    BY <2>2, OpenOrClose DEF SysClose, SysUnlink, SysLink, SysMkdir, At
  <2>4. Exists(Now.name) /\ fault # "excl_ignored"
    BY <2>2 DEF InTheWay
  <2>5. QED  BY <2>2, <2>3, <2>4, Zenon DEF SysOpen, Assert
<1>3. CASE n \in {"README.link", "testfile.link"}
  <2>1. Now.call \in {"link", "linkat"} /\ Now.to = n
    <3>1. CASE n = "README.link"
      BY <3>1, HostSuite DEF AtNeed, NeedTest, NeedStep, Now, test_linkat, Linking, Two
    <3>2. CASE n = "testfile.link"
      <4>1. Now = test_lchmod[4]
        BY <3>2, HostSuite DEF AtNeed, NeedTest, NeedStep, Now
      <4>2. test_lchmod[4] = Two("link", TMP, "testfile.link")
        BY DEF test_lchmod
      <4>3. QED  BY <3>2, <4>1, <4>2 DEF Two
    <3>3. QED  BY <1>3, <3>1, <3>2
  <2>2. SysLink
    BY <2>1, OpenOrClose DEF SysOpen, SysClose, SysUnlink, SysMkdir, At
  <2>3. Exists(Now.to)
    BY <2>1 DEF InTheWay
  <2>4. QED  BY <2>2, <2>3, Zenon DEF SysLink, Assert
<1>4. CASE n \in {"testdir", "testdir_chdir", "testdir_fchdir"}
  <2>1. Now.call \in {"mkdir", "mkdirat"} /\ Now.name = n
    BY <1>4, HostSuite DEF AtNeed, NeedTest, NeedStep, Now, test_mkdirat,
                           MakingDirectory, test_chdir, test_fchdir, Mkdir
  <2>2. SysMkdir
    BY <2>1, OpenOrClose DEF SysOpen, SysClose, SysUnlink, SysLink, At
  <2>3. Exists(Now.name) /\ fault # "mkdir_existing"
    BY <2>1 DEF InTheWay
  <2>4. QED  BY <2>2, <2>3, Zenon DEF SysMkdir, Assert
<1>5. QED  BY <1>1, <1>2, <1>3, <1>4 DEF Needed

\* From before a call to the next one, or to that call.
LEMMA Advance ==
  ASSUME NEW t \in Nat, NEW s \in Nat, NEW n \in Nat,
         NEW t1 \in Nat, NEW s1 \in Nat,
         NEW tn \in Nat, NEW sn \in Nat \ {0}, tn < 44,
         t <= tn, t = tn => s < sn /\ sn <= n,
         IF s < n THEN s1 = s + 1 /\ t1 = t
         ELSE s1 = 1 /\ t1 = IF t < 44 THEN t + 1 ELSE 1
  PROVE  t1 < tn \/ (t1 = tn /\ s1 <= sn)
OBVIOUS

\* The way to the call that needs a name goes on.
LEMMA GoesOnToNeed ==
  ASSUME PlaceInv, ~standalone, NEW n \in Needed, Ahead(n), ~AtNeed(n), GoOn
  PROVE  Ahead(n)' /\ status' = "running"
<1> DEFINE m == Len(Suite[test])
           tn == NeedTest(n)
           sn == NeedStep(n)
<1>1. test \in 1..44 /\ step \in 1..m /\ Len(Suite) = 44
  BY HostSuite DEF PlaceInv
<1>2. m \in Nat
  BY <1>1, SuiteIsCareful DEF Careful
<1>3. tn \in Nat /\ tn < 44 /\ sn \in Nat \ {0}
  BY DEF Needed, NeedTest, NeedStep
<1>4. test = tn => sn <= m
  <2>1. CASE n = "testfile.link"
    <3>1. tn = 37 /\ sn = 4
      BY <2>1 DEF NeedTest, NeedStep
    <3>2. Len(test_lchmod) >= 4
      BY DEF test_lchmod, Modes
    <3>3. QED  BY <3>1, <3>2, HostSuite
  <2>2. CASE n # "testfile.link"
    <3>1. sn = 1
      BY <2>2 DEF NeedStep
    <3>2. QED  BY <3>1, <1>1, <1>2
  <2>3. QED  BY <2>1, <2>2
<1>5. IF step < m THEN step' = step + 1 /\ test' = test
      ELSE step' = 1 /\ test' = IF test < 44 THEN test + 1 ELSE 1
  BY <1>1 DEF GoOn
<1>6. \/ test < tn
      \/ test = tn /\ step <= sn /\ step # sn
  BY DEF Ahead, AtNeed
<1>7. status' = "running"
  <2>1. status' = IF test = 44 /\ step = m THEN "ok" ELSE "running"
    BY <1>1 DEF GoOn
  <2> HIDE DEF m, tn, sn
  <2>2. QED  BY <2>1, <1>1, <1>3, <1>6
<1>8. test \in Nat /\ step \in Nat
  BY <1>1
<1> HIDE DEF m, tn, sn
<1>9. test' < tn \/ (test' = tn /\ step' <= sn)
  <2>1. test <= tn /\ (test = tn => step < sn /\ sn <= m)
    BY <1>1, <1>3, <1>4, <1>6, <1>8
  <2>2. test' \in Nat /\ step' \in Nat
    <3>1. CASE step < m
      BY <3>1, <1>5, <1>8
    <3>2. CASE ~(step < m)
      BY <3>2, <1>5, <1>8
    <3>3. QED  BY <3>1, <3>2
  <2>3. QED  BY <2>1, <2>2, <1>2, <1>3, <1>5, <1>8, Advance
<1>10. QED  BY <1>7, <1>9 DEF Ahead, tn, sn

\* With a library without a fault a name goes only when it is removed.
LEMMA NamesStay ==
  ASSUME CallState, fault = "none", Call, NEW n \in Names, Exists(n),
         ~Removes(Now, n)
  PROVE  dir'[n] # None
<1>1. DiskInv /\ TypesInv /\ ReadmeInv /\ None \notin Nodes
  BY Constants DEF CallState, DiskInv
<1>2. CASE EndProcess("aborted") \/ dir' = dir
  BY <1>2 DEF EndProcess, Exists
<1>3. ASSUME NEW name, NEW k \in Nodes, dir' = [dir EXCEPT ![name] = k]
      PROVE  dir'[n] # None
  BY <1>1, <1>3 DEF TypesInv, Exists
<1>4. CASE SysOpen
  <2> DEFINE k == IF Exists(Now.name) THEN dir[Now.name] ELSE NewInode
  <2>1. EndProcess("aborted") \/ dir' = [dir EXCEPT ![Now.name] = k]
    BY <1>4, Zenon DEF SysOpen, Assert
  <2>2. Now.name \in Names
    BY <1>4, NowIsHarmless DEF CallState, SysOpen, At, Harmless
  <2>3. k \in Nodes
    BY <1>1, <2>2, FreeInode DEF TypesInv, Exists
  <2>4. QED  BY <1>2, <1>3, <2>1, <2>3
<1>5. CASE SysUnlink
  <2>1. Now.name # n
    BY <1>5 DEF SysUnlink, At, Removes
  <2>2. \/ EndProcess("aborted")
        \/ dir' = [m \in Names |-> IF m \in {Now.name} THEN None ELSE dir[m]]
    BY <1>5 DEF SysUnlink, Assert
  <2>3. QED  BY <1>2, <2>1, <2>2 DEF Exists
<1>6. CASE SysRmdir
  <2>1. Now.name # n
    BY <1>6 DEF SysRmdir, At, Removes
  <2>2. EndProcess("aborted") \/ dir' = [dir EXCEPT ![Now.name] = None]
    BY <1>6 DEF SysRmdir, Assert
  <2>3. QED  BY <1>1, <1>2, <2>1, <2>2 DEF Exists, TypesInv
<1>7. CASE SysRename
  <2>1. Now.name # n
    BY <1>7 DEF SysRename, At, Removes
  <2>2. \/ EndProcess("aborted")
        \/ /\ dir[Now.name] # None
           /\ dir' = [dir EXCEPT ![Now.to] = dir[Now.name], ![Now.name] = None]
    BY <1>7 DEF SysRename, Assert, Exists
  <2>3. QED  BY <1>1, <1>2, <2>1, <2>2 DEF Exists, TypesInv
<1>8. CASE SysLink
  <2>1. \/ EndProcess("aborted")
        \/ dir[Now.name] # None /\ dir' = [dir EXCEPT ![Now.to] = dir[Now.name]]
    BY <1>8 DEF SysLink, Assert, Enter, Exists
  <2>2. QED  BY <1>1, <1>2, <2>1 DEF Exists, TypesInv
<1>9. CASE SysSymlink
  <2>1. EndProcess("aborted") \/ dir' = [dir EXCEPT ![Now.to] = NewInode]
    BY <1>9 DEF SysSymlink, Assert, Enter
  <2>2. QED  BY <1>2, <1>3, <2>1, FreeInode
<1>10. CASE SysMkdir
  <2>1. \/ EndProcess("aborted") \/ dir' = dir
        \/ dir' = [dir EXCEPT ![Now.name] = NewInode]
    BY <1>10, Zenon DEF SysMkdir, Assert, Enter, disk
  <2>2. QED  BY <1>2, <1>3, <2>1, FreeInode
<1>11. CASE SysClose \/ SysChmod \/ SysUtime
  BY <1>2, <1>11, Zenon DEF SysClose, SysChmod, SysUtime, Assert
<1>12. CASE SysWrite \/ SysPwrite \/ SysRead \/ SysPread \/ SysLseek \/ SysResize
  <2> USE DEF Assert, SetFile
  <2>1. SysWrite \/ SysPwrite \/ SysRead => EndProcess("aborted") \/ dir' = dir
    BY Zenon DEF SysWrite, SysPwrite, SysRead
  <2>2. SysPread \/ SysLseek \/ SysResize => EndProcess("aborted") \/ dir' = dir
    BY Zenon DEF SysPread, SysLseek, SysResize
  <2>3. QED  BY <1>2, <1>12, <2>1, <2>2
<1>13. CASE Quiet
  <2>1. EndProcess("aborted") \/ UNCHANGED <<disk, open>>
    BY <1>13, QuietEffect
  <2>2. QED  BY <1>2, <2>1 DEF disk
<1>14. QED
  BY <1>4, <1>5, <1>6, <1>7, <1>8, <1>9, <1>10, <1>11, <1>12, <1>13, Zenon
     DEF Call, Quiet

\* A file testfile.tmp that may not be opened stays so until test_write_read().
LEMMA TmpStays ==
  ASSUME CallState, fault = "none", ~standalone, Call, test \in {1, 2},
         InTheWay("testfile.tmp")
  PROVE  InTheWay("testfile.tmp")'
<1> DEFINE n == "testfile.tmp"
           i == dir[n]
<1>1. /\ Now.call \in {"open", "close", "unlink"}
      /\ Now.call = "unlink" => Now.name # n
  BY TmpUntilNeeded DEF CallState
<1>2. DiskInv /\ TypesInv /\ i \in Nodes /\ n \in Names /\ None \notin Nodes
  BY Constants DEF CallState, DiskInv, TypesInv, InTheWay, Exists, Names
<1>3. SUFFICES dir'[n] = i /\ node'[i] = node[i]
  <2>1. privileged' = privileged
    BY CallGoesOn DEF GoOn, EndProcess, world
  <2>2. QED  BY <1>2, <1>3, <2>1 DEF InTheWay, Exists, Allowed
<1>4. ASSUME NEW contents, Settle(contents), dir'[n] = i
      PROVE  node'[i] = contents[i]
  BY <1>2, <1>4 DEF Settle
<1>5. CASE Settle(node) /\ dir'[n] = i
  BY <1>4, <1>5
<1>6. CASE EndProcess("aborted")
  BY <1>5, <1>6 DEF EndProcess
<1>7. CASE SysOpen
  <2> DEFINE there == Exists(Now.name)
             k == IF there THEN dir[Now.name] ELSE NewInode
             mode == IF fault = "creat_mode" THEN {"S_IRUSR", "S_IWUSR", "S_IRGRP"}
                     ELSE Now.mode
             after == [node EXCEPT ![k] =
                         IF ~there THEN New("file", <<>>, mode)
                         ELSE IF fault = "creat_truncates" /\ "O_CREAT" \in Now.flags
                         THEN [@ EXCEPT !.data = <<>>] ELSE @]
  <2>1. CASE dir' = [dir EXCEPT ![Now.name] = k] /\ Settle(after)
    <3>1. dir'[n] = i
      BY <1>2, <2>1 DEF TypesInv, Exists
    <3>2. after[i] = node[i]
      BY <1>2, FreeInode DEF TypesInv
    <3> HIDE DEF after
    <3>3. QED  BY <1>4, <2>1, <3>1, <3>2
  <2>2. QED  BY <1>6, <1>7, <2>1 DEF SysOpen, Assert
<1>8. CASE SysClose
  BY <1>5, <1>6, <1>8 DEF SysClose, Assert
<1>9. CASE SysUnlink
  <2>1. Now.name # n
    BY <1>1, <1>9 DEF SysUnlink, At
  <2>2. \/ EndProcess("aborted")
        \/ /\ dir' = [m \in Names |-> IF m \in {Now.name} THEN None ELSE dir[m]]
           /\ Settle(node)
    BY <1>9 DEF SysUnlink, Assert
  <2>3. QED  BY <1>2, <1>5, <1>6, <2>1, <2>2
<1>10. CASE SysLink \/ SysMkdir
  BY <1>1, <1>10 DEF SysLink, SysMkdir, At
<1>11. QED  BY <1>1, <1>7, <1>8, <1>9, <1>10, OpenOrClose

\* A call is made by a process that runs.
LEMMA CallRuns == Call => status = "running"
<1> USE DEF At
<1>1. SysOpen \/ SysClose \/ SysWrite \/ SysPwrite \/ SysRead => status = "running"
  BY Zenon DEF SysOpen, SysClose, SysWrite, SysPwrite, SysRead
<1>2. SysPread \/ SysLseek \/ SysResize \/ SysPoll => status = "running"
  BY Zenon DEF SysPread, SysLseek, SysResize, SysPoll
<1>3. SysUnlink \/ SysRmdir \/ SysRename \/ SysLink => status = "running"
  BY Zenon DEF SysUnlink, SysRmdir, SysRename, SysLink
<1>4. SysSymlink \/ SysMkdir \/ SysReadlink \/ SysStat \/ SysCheck => status = "running"
  BY Zenon DEF SysSymlink, SysMkdir, SysReadlink, SysStat, SysCheck
<1>5. SysSame \/ SysLstat \/ SysChmod \/ SysUtime \/ SysAccess => status = "running"
  BY Zenon DEF SysSame, SysLstat, SysChmod, SysUtime, SysAccess
<1>6. SysNothing \/ SysChdir \/ SysChdirBack \/ SysFchdir => status = "running"
  BY Zenon DEF SysNothing, SysChdir, SysChdirBack, SysFchdir
<1>7. SysGetcwd \/ SysReaddir => status = "running"
  BY Zenon DEF SysGetcwd, SysReaddir
<1>8. QED
  BY <1>1, <1>2, <1>3, <1>4, <1>5, <1>6, <1>7, Zenon DEF Call

BlockIInv == IInv /\ EndedInv /\ BlockInv

\* Every step leaves what is in the way there, or ends the run.
LEMMA BlockStep ==
  ASSUME BlockIInv, [Next]_vars
  PROVE  EndedInv' /\ BlockInv'
<1>1. CASE UNCHANGED vars
  BY <1>1 DEF BlockIInv, EndedInv, BlockInv, InTheWay, Ahead, Exists, Allowed,
              vars, world, disk, where
<1>2. CASE Stop
  BY <1>1, <1>2 DEF Stop
<1>3. ASSUME NEW how \in {"aborted", "killed"}, EndProcess(how)
      PROVE  EndedInv' /\ BlockInv'
  BY <1>3 DEF BlockIInv, EndedInv, BlockInv, EndProcess, world
<1>4. CASE Kill
  BY <1>3, <1>4 DEF Kill
<1>5. CASE Rerun
  <2>1. /\ status' = "running" /\ found' = Blocked /\ dir' = dir /\ node' = node
        /\ UNCHANGED world /\ test' = 1 /\ step' = 1
        /\ fault = "none" /\ ~standalone
    BY <1>5 DEF Rerun, disk, BlockIInv, EndedInv
  <2>2. Blocked => \E n \in Needed : InTheWay(n)
    BY DEF Blocked, Needed, InTheWay
  <2>3. ASSUME NEW n \in Needed
        PROVE  1 < NeedTest(n)
    BY DEF Needed, NeedTest
  <2>4. ASSUME NEW n \in Needed, InTheWay(n)
        PROVE  InTheWay(n)' /\ Ahead(n)'
    BY <2>1, <2>3, <2>4 DEF InTheWay, Ahead, Exists, Allowed, world
  <2>5. QED  BY <2>1, <2>2, <2>4 DEF EndedInv, BlockInv, world
<1>6. CASE Call
  <2>1. CASE EndProcess("aborted")
    BY <1>3, <2>1
  <2>2. CASE GoOn /\ ~found
    BY <2>2 DEF GoOn, EndedInv, BlockInv
  <2>3. CASE GoOn /\ found /\ ~EndProcess("aborted")
    <3>1. /\ fault = "none" /\ ~standalone /\ status = "running"
          /\ CallState /\ PlaceInv
      <4>1. status = "running"
        BY <1>6, CallRuns
      <4>2. QED  BY <2>3, <4>1 DEF BlockIInv, BlockInv, IInv, CallState
    <3>2. PICK n \in Needed : InTheWay(n) /\ Ahead(n)
      BY <2>3, <3>1 DEF BlockIInv, BlockInv
    <3>3. ~AtNeed(n)
      BY <1>6, <2>3, <3>1, <3>2, NeededFails
    <3>4. Ahead(n)' /\ status' = "running"
      BY <2>3, <3>1, <3>2, <3>3, GoesOnToNeed
    <3>5. InTheWay(n)'
      <4>1. CASE n = "testfile.tmp"
        <5>1. test \in {1, 2}
          <6>1. test \in 1..44 /\ step \in 1..Len(Suite[test])
            BY <3>1, HostSuite DEF PlaceInv
          <6>2. test < 3 \/ (test = 3 /\ step <= 1 /\ step # 1)
            <7>1. NeedTest(n) = 3 /\ NeedStep(n) = 1
              BY <4>1 DEF NeedTest, NeedStep
            <7>2. QED  BY <3>2, <3>3, <7>1 DEF Ahead, AtNeed
          <6>3. test \in Nat /\ test # 0
            BY <6>1
          <6>4. QED  BY <6>1, <6>2, <6>3
        <5>2. QED  BY <1>6, <3>1, <3>2, <4>1, <5>1, TmpStays
      <4>2. CASE n # "testfile.tmp"
        <5>1. ~Removes(Now, n)
          BY <3>1, <3>2, <3>3, <4>2, SparedUntilNeeded
        <5>2. n \in Names /\ Exists(n)
          BY <3>2 DEF Needed, Names, InTheWay
        <5>3. QED
          BY <1>6, <3>1, <4>2, <5>1, <5>2, NamesStay DEF InTheWay, Exists
      <4>3. QED  BY <4>1, <4>2
    <3>6. QED
      BY <2>3, <3>1, <3>4, <3>5 DEF GoOn, world, EndedInv, BlockInv
  <2>4. QED  BY <1>6, <2>1, <2>2, <2>3, CallGoesOn
<1>7. QED  BY <1>1, <1>2, <1>4, <1>5, <1>6 DEF Next

\* Whatever blocks a run is in its way, and it has not got past it.
THEOREM BlockInvariant == Spec => []BlockIInv
<1>1. Init => BlockIInv
  BY InitIInv DEF Init, BlockIInv, EndedInv, BlockInv
<1>2. BlockIInv /\ [Next]_vars => BlockIInv'
  BY BlockStep, StepIInv DEF BlockIInv
<1>3. QED  BY <1>1, <1>2, PTL DEF Spec

\* A run that starts on what an earlier one left of mkdir.c:38, link.c:39,
\* poll.c:48 and their like does not pass, and neither does any after it.
THEOREM BlockedRunsFail == Spec => []BlockedNeverPasses
<1>1. BlockIInv => BlockedNeverPasses
  BY DEF BlockIInv, BlockInv, BlockedNeverPasses
<1>2. QED  BY BlockInvariant, <1>1, PTL

-----------------------------------------------------------------------------
(***************************************************************************)
(* On a library without a fault each test gives back what it took: what it *)
(* opens it closes, what it makes it removes, and it goes back to where it *)
(* was.  It is so because a script is tidy: whatever it takes at one call  *)
(* it gives back at a later one.  And each name is removed by some test,   *)
(* so that a run that passes leaves none to the next, not even those of a  *)
(* run before it that was killed.                                          *)
(***************************************************************************)
\* The names of the tests: all but the directory and the user's file.
Own == Names \ {".", "README.md"}

\* What a call makes, opens and closes; one on fd counts as holding it open.
Makes(c, n) ==
  \/ c.call = "open" /\ "O_CREAT" \in c.flags /\ c.name = n
  \/ c.call \in {"link", "linkat", "symlinkat", "renameat"} /\ c.to = n
  \/ c.call \in {"mkdir", "mkdirat"} /\ c.name = n
OnFd == {"write", "writev", "pwrite", "pwritev", "read", "readv", "pread", "preadv",
         "lseek", "posix_fallocate", "ftruncate"}
Holds(c, h) == \/ c.call \in {"open", "opendir"} /\ c.handle = h
               \/ c.call \in OnFd /\ h = "fd"
Closes(c, h) == c.call \in {"close", "closedir"} /\ c.handle = h

\* The calls that go elsewhere and back, and the one that notes where it is.
Returns(c) == \/ c.call = "chdir_saved"
              \/ c.call = "fchdir" /\ c.handle = "initial_directory_fd"
Leaves(c) == c.call \in {"chdir", "fchdir"} /\ ~Returns(c)
Remembers(c) == c.call = "getcwd" /\ c.like = "any"

\* No call is about the directory itself but those that open it to read it.
Homely(c) ==
  /\ c.call \in {"open", "opendir"} =>
       /\ c.name = "." => c.handle # "fd" /\ "O_CREAT" \notin c.flags
       /\ c.handle = "initial_directory_fd" => c.name = "."
  /\ c.call = "opendir" => "O_CREAT" \notin c.flags
  /\ c.call \in {"unlink", "unlinkat", "rmdir", "mkdir", "mkdirat", "chmod",
                 "fchmodat", "fchmod", "lchmod", "utime", "utimes", "utimensat",
                 "futimens"} => c.name # "."
  /\ c.call \in {"link", "linkat", "symlinkat", "renameat"} => c.name # "." /\ c.to \in Own
  /\ c.call = "renameat" => c.name # c.to

\* What is taken is given back later, and where the test is noted before it left.
Tidy(calls) ==
  \A i \in 1..Len(calls) :
    /\ Homely(calls[i])
    /\ \A n \in Own : Makes(calls[i], n) =>
         \E j \in i+1..Len(calls) : Removes(calls[j], n)
    /\ \A h \in Handles : Holds(calls[i], h) =>
         \E j \in i+1..Len(calls) : Closes(calls[j], h)
    /\ Leaves(calls[i]) => \E j \in i+1..Len(calls) : Returns(calls[j])
    /\ Remembers(calls[i]) => \A j \in 1..i : ~Leaves(calls[j])

\* A script with one descriptor, closed at c, and one name, removed at r.
Plainly(calls, f, c, r) ==
  /\ Len(calls) \in Nat /\ c \in 1..Len(calls) /\ r \in 1..Len(calls)
  /\ Closes(calls[c], "fd") /\ Removes(calls[r], f)
  /\ \A i \in 1..Len(calls) :
       /\ Homely(calls[i])
       /\ \A n \in Own : Makes(calls[i], n) => n = f /\ i < r
       /\ \A h \in Handles : Holds(calls[i], h) => h = "fd" /\ i < c
       /\ ~Leaves(calls[i])

\* It is tidy.
LEMMA PlainlyTidy ==
  ASSUME NEW calls, NEW f, NEW c, NEW r, Plainly(calls, f, c, r)
  PROVE  Tidy(calls)
<1> SUFFICES ASSUME NEW i \in 1..Len(calls)
             PROVE  /\ Homely(calls[i])
                    /\ \A n \in Own : Makes(calls[i], n) =>
                         \E j \in i+1..Len(calls) : Removes(calls[j], n)
                    /\ \A h \in Handles : Holds(calls[i], h) =>
                         \E j \in i+1..Len(calls) : Closes(calls[j], h)
                    /\ ~Leaves(calls[i])
                    /\ \A j \in 1..i : ~Leaves(calls[j])
  BY DEF Tidy
<1>1. i < r => r \in i+1..Len(calls)
  BY DEF Plainly
<1>2. i < c => c \in i+1..Len(calls)
  BY DEF Plainly
<1>3. \A j \in 1..i : j \in 1..Len(calls)
  BY DEF Plainly
<1>4. QED  BY <1>1, <1>2, <1>3 DEF Plainly

\* Each test of the suite.
LEMMA ScriptsAreTidy == \A calls \in Scripts : Tidy(calls)
<1> USE DEF Tidy, Homely, Own, Makes, Removes, OnFd, Holds, Closes, Returns,
  Leaves, Remembers, Names, Handles, Open, OpenAs, Create, Opendir,
  Close, CloseAs, Write, Pwrite, Read, Pread, Lseek, Resize, Poll, Unlink, Rmdir,
  Two, Mkdir, Readlink, Lstat, Stat, Check, Times, Access, ChmodTo, ChmodPrivate,
  ChmodBack, Nothing, Getcwd, TMP
<1>1. Tidy(test_open_close)
  <2>1. Plainly(test_open_close, "testfile_open_close.tmp", 4, 5)
    BY DEF Plainly, test_open_close
  <2>2. QED  BY <2>1, PlainlyTidy
<1>2. Tidy(test_create_unlink)
  <2>1. Plainly(test_create_unlink, "testfile.txt", 2, 3)
    BY DEF Plainly, test_create_unlink
  <2>2. QED  BY <2>1, PlainlyTidy
<1>3. Tidy(test_write_read)
  <2>1. Plainly(test_write_read, "testfile.tmp", 6, 7)
    BY DEF Plainly, test_write_read
  <2>2. QED  BY <2>1, PlainlyTidy
<1>4. Tidy(test_poll)
  <2>1. Plainly(test_poll, "poll_testfile.tmp", 11, 12)
    BY DEF Plainly, test_poll, Multiplexing
  <2>2. QED  BY <2>1, PlainlyTidy
<1>5. Tidy(test_select)
  <2>1. Plainly(test_select, "select_testfile.tmp", 11, 12)
    BY DEF Plainly, test_select, Multiplexing
  <2>2. QED  BY <2>1, PlainlyTidy
<1>6. Tidy(test_posix_fadvise)
  <2>1. Plainly(test_posix_fadvise, "testfile.tmp", 4, 5)
    BY DEF Plainly, test_posix_fadvise
  <2>2. QED  BY <2>1, PlainlyTidy
<1>7. Tidy(test_lseek)
  <2>1. Plainly(test_lseek, "testfile.tmp", 7, 8)
    BY DEF Plainly, test_lseek
  <2>2. QED  BY <2>1, PlainlyTidy
<1>8. Tidy(test_posix_fallocate)
  <2>1. Plainly(test_posix_fallocate, "testfile.tmp", 4, 5)
    BY DEF Plainly, test_posix_fallocate
  <2>2. QED  BY <2>1, PlainlyTidy
<1>9. Tidy(test_readv)
  <2>1. Plainly(test_readv, "testfile.tmp", 6, 7)
    BY DEF Plainly, test_readv
  <2>2. QED  BY <2>1, PlainlyTidy
<1>10. Tidy(test_preadv)
  <2>1. Plainly(test_preadv, "testfile.tmp", 7, 8)
    BY DEF Plainly, test_preadv
  <2>2. QED  BY <2>1, PlainlyTidy
<1>11. Tidy(test_writev)
  <2>1. Plainly(test_writev, "testfile.tmp", 6, 7)
    BY DEF Plainly, test_writev
  <2>2. QED  BY <2>1, PlainlyTidy
<1>12. Tidy(test_pwritev)
  <2>1. Plainly(test_pwritev, "testfile.tmp", 7, 8)
    BY DEF Plainly, test_pwritev
  <2>2. QED  BY <2>1, PlainlyTidy
<1>13. Tidy(test_pread)
  <2>1. Plainly(test_pread, "testfile.tmp", 6, 7)
    BY DEF Plainly, test_pread
  <2>2. QED  BY <2>1, PlainlyTidy
<1>14. Tidy(test_pwrite)
  <2>1. Plainly(test_pwrite, "testfile.tmp", 8, 9)
    BY DEF Plainly, test_pwrite
  <2>2. QED  BY <2>1, PlainlyTidy
<1>15. Tidy(test_fdatasync)
  <2>1. Plainly(test_fdatasync, "testfile.tmp", 7, 8)
    BY DEF Plainly, test_fdatasync
  <2>2. QED  BY <2>1, PlainlyTidy
<1>16. Tidy(test_stat)
  <2>1. Plainly(test_stat, "testfile_stat.tmp", 3, 5)
    BY DEF Plainly, test_stat
  <2>2. QED  BY <2>1, PlainlyTidy
<1>17. Tidy(test_ftruncate)
  <2>1. Plainly(test_ftruncate, "testfile.tmp", 4, 5)
    BY DEF Plainly, test_ftruncate
  <2>2. QED  BY <2>1, PlainlyTidy
<1>18. Tidy(test_linkat)
  BY DEF test_linkat, Linking
<1>19. Tidy(test_link)
  BY DEF test_link, Linking
<1>20. Tidy(test_symlinkat)
  BY DEF test_symlinkat
<1>21. Tidy(test_readlinkat)
  BY DEF test_readlinkat, ReadingLink
<1>22. Tidy(test_readlink)
  BY DEF test_readlink, ReadingLink
<1>23. Tidy(test_renameat)
  BY DEF test_renameat
<1>24. Tidy(test_unlinkat)
  <2>1. Plainly(test_unlinkat, "test.txt", 2, 3)
    BY DEF Plainly, test_unlinkat
  <2>2. QED  BY <2>1, PlainlyTidy
<1>25. Tidy(test_mkdirat)
  BY DEF test_mkdirat, MakingDirectory
<1>26. Tidy(test_mkdir)
  BY DEF test_mkdir, MakingDirectory
<1>27. Tidy(test_dirent)
  BY DEF test_dirent
<1>28. Tidy(test_getcwd)
  BY DEF test_getcwd
<1>29. Tidy(test_chdir)
  BY DEF test_chdir
<1>30. Tidy(test_fchdir)
  BY DEF test_fchdir
<1>31. Tidy(test_utimensat)
  <2>1. Plainly(test_utimensat, "testfile.tmp", 5, 6)
    BY DEF Plainly, test_utimensat, TimesOpen
  <2>2. QED  BY <2>1, PlainlyTidy
<1>32. Tidy(test_utimes)
  <2>1. Plainly(test_utimes, "testfile.tmp", 2, 6)
    BY DEF Plainly, test_utimes, TimesClosed
  <2>2. QED  BY <2>1, PlainlyTidy
<1>33. Tidy(test_utime)
  <2>1. Plainly(test_utime, "testfile.tmp", 2, 6)
    BY DEF Plainly, test_utime, TimesClosed
  <2>2. QED  BY <2>1, PlainlyTidy
<1>34. Tidy(test_chmod)
  <2>1. Plainly(test_chmod, "testfile.tmp", 2, 8)
    BY DEF Plainly, test_chmod, Modes
  <2>2. QED  BY <2>1, PlainlyTidy
<1>35. Tidy(test_fchmodat)
  <2>1. Plainly(test_fchmodat, "testfile.tmp", 2, 8)
    BY DEF Plainly, test_fchmodat, Modes
  <2>2. QED  BY <2>1, PlainlyTidy
<1>36. Tidy(test_fchmod)
  <2>1. Plainly(test_fchmod, "testfile.tmp", 7, 8)
    BY DEF Plainly, test_fchmod, Modes
  <2>2. QED  BY <2>1, PlainlyTidy
<1>37. Tidy(test_lchmod)
  <2> DEFINE t == test_lchmod
  <2>1. /\ Len(t) = 10 /\ Closes(t[2], "fd")
        /\ Removes(t[9], "testfile.link") /\ Removes(t[10], "testfile.tmp")
    BY DEF test_lchmod, Modes
  <2>2. \A i \in 1..10 :
          /\ Homely(t[i])
          /\ \A n \in Own : Makes(t[i], n) => \/ n = "testfile.tmp" /\ i = 1
                                              \/ n = "testfile.link" /\ i = 4
          /\ \A h \in Handles : Holds(t[i], h) => h = "fd" /\ i = 1
          /\ ~Leaves(t[i]) /\ ~Remembers(t[i])
    BY DEF test_lchmod, Modes
  <2> HIDE DEF t, Homely, Makes, Holds, Leaves, Remembers, Removes, Closes
  <2>3. \A i \in 1..10 : /\ i = 1 => 2 \in i+1..10 /\ 10 \in i+1..10
                         /\ i = 4 => 9 \in i+1..10
    OBVIOUS
  <2>4. Tidy(t)
    BY <2>1, <2>2, <2>3
  <2>5. QED  BY <2>4 DEF t
<1>38. Tidy(test_fchownat)
  <2>1. Plainly(test_fchownat, "testfile.tmp", 2, 4)
    BY DEF Plainly, test_fchownat, Owning
  <2>2. QED  BY <2>1, PlainlyTidy
<1>39. Tidy(test_faccessat)
  <2>1. Plainly(test_faccessat, "testfile.tmp", 2, 11)
    BY DEF Plainly, test_faccessat, Readable, Writable
  <2>2. QED  BY <2>1, PlainlyTidy
<1>40. Tidy(test_access)
  <2>1. Plainly(test_access, "testfile.tmp", 2, 8)
    BY DEF Plainly, test_access, Writable
  <2>2. QED  BY <2>1, PlainlyTidy
<1>41. Tidy(test_chown)
  <2>1. Plainly(test_chown, "testfile.tmp", 2, 4)
    BY DEF Plainly, test_chown, Owning
  <2>2. QED  BY <2>1, PlainlyTidy
<1>42. Tidy(test_fchown)
  <2>1. Plainly(test_fchown, "testfile.tmp", 3, 4)
    BY DEF Plainly, test_fchown
  <2>2. QED  BY <2>1, PlainlyTidy
<1>43. Tidy(test_lchown)
  <2>1. Plainly(test_lchown, "testfile.tmp", 2, 4)
    BY DEF Plainly, test_lchown, Owning
  <2>2. QED  BY <2>1, PlainlyTidy
<1>44. Tidy(test_futimens)
  <2>1. Plainly(test_futimens, "testfile.tmp", 5, 6)
    BY DEF Plainly, test_futimens, TimesOpen
  <2>2. QED  BY <2>1, PlainlyTidy
<1> HIDE DEF Tidy
<1>45. QED  BY <1>1, <1>2, <1>3, <1>4, <1>5, <1>6, <1>7, <1>8, <1>9, <1>10,
         <1>11, <1>12, <1>13, <1>14, <1>15, <1>16, <1>17, <1>18, <1>19,
         <1>20, <1>21, <1>22, <1>23, <1>24, <1>25, <1>26, <1>27, <1>28,
         <1>29, <1>30, <1>31, <1>32, <1>33, <1>34, <1>35, <1>36, <1>37,
         <1>38, <1>39, <1>40, <1>41, <1>42, <1>43, <1>44 DEF Scripts

\* The suite of either build is tidy.
LEMMA SuiteIsTidy == \A t \in 1..Len(Suite) : Tidy(Suite[t])
BY SuiteOfScripts, ScriptsAreTidy

\* Each name of the tests is removed by one of them, where all are run.
LEMMA AllRemoved ==
  ASSUME ~standalone, NEW n \in Own
  PROVE  \E t \in 1..Len(Suite) : \E j \in 1..Len(Suite[t]) : Removes(Suite[t][j], n)
<1> USE DEF Removes, Unlink, Rmdir, TMP
<1>1. CASE n = "testfile_open_close.tmp"
  <2>1. 5 \in 1..Len(test_open_close) /\ Removes(test_open_close[5], n)
    BY <1>1 DEF test_open_close
  <2>2. Len(Suite) = 44 /\ Suite[1] = test_open_close
    BY HostSuite
  <2> HIDE DEF Removes
  <2>3. /\ 1 \in 1..Len(Suite) /\ 5 \in 1..Len(Suite[1])
        /\ Removes(Suite[1][5], n)
    BY <2>1, <2>2
  <2>4. QED  BY <2>3, Zenon
<1>2. CASE n = "testfile.txt"
  <2>1. 3 \in 1..Len(test_create_unlink) /\ Removes(test_create_unlink[3], n)
    BY <1>2 DEF test_create_unlink
  <2>2. Len(Suite) = 44 /\ Suite[2] = test_create_unlink
    BY HostSuite
  <2> HIDE DEF Removes
  <2>3. /\ 2 \in 1..Len(Suite) /\ 3 \in 1..Len(Suite[2])
        /\ Removes(Suite[2][3], n)
    BY <2>1, <2>2
  <2>4. QED  BY <2>3, Zenon
<1>3. CASE n = "testfile.tmp"
  <2>1. 7 \in 1..Len(test_write_read) /\ Removes(test_write_read[7], n)
    BY <1>3 DEF test_write_read
  <2>2. Len(Suite) = 44 /\ Suite[3] = test_write_read
    BY HostSuite
  <2> HIDE DEF Removes
  <2>3. /\ 3 \in 1..Len(Suite) /\ 7 \in 1..Len(Suite[3])
        /\ Removes(Suite[3][7], n)
    BY <2>1, <2>2
  <2>4. QED  BY <2>3, Zenon
<1>4. CASE n = "poll_testfile.tmp"
  <2>1. 12 \in 1..Len(test_poll) /\ Removes(test_poll[12], n)
    BY <1>4 DEF test_poll, Multiplexing
  <2>2. Len(Suite) = 44 /\ Suite[4] = test_poll
    BY HostSuite
  <2> HIDE DEF Removes
  <2>3. /\ 4 \in 1..Len(Suite) /\ 12 \in 1..Len(Suite[4])
        /\ Removes(Suite[4][12], n)
    BY <2>1, <2>2
  <2>4. QED  BY <2>3, Zenon
<1>5. CASE n = "select_testfile.tmp"
  <2>1. 12 \in 1..Len(test_select) /\ Removes(test_select[12], n)
    BY <1>5 DEF test_select, Multiplexing
  <2>2. Len(Suite) = 44 /\ Suite[5] = test_select
    BY HostSuite
  <2> HIDE DEF Removes
  <2>3. /\ 5 \in 1..Len(Suite) /\ 12 \in 1..Len(Suite[5])
        /\ Removes(Suite[5][12], n)
    BY <2>1, <2>2
  <2>4. QED  BY <2>3, Zenon
<1>6. CASE n = "testfile_stat.tmp"
  <2>1. 5 \in 1..Len(test_stat) /\ Removes(test_stat[5], n)
    BY <1>6 DEF test_stat
  <2>2. Len(Suite) = 44 /\ Suite[16] = test_stat
    BY HostSuite
  <2> HIDE DEF Removes
  <2>3. /\ 16 \in 1..Len(Suite) /\ 5 \in 1..Len(Suite[16])
        /\ Removes(Suite[16][5], n)
    BY <2>1, <2>2
  <2>4. QED  BY <2>3, Zenon
<1>7. CASE n = "README.link"
  <2>1. 3 \in 1..Len(test_linkat) /\ Removes(test_linkat[3], n)
    BY <1>7 DEF test_linkat, Linking
  <2>2. Len(Suite) = 44 /\ Suite[18] = test_linkat
    BY HostSuite
  <2> HIDE DEF Removes
  <2>3. /\ 18 \in 1..Len(Suite) /\ 3 \in 1..Len(Suite[18])
        /\ Removes(Suite[18][3], n)
    BY <2>1, <2>2
  <2>4. QED  BY <2>3, Zenon
<1>8. CASE n = "renamed.txt"
  <2>1. 4 \in 1..Len(test_renameat) /\ Removes(test_renameat[4], n)
    BY <1>8 DEF test_renameat
  <2>2. Len(Suite) = 44 /\ Suite[23] = test_renameat
    BY HostSuite
  <2> HIDE DEF Removes
  <2>3. /\ 23 \in 1..Len(Suite) /\ 4 \in 1..Len(Suite[23])
        /\ Removes(Suite[23][4], n)
    BY <2>1, <2>2
  <2>4. QED  BY <2>3, Zenon
<1>9. CASE n = "test.txt"
  <2>1. 3 \in 1..Len(test_unlinkat) /\ Removes(test_unlinkat[3], n)
    BY <1>9 DEF test_unlinkat
  <2>2. Len(Suite) = 44 /\ Suite[24] = test_unlinkat
    BY HostSuite
  <2> HIDE DEF Removes
  <2>3. /\ 24 \in 1..Len(Suite) /\ 3 \in 1..Len(Suite[24])
        /\ Removes(Suite[24][3], n)
    BY <2>1, <2>2
  <2>4. QED  BY <2>3, Zenon
<1>10. CASE n = "testdir"
  <2>1. 3 \in 1..Len(test_mkdirat) /\ Removes(test_mkdirat[3], n)
    BY <1>10 DEF test_mkdirat, MakingDirectory
  <2>2. Len(Suite) = 44 /\ Suite[25] = test_mkdirat
    BY HostSuite
  <2> HIDE DEF Removes
  <2>3. /\ 25 \in 1..Len(Suite) /\ 3 \in 1..Len(Suite[25])
        /\ Removes(Suite[25][3], n)
    BY <2>1, <2>2
  <2>4. QED  BY <2>3, Zenon
<1>11. CASE n = "testdir_chdir"
  <2>1. 7 \in 1..Len(test_chdir) /\ Removes(test_chdir[7], n)
    BY <1>11 DEF test_chdir
  <2>2. Len(Suite) = 44 /\ Suite[29] = test_chdir
    BY HostSuite
  <2> HIDE DEF Removes
  <2>3. /\ 29 \in 1..Len(Suite) /\ 7 \in 1..Len(Suite[29])
        /\ Removes(Suite[29][7], n)
    BY <2>1, <2>2
  <2>4. QED  BY <2>3, Zenon
<1>12. CASE n = "testdir_fchdir"
  <2>1. 11 \in 1..Len(test_fchdir) /\ Removes(test_fchdir[11], n)
    BY <1>12 DEF test_fchdir
  <2>2. Len(Suite) = 44 /\ Suite[30] = test_fchdir
    BY HostSuite
  <2> HIDE DEF Removes
  <2>3. /\ 30 \in 1..Len(Suite) /\ 11 \in 1..Len(Suite[30])
        /\ Removes(Suite[30][11], n)
    BY <2>1, <2>2
  <2>4. QED  BY <2>3, Zenon
<1>13. CASE n = "testfile.link"
  <2>1. 9 \in 1..Len(test_lchmod) /\ Removes(test_lchmod[9], n)
    BY <1>13 DEF test_lchmod, Modes
  <2>2. Len(Suite) = 44 /\ Suite[37] = test_lchmod
    BY HostSuite
  <2> HIDE DEF Removes
  <2>3. /\ 37 \in 1..Len(Suite) /\ 9 \in 1..Len(Suite[37])
        /\ Removes(Suite[37][9], n)
    BY <2>1, <2>2
  <2>4. QED  BY <2>3, Zenon
<1>14. QED
  BY <1>1, <1>2, <1>3, <1>4, <1>5, <1>6, <1>7, <1>8, <1>9, <1>10, <1>11, <1>12,
     <1>13 DEF Own, Names

-----------------------------------------------------------------------------
\* No name but ".", and no descriptor for contents, refers to the directory.
ShapeInv == /\ open = [h \in Handles |-> open[h]]
            /\ node = [k \in Nodes |-> node[k]]
HomeInv ==
  /\ dir["."] = Root /\ node[Root] = New("dir", <<>>, RWX)
  /\ \A n \in Names \ {"."} : dir[n] # Root
  /\ open["fd"].inode # Root
  /\ open["initial_directory_fd"] # Closed => open["initial_directory_fd"].inode = Root

\* An inode that nothing refers to is free.
UsedInv ==
  \A k \in Nodes : (\A n \in Names : dir[n] # k) /\ (\A h \in Handles : open[h].inode # k)
                     => node[k] = Free

\* A call of this run before the next one has removed the name.
Removed(n) == \E t \in 1..test : \E j \in 1..Len(Suite[t]) :
                (t < test \/ j < step) /\ Removes(Suite[t][j], n)

\* What the test has made it has still to remove, to close and to leave.
NamesInv ==
  \A n \in Own : Exists(n) /\ (run = 1 \/ Removed(n)) =>
    step # 1 /\ \E j \in step..Len(Suite[test]) : Removes(Suite[test][j], n)
HandlesInv ==
  \A h \in Handles : open[h] # Closed =>
    step # 1 /\ \E j \in step..Len(Suite[test]) : Closes(Suite[test][j], h)
CwdInv ==
  cwd # Root =>
    /\ \E j \in 1..step - 1 : Leaves(Suite[test][j])
    /\ \E j \in step..Len(Suite[test]) : Returns(Suite[test][j])

\* Nothing is open, and the working directory is that of the start.
Settled == cwd = Root /\ \A h \in Handles : open[h] = Closed

\* The invariant, where fault is "none".
TidyInv ==
  /\ run \in Nat \ {0} /\ (standalone => run = 1)
  /\ ShapeInv /\ HomeInv /\ UsedInv /\ node[Readme] = New("file", Text, RW)
  /\ saved_cwd = Root
  /\ status = "running" => NamesInv /\ HandlesInv /\ CwdInv
  /\ status # "running" => Settled
  /\ status = "ok" => \A n \in Own : ~Exists(n)

\* The call is made on a library without a fault.
Faultless ==
  /\ CallState /\ fault = "none"
  /\ ShapeInv /\ HomeInv /\ UsedInv /\ saved_cwd = Root

\* What is there after a call was there, or the call makes it.
DiskEffect ==
  /\ ShapeInv' /\ HomeInv' /\ UsedInv'
  /\ \A n \in Own : dir'[n] # None =>
       Makes(Now, n) \/ (dir[n] # None /\ ~Removes(Now, n))
  /\ \A h \in Handles : open'[h] # Closed =>
       Holds(Now, h) \/ (open[h] # Closed /\ ~Closes(Now, h))
CwdEffect ==
  /\ saved_cwd' = Root \/ (Remembers(Now) /\ saved_cwd' = cwd)
  /\ cwd' # Root => Leaves(Now) \/ (cwd # Root /\ ~Returns(Now))
Effect == DiskEffect /\ CwdEffect

\* What the call of a script is.
LEMMA NowIsHomely == ASSUME CallState  PROVE Homely(Now) /\ Harmless(Now)
BY NowIsHarmless, SuiteIsTidy DEF CallState, PlaceInv, Now, Tidy

\* A call that does not change the directory.
LEMMA StaysPut ==
  ASSUME Faultless, UNCHANGED <<cwd, saved_cwd>>,
         Now.call \notin {"chdir_saved", "fchdir"}
  PROVE  CwdEffect
BY DEF Faultless, CwdEffect, Returns

\* The calls that close or remove something.
Ending == {"unlink", "unlinkat", "rmdir", "renameat", "close", "closedir"}

\* A call that changes nothing on the disk.
LEMMA SameDisk ==
  ASSUME Faultless, UNCHANGED <<disk, open>>, Now.call \notin Ending
  PROVE  DiskEffect
BY DEF Faultless, DiskEffect, ShapeInv, HomeInv, UsedInv, disk, Ending, Removes,
       Closes

\* What nothing refers to any more is free, the rest as it should be.
LEMMA SettleTidy ==
  ASSUME NEW contents, Settle(contents), HomeInv, contents[Root] = node[Root],
         dir'["."] = Root, \A n \in Names \ {"."} : dir'[n] # Root,
         open' = [h \in Handles |-> open'[h]], open'["fd"].inode # Root,
         open'["initial_directory_fd"] # Closed =>
           open'["initial_directory_fd"].inode = Root
  PROVE  ShapeInv' /\ HomeInv' /\ UsedInv'
<1> DEFINE used == {dir'[n] : n \in Names} \cup {open'[h].inode : h \in Handles}
<1>1. node' = [k \in Nodes |-> IF k \in used THEN contents[k] ELSE Free]
  BY DEF Settle
<1>2. ShapeInv'
  BY <1>1 DEF ShapeInv
<1>3. "." \in Names /\ Root \in used /\ Root \in Nodes
  BY Constants DEF Names
<1>4. node'[Root] = node[Root]
  BY <1>1, <1>3
<1>5. HomeInv'
  BY <1>4 DEF HomeInv
<1>6. UsedInv'
  <2>1. ASSUME NEW k \in Nodes, \A n \in Names : dir'[n] # k,
               \A h \in Handles : open'[h].inode # k
        PROVE  k \notin used
    BY <2>1
  <2> HIDE DEF used
  <2>2. QED  BY <1>1, <2>1 DEF UsedInv
<1>7. QED  BY <1>2, <1>5, <1>6

\* A new name of the tests, or an old one of them again.
LEMMA EnterTidy ==
  ASSUME Faultless, Now.call \notin Ending \cup {"chdir_saved", "fchdir"},
         NEW name \in Own, NEW k, k # Root, NEW contents, Makes(Now, name),
         Enter(name, k, contents)
  PROVE  Effect
<1> DEFINE after == [node EXCEPT ![k] = contents]
<1>1. dir' = [dir EXCEPT ![name] = k] /\ UNCHANGED locals /\ Settle(after)
  BY DEF Enter
<1>2. HomeInv /\ ShapeInv /\ DiskInv /\ TypesInv
  BY DEF Faultless, CallState, DiskInv
<1>3. \A n \in Names : dir'[n] = IF n = name THEN k ELSE dir[n]
  BY <1>1, <1>2 DEF TypesInv
<1>4. name \in Names /\ name # "." /\ "." \in Names
  BY DEF Own, Names
<1>5. after[Root] = node[Root]
  BY <1>2, Constants DEF TypesInv
<1> HIDE DEF after
<1>6. ShapeInv' /\ HomeInv' /\ UsedInv'
  <2>1. dir'["."] = Root /\ \A n \in Names \ {"."} : dir'[n] # Root
    BY <1>2, <1>3, <1>4 DEF HomeInv
  <2>2. open' = open
    BY <1>1 DEF locals
  <2>3. QED  BY <1>1, <1>2, <1>5, <2>1, <2>2, SettleTidy DEF HomeInv, ShapeInv
<1>7. DiskEffect
  <2>1. \A n \in Own : n # name => dir'[n] = dir[n]
    BY <1>3 DEF Own
  <2>2. open' = open
    BY <1>1 DEF locals
  <2>3. QED  BY <1>6, <2>1, <2>2 DEF DiskEffect, Ending, Removes, Closes
<1>8. CwdEffect
  BY <1>1, StaysPut DEF locals
<1>9. QED  BY <1>7, <1>8 DEF Effect

\* A call that changes the names to fewer, and forgets what they were of.
LEMMA FewerTidy ==
  ASSUME Faultless, Now.call \notin {"close", "closedir", "chdir_saved", "fchdir"},
         dir'["."] = Root, \A n \in Names \ {"."} : dir'[n] # Root,
         \A n \in Own : dir'[n] # None =>
           Makes(Now, n) \/ (dir[n] # None /\ ~Removes(Now, n)),
         UNCHANGED locals, Settle(node)
  PROVE  Effect
<1>1. open' = open /\ cwd' = cwd /\ saved_cwd' = saved_cwd
  BY DEF locals
<1>2. ShapeInv' /\ HomeInv' /\ UsedInv'
  BY <1>1, SettleTidy DEF Faultless, HomeInv, ShapeInv
<1>3. DiskEffect
  BY <1>1, <1>2 DEF DiskEffect, Closes
<1>4. QED  BY <1>1, <1>3, StaysPut DEF Effect

\* open() and opendir(): a name that is there, or a new one with O_CREAT.
LEMMA OpenTidy ==
  ASSUME Faultless, SysOpen
  PROVE  EndProcess("aborted") \/ Effect
<1> DEFINE there == Exists(Now.name)
           k == IF there THEN dir[Now.name] ELSE NewInode
           mode == IF fault = "creat_mode" THEN {"S_IRUSR", "S_IWUSR", "S_IRGRP"}
                   ELSE Now.mode
           after == [node EXCEPT ![k] =
                       IF ~there THEN New("file", <<>>, mode)
                       ELSE IF fault = "creat_truncates" /\ "O_CREAT" \in Now.flags
                       THEN [@ EXCEPT !.data = <<>>] ELSE @]
<1>1. SUFFICES ASSUME ~there => "O_CREAT" \in Now.flags,
                      dir' = [dir EXCEPT ![Now.name] = k],
                      open' = [open EXCEPT ![Now.handle] = [inode |-> k, pos |-> 0]],
                      Settle(after), UNCHANGED <<cwd, saved, saved_cwd>>
               PROVE  Effect
  BY Zenon DEF SysOpen, Assert
<1>2. /\ Now.call \in {"open", "opendir"}
      /\ Now.handle \in Handles /\ Now.name \in Names
      /\ Now.name = "." => Now.handle # "fd" /\ "O_CREAT" \notin Now.flags
      /\ Now.handle = "initial_directory_fd" => Now.name = "."
      /\ Now.call = "opendir" => "O_CREAT" \notin Now.flags
  BY NowIsHomely DEF Faultless, SysOpen, At, Homely, Harmless
<1>3. HomeInv /\ ShapeInv /\ DiskInv /\ TypesInv /\ fault = "none"
  BY DEF Faultless, CallState, DiskInv
<1>4. k = Root <=> Now.name = "."
  <2>1. CASE there
    BY <1>2, <1>3, <2>1 DEF HomeInv
  <2>2. CASE ~there
    <3>1. Now.name # "."
      BY <1>1, <1>2, <2>2
    <3>2. "." \in Names /\ dir["."] = Root
      BY <1>3 DEF Names, HomeInv
    <3>3. NewInode # Root
      BY <3>2, FreeInode
    <3>4. QED  BY <2>2, <3>1, <3>3
  <2>3. QED  BY <2>1, <2>2
<1>5. Now.name = "." => there
  BY <1>1, <1>2
<1>6. after[Root] = node[Root]
  BY <1>3, <1>4, <1>5, Constants DEF TypesInv
<1>7. \A n \in Names : dir'[n] = IF n = Now.name THEN k ELSE dir[n]
  BY <1>1, <1>3 DEF TypesInv
<1>8. \A h \in Handles : open'[h] = IF h = Now.handle THEN [inode |-> k, pos |-> 0]
                                    ELSE open[h]
  BY <1>1, <1>3 DEF TypesInv
<1>9. open' = [h \in Handles |-> open'[h]]
  BY <1>1, <1>3 DEF ShapeInv
<1>10. there => k = dir[Now.name] /\ dir[Now.name] # None
  BY DEF Exists
<1> HIDE DEF after, k
<1>11. ShapeInv' /\ HomeInv' /\ UsedInv'
  <2>1. "." \in Names /\ "fd" \in Handles /\ "initial_directory_fd" \in Handles
    BY DEF Names, Handles
  <2>2. dir'["."] = Root /\ \A n \in Names \ {"."} : dir'[n] # Root
    BY <1>3, <1>4, <1>7, <2>1 DEF HomeInv
  <2>3. /\ open'["fd"].inode # Root
        /\ open'["initial_directory_fd"] # Closed =>
             open'["initial_directory_fd"].inode = Root
    BY <1>2, <1>3, <1>4, <1>8, <2>1 DEF HomeInv
  <2>4. QED  BY <1>1, <1>3, <1>6, <1>9, <2>2, <2>3, SettleTidy
<1>12. \A n \in Own : dir'[n] # None =>
         Makes(Now, n) \/ (dir[n] # None /\ ~Removes(Now, n))
  <2>1. ASSUME NEW n \in Own, dir'[n] # None, dir[n] = None
        PROVE  Makes(Now, n)
    <3>1. n = Now.name
      BY <1>7, <2>1 DEF Own
    <3>2. ~there
      BY <2>1, <3>1 DEF Exists
    <3>3. QED  BY <1>1, <1>2, <3>1, <3>2 DEF Makes
  <2>2. QED  BY <1>2, <2>1 DEF Removes
<1>13. \A h \in Handles : open'[h] # Closed =>
         Holds(Now, h) \/ (open[h] # Closed /\ ~Closes(Now, h))
  BY <1>2, <1>8 DEF Holds, Closes
<1>14. CwdEffect
  BY <1>1, <1>2, StaysPut
<1>15. QED  BY <1>11, <1>12, <1>13, <1>14 DEF Effect, DiskEffect

\* close() and closedir(): the descriptor is closed.
LEMMA CloseTidy ==
  ASSUME Faultless, SysClose
  PROVE  EndProcess("aborted") \/ Effect
<1>1. SUFFICES ASSUME open' = [open EXCEPT ![Now.handle] = Closed], Settle(node),
                      UNCHANGED <<dir, cwd, saved, saved_cwd>>
               PROVE  Effect
  BY Zenon DEF SysClose, Assert
<1>2. Now.call \in {"close", "closedir"}
  BY DEF SysClose, At
<1>3. HomeInv /\ ShapeInv /\ DiskInv /\ TypesInv
  BY DEF Faultless, CallState, DiskInv
<1>4. \A h \in Handles : open'[h] = IF h = Now.handle THEN Closed ELSE open[h]
  BY <1>1, <1>3 DEF TypesInv
<1>5. open' = [h \in Handles |-> open'[h]]
  BY <1>1, <1>3 DEF ShapeInv
<1>6. ShapeInv' /\ HomeInv' /\ UsedInv'
  <2>1. Closed.inode # Root
    BY Constants DEF Closed
  <2>2. "fd" \in Handles /\ "initial_directory_fd" \in Handles
    BY DEF Handles
  <2>3. QED  BY <1>1, <1>3, <1>4, <1>5, <2>1, <2>2, SettleTidy DEF HomeInv
<1>7. DiskEffect
  BY <1>1, <1>2, <1>4, <1>6 DEF DiskEffect, Closes, Removes
<1>8. QED  BY <1>1, <1>2, <1>7, StaysPut DEF Effect

\* The calls on fd: its file has new contents, and it a new position.
LEMMA FdTidy ==
  ASSUME Faultless, Now.call \in OnFd, NEW data, SetFile(data),
         UNCHANGED open \/ \E p : SetPos(p)
  PROVE  Effect
<1>1. /\ dir' = dir /\ node' = [node EXCEPT ![open["fd"].inode].data = data]
      /\ UNCHANGED <<cwd, saved_cwd>>
  BY DEF SetFile
<1>2. HomeInv /\ ShapeInv /\ UsedInv /\ DiskInv /\ TypesInv
  BY DEF Faultless, CallState, DiskInv
<1>3. \A k \in Nodes : k # open["fd"].inode => node'[k] = node[k]
  BY <1>1, <1>2 DEF TypesInv
<1>4. node' = [k \in Nodes |-> node'[k]]
  BY <1>1, <1>2 DEF ShapeInv
<1>5. /\ open' = [h \in Handles |-> open'[h]]
      /\ \A h \in Handles : open'[h].inode = open[h].inode
      /\ \A h \in Handles \ {"fd"} : open'[h] = open[h]
  <2>1. CASE UNCHANGED open
    BY <2>1, <1>2 DEF ShapeInv
  <2>2. CASE \E p : SetPos(p)
    <3>1. PICK p : open' = [open EXCEPT !["fd"].pos = p]
      BY <2>2 DEF SetPos
    <3>2. QED  BY <3>1, <1>2 DEF TypesInv, ShapeInv
  <2>3. QED  BY <2>1, <2>2
<1>6. ShapeInv' /\ HomeInv'
  BY <1>1, <1>2, <1>3, <1>4, <1>5, Constants DEF ShapeInv, HomeInv, Handles
<1>7. UsedInv'
  <2>1. "fd" \in Handles
    BY DEF Handles
  <2>2. QED  BY <1>1, <1>2, <1>3, <1>5, <2>1 DEF UsedInv
<1>8. DiskEffect
  BY <1>1, <1>5, <1>6, <1>7 DEF DiskEffect, OnFd, Removes, Closes, Holds
<1>9. QED  BY <1>1, <1>8, StaysPut DEF Effect, OnFd

\* unlink() and rmdir(): the name goes.
LEMMA UnlinkTidy ==
  ASSUME Faultless, SysUnlink \/ SysRmdir
  PROVE  EndProcess("aborted") \/ Effect
<1>1. SUFFICES ASSUME \/ dir' = [n \in Names |-> IF n \in {Now.name} THEN None ELSE dir[n]]
                      \/ dir' = [dir EXCEPT ![Now.name] = None],
                      UNCHANGED locals, Settle(node)
               PROVE  Effect
  <2>1. CASE SysUnlink
    BY <2>1 DEF SysUnlink, Assert, Faultless
  <2>2. CASE SysRmdir
    BY <2>2 DEF SysRmdir, Assert, Faultless
  <2>3. QED  BY <2>1, <2>2
<1>2. Now.call \in {"unlink", "unlinkat", "rmdir"} /\ Now.name # "."
  BY NowIsHomely DEF Faultless, SysUnlink, SysRmdir, At, Homely
<1>3. HomeInv /\ TypesInv
  BY DEF Faultless, CallState, DiskInv
<1>4. \A n \in Names : dir'[n] = IF n = Now.name THEN None ELSE dir[n]
  BY <1>1, <1>3 DEF TypesInv
<1>5. "." \in Names /\ None # Root
  BY Constants DEF Names
<1>6. dir'["."] = Root /\ \A n \in Names \ {"."} : dir'[n] # Root
  BY <1>2, <1>3, <1>4, <1>5 DEF HomeInv
<1>7. \A n \in Own : dir'[n] # None =>
        Makes(Now, n) \/ (dir[n] # None /\ ~Removes(Now, n))
  BY <1>4 DEF Removes, Own
<1>8. QED  BY <1>1, <1>2, <1>6, <1>7, FewerTidy

\* renameat(): the new name is the old one's.
LEMMA RenameTidy ==
  ASSUME Faultless, SysRename
  PROVE  EndProcess("aborted") \/ Effect
<1>1. SUFFICES ASSUME dir' = [dir EXCEPT ![Now.to] = dir[Now.name], ![Now.name] = None],
                      UNCHANGED locals, Settle(node)
               PROVE  Effect
  BY DEF SysRename, Assert, Faultless
<1>2. /\ Now.call = "renameat" /\ Now.name # "." /\ Now.to \in Own /\ Now.name # Now.to
      /\ Now.name \in Names
  BY NowIsHomely DEF Faultless, SysRename, At, Homely, Harmless
<1>3. HomeInv /\ TypesInv
  BY DEF Faultless, CallState, DiskInv
<1>4. \A n \in Names : dir'[n] = IF n = Now.name THEN None
                                 ELSE IF n = Now.to THEN dir[Now.name] ELSE dir[n]
  BY <1>1, <1>3 DEF TypesInv
<1>5. "." \in Names /\ None # Root /\ Now.to # "."
  BY <1>2, Constants DEF Names, Own
<1>6. dir'["."] = Root /\ \A n \in Names \ {"."} : dir'[n] # Root
  BY <1>2, <1>3, <1>4, <1>5 DEF HomeInv
<1>7. \A n \in Own : dir'[n] # None =>
        Makes(Now, n) \/ (dir[n] # None /\ ~Removes(Now, n))
  BY <1>2, <1>4 DEF Removes, Makes, Own
<1>8. QED  BY <1>1, <1>2, <1>6, <1>7, FewerTidy

\* link(), symlinkat() and mkdir(): the new name is one of the tests.
LEMMA MakeTidy ==
  ASSUME Faultless, SysLink \/ SysSymlink \/ SysMkdir
  PROVE  EndProcess("aborted") \/ Effect
<1>1. HomeInv /\ TypesInv /\ "." \in Names /\ fault = "none"
  BY DEF Faultless, CallState, DiskInv, Names
<1>2. NewInode # Root
  BY <1>1, FreeInode DEF HomeInv
<1>3. Homely(Now) /\ Harmless(Now)
  BY NowIsHomely DEF Faultless
<1>4. CASE SysLink
  <2>1. SUFFICES ASSUME Enter(Now.to, dir[Now.name], node[dir[Now.name]])
                 PROVE  Effect
    BY <1>1, <1>4 DEF SysLink, Assert
  <2>2. /\ Now.call \in {"link", "linkat"} /\ Now.to \in Own
        /\ Now.name \in Names \ {"."}
    BY <1>3, <1>4 DEF SysLink, At, Homely, Harmless
  <2>3. dir[Now.name] # Root
    BY <1>1, <2>2 DEF HomeInv
  <2>4. Makes(Now, Now.to) /\ Now.call \notin Ending \cup {"chdir_saved", "fchdir"}
    BY <2>2 DEF Makes, Ending
  <2>5. QED  BY <2>1, <2>2, <2>3, <2>4, EnterTidy
<1>5. CASE SysSymlink
  <2>1. SUFFICES ASSUME Enter(Now.to, NewInode, New("link", <<Now.name>>, RWX))
                 PROVE  Effect
    BY <1>1, <1>5 DEF SysSymlink, Assert
  <2>2. Now.call = "symlinkat" /\ Now.to \in Own
    BY <1>3, <1>5 DEF SysSymlink, At, Homely
  <2>3. Makes(Now, Now.to) /\ Now.call \notin Ending \cup {"chdir_saved", "fchdir"}
    BY <2>2 DEF Makes, Ending
  <2>4. QED  BY <1>2, <2>1, <2>2, <2>3, EnterTidy
<1>6. CASE SysMkdir
  <2>1. SUFFICES ASSUME Enter(Now.name, NewInode, New("dir", <<>>, RWX))
                 PROVE  Effect
    BY <1>1, <1>6 DEF SysMkdir, Assert
  <2>2. Now.call \in {"mkdir", "mkdirat"} /\ Now.name \in Own
    BY <1>3, <1>6 DEF SysMkdir, At, Homely, Harmless, Kept, Own
  <2>3. Makes(Now, Now.name) /\ Now.call \notin Ending \cup {"chdir_saved", "fchdir"}
    BY <2>2 DEF Makes, Ending
  <2>4. QED  BY <1>2, <2>1, <2>2, <2>3, EnterTidy
<1>7. QED  BY <1>4, <1>5, <1>6

\* chmod(), utime() and their like: the status of a file of the tests.
LEMMA ChmodTidy ==
  ASSUME Faultless, SysChmod \/ SysUtime
  PROVE  EndProcess("aborted") \/ Effect
<1>1. HomeInv /\ ShapeInv /\ UsedInv /\ TypesInv /\ AliasInv
  BY DEF Faultless, CallState, DiskInv
<1>2. /\ Now.call \in {"chmod", "fchmodat", "fchmod", "lchmod", "utime", "utimes",
                       "utimensat", "futimens"}
      /\ Now.name \in Names \ Kept /\ Now.name # "."
  BY NowIsHomely DEF Faultless, SysChmod, SysUtime, At, Homely, Harmless
<1>3. SUFFICES ASSUME Exists(Now.name), UNCHANGED <<dir, locals>>,
                      \/ node' = node
                      \/ \E m : node' = [node EXCEPT ![Follow(Now.name)].mode = m]
                      \/ \E a, m : node' = [node EXCEPT ![dir[Now.name]].atime = a,
                                                        ![dir[Now.name]].mtime = m]
               PROVE  Effect
  BY Zenon DEF SysChmod, SysUtime, Assert
<1>4. Follow(Now.name) = dir[Now.name] /\ dir[Now.name] # Root
  BY <1>1, <1>2, <1>3 DEF AliasInv, Follow, HomeInv
<1>5. /\ node' = [k \in Nodes |-> node'[k]]
      /\ \A k \in Nodes : k # dir[Now.name] => node'[k] = node[k]
  <2> DEFINE i == dir[Now.name]
  <2>1. CASE node' = node
    BY <2>1, <1>1 DEF ShapeInv
  <2>2. CASE \E m : node' = [node EXCEPT ![i].mode = m]
    BY <2>2, <1>1 DEF TypesInv, ShapeInv
  <2>3. CASE \E a, m : node' = [node EXCEPT ![i].atime = a, ![i].mtime = m]
    <3>1. PICK a, m : node' = [node EXCEPT ![i].atime = a, ![i].mtime = m]
      BY <2>3
    <3> DEFINE mid == [node EXCEPT ![i].atime = a]
    <3>2. /\ mid = [k \in Nodes |-> mid[k]]
          /\ \A k \in Nodes : k # i => mid[k] = node[k]
      BY <1>1 DEF TypesInv, ShapeInv
    <3>3. node' = [mid EXCEPT ![i].mtime = m]
      BY <3>1, Zenon
    <3> HIDE DEF mid
    <3>4. QED  BY <3>2, <3>3
  <2>4. QED  BY <1>3, <1>4, <2>1, <2>2, <2>3
<1>6. open' = open /\ cwd' = cwd /\ saved_cwd' = saved_cwd /\ dir' = dir
  BY <1>3 DEF locals
<1>7. ShapeInv' /\ HomeInv'
  BY <1>1, <1>4, <1>5, <1>6, Constants DEF ShapeInv, HomeInv
<1>8. UsedInv'
  BY <1>1, <1>2, <1>5, <1>6 DEF UsedInv
<1>9. DiskEffect
  BY <1>2, <1>6, <1>7, <1>8 DEF DiskEffect, Removes, Closes
<1>10. QED  BY <1>2, <1>6, <1>9, StaysPut DEF Effect

\* The calls on fd.
LEMMA FdCallsTidy ==
  ASSUME Faultless,
         SysWrite \/ SysPwrite \/ SysRead \/ SysPread \/ SysLseek \/ SysResize
  PROVE  EndProcess("aborted") \/ Effect
<1>1. CASE Now.call \in OnFd /\ \E data : SetFile(data) /\ (UNCHANGED open \/ \E p : SetPos(p))
  BY <1>1, FdTidy
<1>2. Now.call \in OnFd
  BY DEF SysWrite, SysPwrite, SysRead, SysPread, SysLseek, SysResize, At, OnFd
<1>3. CASE SysWrite
  BY <1>1, <1>2, <1>3, Zenon DEF SysWrite, Assert
<1>4. CASE SysPwrite
  BY <1>1, <1>2, <1>4, Zenon DEF SysPwrite, Assert
<1>5. CASE SysRead
  BY <1>1, <1>2, <1>5, Zenon DEF SysRead, Assert
<1>6. CASE SysPread
  BY <1>1, <1>2, <1>6, Zenon DEF SysPread, Assert
<1>7. CASE SysLseek
  BY <1>1, <1>2, <1>7, Zenon DEF SysLseek, Assert
<1>8. CASE SysResize
  BY <1>1, <1>2, <1>8, Zenon DEF SysResize, Assert
<1>9. QED  BY <1>3, <1>4, <1>5, <1>6, <1>7, <1>8

\* The calls that only look, or go to another directory.
LEMMA QuietTidy ==
  ASSUME Faultless, Quiet
  PROVE  EndProcess("aborted") \/ Effect
<1>1. SUFFICES ASSUME ~EndProcess("aborted")
               PROVE  Effect
  OBVIOUS
<1>2. fault = "none" /\ HomeInv /\ saved_cwd = Root
  BY DEF Faultless
<1>3. DiskEffect
  <2>1. UNCHANGED <<disk, open>>
    BY <1>1, QuietEffect
  <2>2. Now.call \notin Ending
    BY DEF Quiet, SysPoll, SysReadlink, SysStat, SysCheck, SysSame, SysLstat, SysAccess,
           SysNothing, SysChdir, SysChdirBack, SysFchdir, SysGetcwd, SysReaddir, At, Ending
  <2>3. QED  BY <2>1, <2>2, SameDisk
<1>4. ASSUME UNCHANGED <<cwd, saved_cwd>>, Now.call \notin {"chdir_saved", "fchdir"}
      PROVE  CwdEffect
  BY <1>4, StaysPut
<1>5. CASE SysPoll \/ SysReadlink \/ SysStat
  <2>1. UNCHANGED <<cwd, saved_cwd>>
    BY <1>1, <1>5, Zenon DEF SysPoll, SysReadlink, SysStat, Assert, locals
  <2>2. Now.call \notin {"chdir_saved", "fchdir"}
    BY <1>5 DEF SysPoll, SysReadlink, SysStat, At
  <2>3. QED  BY <1>3, <1>4, <2>1, <2>2 DEF Effect
<1>6. CASE SysCheck \/ SysSame \/ SysLstat
  <2>1. UNCHANGED <<cwd, saved_cwd>>
    BY <1>1, <1>6, Zenon DEF SysCheck, SysSame, SysLstat, Assert, locals
  <2>2. Now.call \notin {"chdir_saved", "fchdir"}
    BY <1>6 DEF SysCheck, SysSame, SysLstat, At
  <2>3. QED  BY <1>3, <1>4, <2>1, <2>2 DEF Effect
<1>7. CASE SysAccess \/ SysNothing \/ SysReaddir
  <2>1. UNCHANGED <<cwd, saved_cwd>>
    BY <1>1, <1>7, Zenon DEF SysAccess, SysNothing, SysReaddir, Assert, locals
  <2>2. Now.call \notin {"chdir_saved", "fchdir"}
    BY <1>7 DEF SysAccess, SysNothing, SysReaddir, At
  <2>3. QED  BY <1>3, <1>4, <2>1, <2>2 DEF Effect
<1>8. CASE SysChdir
  <2>1. saved_cwd' = saved_cwd
    BY <1>1, <1>8 DEF SysChdir, Assert, SetCwd
  <2>2. Leaves(Now)
    BY <1>8 DEF SysChdir, At, Leaves, Returns
  <2>3. QED  BY <1>2, <1>3, <2>1, <2>2 DEF Effect, CwdEffect
<1>9. CASE SysChdirBack
  <2>1. saved_cwd' = saved_cwd /\ cwd' = saved_cwd
    BY <1>1, <1>2, <1>9 DEF SysChdirBack, Assert, SetCwd
  <2>2. QED  BY <1>2, <1>3, <2>1 DEF Effect, CwdEffect
<1>10. CASE SysFchdir
  <2>1. /\ saved_cwd' = saved_cwd /\ open[Now.handle] # Closed
        /\ cwd' = open[Now.handle].inode
    BY <1>1, <1>2, <1>10 DEF SysFchdir, Assert, SetCwd
  <2>2. CASE Now.handle = "initial_directory_fd"
    BY <1>2, <1>3, <2>1, <2>2 DEF Effect, CwdEffect, HomeInv
  <2>3. CASE Now.handle # "initial_directory_fd"
    <3>1. Leaves(Now)
      BY <1>10, <2>3 DEF SysFchdir, At, Leaves, Returns
    <3>2. QED  BY <1>2, <1>3, <2>1, <3>1 DEF Effect, CwdEffect
  <2>4. QED  BY <2>2, <2>3
<1>11. CASE SysGetcwd
  <2>1. Now.call = "getcwd"
    BY <1>11 DEF SysGetcwd, At
  <2>2. CASE Now.like = "any" /\ saved_cwd' = cwd /\ UNCHANGED cwd
    BY <1>3, <2>1, <2>2 DEF Effect, CwdEffect, Remembers, Returns
  <2>3. CASE UNCHANGED <<cwd, saved_cwd>>
    BY <1>3, <1>4, <2>1, <2>3 DEF Effect
  <2>4. QED  BY <1>1, <1>2, <1>11, <2>2, <2>3 DEF SysGetcwd, Assert, Cwd, locals
<1>12. QED
  BY <1>5, <1>6, <1>7, <1>8, <1>9, <1>10, <1>11 DEF Quiet

\* All calls together.
LEMMA CallTidy ==
  ASSUME Faultless, Call
  PROVE  EndProcess("aborted") \/ (GoOn /\ Effect)
<1>1. EndProcess("aborted") \/ Effect
  BY OpenTidy, CloseTidy, FdCallsTidy, UnlinkTidy, RenameTidy, MakeTidy, ChmodTidy,
     QuietTidy, Zenon DEF Call, Quiet
<1>2. QED  BY <1>1, CallGoesOn

-----------------------------------------------------------------------------
\* What has been removed up to a call was removed before it, or by it.
LEMMA RemovedBefore ==
  ASSUME PlaceInv, NEW n, NEW t \in 1..test, NEW j \in 1..Len(Suite[t]),
         t < test \/ j <= step, Removes(Suite[t][j], n)
  PROVE  Removed(n) \/ Removes(Now, n)
<1>1. test \in Nat /\ step \in Nat /\ t \in Nat
  BY DEF PlaceInv
<1>2. CASE t = test /\ j = step
  BY <1>2 DEF Now
<1>3. CASE t < test \/ j < step
  BY <1>3 DEF Removed
<1>4. QED  BY <1>1, <1>2, <1>3

\* At the next call less remains to be done, and at the end of a test nothing.
LEMMA WhatRemains ==
  ASSUME PlaceInv, TidyInv, status = "running", Effect
  PROVE  /\ \A n \in Own :
              dir'[n] # None /\ (run = 1 \/ Removed(n) \/ Removes(Now, n)) =>
                \E j \in step+1..Len(Suite[test]) : Removes(Suite[test][j], n)
         /\ \A h \in Handles : open'[h] # Closed =>
              \E j \in step+1..Len(Suite[test]) : Closes(Suite[test][j], h)
         /\ cwd' # Root =>
              /\ \E j \in 1..step : Leaves(Suite[test][j])
              /\ \E j \in step+1..Len(Suite[test]) : Returns(Suite[test][j])
         /\ saved_cwd' = Root
<1> DEFINE calls == Suite[test]
           L == Len(calls)
<1>1. /\ Tidy(calls) /\ Now = calls[step] /\ step \in 1..L /\ L \in Nat
  BY SuiteIsTidy, SuiteIsCareful DEF PlaceInv, Now, Careful
<1>2. NamesInv /\ HandlesInv /\ CwdInv
  BY DEF TidyInv
<1>0. \A j \in step..L : j = step \/ j \in step+1..L
  BY <1>1
<1> HIDE DEF L
<1>3. ASSUME NEW n \in Own, dir'[n] # None, run = 1 \/ Removed(n) \/ Removes(Now, n)
      PROVE  \E j \in step+1..L : Removes(calls[j], n)
  <2>1. CASE Makes(Now, n)
    BY <1>1, <2>1 DEF Tidy, L
  <2>2. CASE dir[n] # None /\ ~Removes(Now, n)
    <3>1. PICK j \in step..L : Removes(calls[j], n)
      BY <1>2, <1>3, <2>2 DEF NamesInv, Exists, L
    <3>2. QED  BY <1>0, <1>1, <2>2, <3>1
  <2>3. QED  BY <1>3, <2>1, <2>2 DEF Effect, DiskEffect
<1>4. ASSUME NEW h \in Handles, open'[h] # Closed
      PROVE  \E j \in step+1..L : Closes(calls[j], h)
  <2>1. CASE Holds(Now, h)
    BY <1>1, <2>1 DEF Tidy, L
  <2>2. CASE open[h] # Closed /\ ~Closes(Now, h)
    <3>1. PICK j \in step..L : Closes(calls[j], h)
      BY <1>2, <2>2 DEF HandlesInv, L
    <3>2. QED  BY <1>0, <1>1, <2>2, <3>1
  <2>3. QED  BY <1>4, <2>1, <2>2 DEF Effect, DiskEffect
<1>5. ASSUME cwd' # Root
      PROVE  /\ \E j \in 1..step : Leaves(calls[j])
             /\ \E j \in step+1..L : Returns(calls[j])
  <2>1. CASE Leaves(Now)
    <3>1. step \in 1..step
      BY <1>1
    <3>2. QED  BY <1>1, <2>1, <3>1 DEF Tidy, L
  <2>2. CASE cwd # Root /\ ~Returns(Now)
    <3>1. PICK j \in step..L : Returns(calls[j])
      BY <1>2, <2>2 DEF CwdInv, L
    <3>2. PICK i \in 1..step-1 : Leaves(calls[i])
      BY <1>2, <2>2 DEF CwdInv
    <3>3. i \in 1..step
      BY <1>1
    <3>4. QED  BY <1>0, <1>1, <2>2, <3>1, <3>2, <3>3
  <2>3. QED  BY <1>5, <2>1, <2>2 DEF Effect, CwdEffect
<1>6. saved_cwd' = Root
  <2>1. CASE Remembers(Now)
    <3>1. \A j \in 1..step : ~Leaves(calls[j])
      BY <1>1, <2>1 DEF Tidy, L
    <3>2. \A j \in 1..step-1 : j \in 1..step
      BY <1>1
    <3>3. cwd = Root
      BY <1>2, <3>1, <3>2 DEF CwdInv
    <3>4. QED  BY <3>3 DEF Effect, CwdEffect
  <2>2. QED  BY <2>1 DEF Effect, CwdEffect
<1>7. QED  BY <1>3, <1>4, <1>5, <1>6 DEF L

\* A call keeps all that.
LEMMA GoOnTidy ==
  ASSUME PlaceInv, TidyInv, status = "running", Effect, GoOn, KeepsReadme
  PROVE  TidyInv'
<1> DEFINE L == Len(Suite[test])
<1>1. /\ run' = run /\ standalone' = standalone /\ Suite' = Suite
      /\ status' = IF test = Len(Suite) /\ step = L THEN "ok" ELSE "running"
      /\ IF step < L THEN step' = step + 1 /\ test' = test
         ELSE step' = 1 /\ test' = IF test < Len(Suite) THEN test + 1 ELSE 1
  BY DEF GoOn, world, Suite
<1>2. step \in 1..L /\ L \in Nat /\ test \in 1..Len(Suite) /\ Len(Suite) \in Nat
  BY SuiteIsCareful DEF PlaceInv, Careful
<1>3. /\ \A n \in Own :
           dir'[n] # None /\ (run = 1 \/ Removed(n) \/ Removes(Now, n)) =>
             \E j \in step+1..L : Removes(Suite[test][j], n)
      /\ \A h \in Handles : open'[h] # Closed =>
           \E j \in step+1..L : Closes(Suite[test][j], h)
      /\ cwd' # Root =>
           /\ \E j \in 1..step : Leaves(Suite[test][j])
           /\ \E j \in step+1..L : Returns(Suite[test][j])
      /\ saved_cwd' = Root
  BY WhatRemains
<1>4. /\ run \in Nat \ {0} /\ (standalone => run = 1) /\ ShapeInv' /\ HomeInv' /\ UsedInv'
      /\ node'[Readme] = New("file", Text, RW)
  BY DEF TidyInv, Effect, DiskEffect, KeepsReadme
<1> HIDE DEF L
<1>5. CASE step < L
  <2>1. step' = step + 1 /\ test' = test /\ status' = "running" /\ Len(Suite'[test']) = L
    BY <1>1, <1>2, <1>5 DEF L
  <2>2. ASSUME NEW n, Removed(n)'
        PROVE  Removed(n) \/ Removes(Now, n)
    <3>1. PICK t \in 1..test' : \E j \in 1..Len(Suite[t]) :
                 (t < test' \/ j < step') /\ Removes(Suite[t][j], n)
      BY <1>1, <2>2 DEF Removed
    <3>2. PICK j \in 1..Len(Suite[t]) : (t < test' \/ j < step') /\ Removes(Suite[t][j], n)
      BY <3>1
    <3>3. t \in 1..test /\ (t < test \/ j <= step)
      BY <1>2, <2>1, <3>1, <3>2
    <3>4. QED  BY <3>2, <3>3, RemovedBefore
  <2>3. step' # 1
    BY <1>2, <2>1
  <2>4. NamesInv'
    <3>1. ASSUME NEW n \in Own, dir'[n] # None, run' = 1 \/ Removed(n)'
          PROVE  step' # 1 /\ \E j \in step'..Len(Suite'[test']) : Removes(Suite'[test'][j], n)
      BY <1>1, <1>3, <2>1, <2>2, <2>3, <3>1
    <3>2. QED  BY <3>1 DEF NamesInv, Exists
  <2>5. HandlesInv'
    BY <1>1, <1>3, <2>1, <2>3 DEF HandlesInv
  <2>6. CwdInv'
    <3>1. step' - 1 = step
      BY <1>2, <2>1
    <3>2. QED  BY <1>1, <1>3, <2>1, <3>1 DEF CwdInv
  <2>7. QED  BY <1>1, <1>3, <1>4, <2>1, <2>4, <2>5, <2>6 DEF TidyInv
<1>6. CASE ~(step < L)
  <2>1. step = L /\ step' = 1
    BY <1>1, <1>2, <1>6
  <2>2. \A j \in step+1..L : FALSE
    BY <1>2, <2>1
  <2>3. cwd' = Root /\ \A h \in Handles : open'[h] = Closed
    BY <1>3, <2>2
  <2>4. \A n \in Own : run = 1 \/ Removed(n) \/ Removes(Now, n) => dir'[n] = None
    BY <1>3, <2>2
  <2>5. CASE test < Len(Suite)
    <3>1. status' = "running" /\ test' = test + 1
      BY <1>1, <1>2, <2>1, <2>5
    <3>2. ASSUME NEW n, Removed(n)'
          PROVE  Removed(n) \/ Removes(Now, n)
      <4>1. PICK t \in 1..test' : \E j \in 1..Len(Suite[t]) :
                   (t < test' \/ j < step') /\ Removes(Suite[t][j], n)
        BY <1>1, <3>2 DEF Removed
      <4>2. PICK j \in 1..Len(Suite[t]) : (t < test' \/ j < step') /\ Removes(Suite[t][j], n)
        BY <4>1
      <4>3. t \in 1..test
        BY <1>2, <2>1, <3>1, <4>1, <4>2
      <4>4. t < test \/ j <= step
        <5>1. CASE t = test
          BY <2>1, <5>1 DEF L
        <5>2. QED  BY <1>2, <4>3, <5>1
      <4>5. QED  BY <4>2, <4>3, <4>4, RemovedBefore
    <3>3. NamesInv'
      <4>1. \A n \in Own : ~(dir'[n] # None /\ (run' = 1 \/ Removed(n)'))
        BY <1>1, <2>4, <3>2
      <4>2. QED  BY <4>1 DEF NamesInv, Exists
    <3>4. HandlesInv' /\ CwdInv'
      BY <2>3 DEF HandlesInv, CwdInv
    <3>5. QED  BY <1>1, <1>3, <1>4, <3>1, <3>3, <3>4 DEF TidyInv
  <2>6. CASE ~(test < Len(Suite))
    <3>1. status' = "ok" /\ test = Len(Suite)
      BY <1>1, <1>2, <2>1, <2>6
    <3>2. ASSUME NEW n \in Own
          PROVE  dir'[n] = None
      <4>1. CASE standalone
        BY <1>4, <2>4, <4>1
      <4>2. CASE ~standalone
        <5>1. PICK t \in 1..Len(Suite) : \E j \in 1..Len(Suite[t]) : Removes(Suite[t][j], n)
          BY <4>2, AllRemoved
        <5>2. PICK j \in 1..Len(Suite[t]) : Removes(Suite[t][j], n)
          BY <5>1
        <5>3. t < test \/ j <= step
          <6>1. CASE t = test
            BY <2>1, <6>1 DEF L
          <6>2. QED  BY <1>2, <3>1, <6>1
        <5>4. QED  BY <2>4, <3>1, <5>2, <5>3, RemovedBefore
      <4>3. QED  BY <4>1, <4>2
    <3>3. QED  BY <1>1, <1>3, <1>4, <2>3, <3>1, <3>2 DEF TidyInv, Settled, Exists
  <2>7. QED  BY <2>5, <2>6
<1>7. QED  BY <1>5, <1>6

\* And so does the end of a process, whose descriptors are closed.
LEMMA EndTidy ==
  ASSUME TidyInv, NEW how, how \notin {"running", "ok"}, EndProcess(how), KeepsReadme
  PROVE  TidyInv'
<1>1. /\ status' = how /\ open' = [h \in Handles |-> Closed] /\ cwd' = Root
      /\ saved_cwd' = Root /\ UNCHANGED <<world, dir, run>> /\ Settle(node)
  BY DEF EndProcess
<1>2. HomeInv
  BY DEF TidyInv
<1>3. ShapeInv' /\ HomeInv' /\ UsedInv'
  <2>1. \A h \in Handles : open'[h] = Closed
    BY <1>1
  <2>2. "fd" \in Handles /\ "initial_directory_fd" \in Handles /\ Closed.inode # Root
    BY Constants DEF Handles, Closed
  <2>3. open' = [h \in Handles |-> open'[h]]
    BY <1>1
  <2>4. QED  BY <1>1, <1>2, <2>1, <2>2, <2>3, SettleTidy DEF HomeInv
<1>4. QED  BY <1>1, <1>3 DEF TidyInv, Settled, KeepsReadme, world

\* A run that starts has removed nothing yet.
LEMMA StartTidy ==
  ASSUME test = 1, step = 1, run # 1, Settled
  PROVE  NamesInv /\ HandlesInv /\ CwdInv
<1>1. \A n : ~Removed(n)
  BY DEF Removed
<1>2. QED  BY <1>1 DEF NamesInv, HandlesInv, CwdInv, Settled

TidyIInv == fault = "none" => TidyInv

\* What holds before the first call.
LEMMA InitTidy == Init => TidyIInv
<1> SUFFICES ASSUME Init
             PROVE  TidyInv
  BY DEF TidyIInv
<1>1. /\ dir = InitialDir /\ node = InitialNode /\ open = [h \in Handles |-> Closed]
      /\ cwd = Root /\ saved_cwd = Root /\ status = "running" /\ run = 1
  BY DEF Init
<1>2. \A n \in Names : dir[n] = IF n = "." THEN Root
                                ELSE IF n = "README.md" THEN Readme ELSE None
  BY <1>1 DEF InitialDir
<1>3. ShapeInv /\ node[Readme] = New("file", Text, RW) /\ node[Root] = New("dir", <<>>, RWX)
  BY <1>1, Constants DEF ShapeInv, InitialNode
<1>4. "." \in Names /\ "README.md" \in Names /\ "fd" \in Handles
      /\ "initial_directory_fd" \in Handles
  BY DEF Names, Handles
<1>5. HomeInv
  BY <1>1, <1>2, <1>3, <1>4, Constants DEF HomeInv, Closed
<1>6. UsedInv
  BY <1>1, <1>2, <1>4 DEF UsedInv, InitialNode
<1>7. NamesInv /\ HandlesInv /\ CwdInv
  BY <1>1, <1>2 DEF NamesInv, HandlesInv, CwdInv, Exists, Own
<1>8. QED  BY <1>1, <1>3, <1>5, <1>6, <1>7 DEF TidyInv

\* Every step keeps it.
LEMMA StepTidy ==
  ASSUME BlockIInv, TidyIInv, [Next]_vars
  PROVE  TidyIInv'
<1>1. fault' = fault
  BY CallGoesOn, Zenon
     DEF Next, Kill, Rerun, Stop, vars, world, GoOn, EndProcess
<1>2. SUFFICES ASSUME fault = "none"
               PROVE  TidyInv'
  BY <1>1 DEF TidyIInv
<1>3. TidyInv /\ PlaceInv /\ DiskInv /\ EndedInv /\ KeepsReadme
  BY <1>2, StepIInv DEF TidyIInv, BlockIInv, IInv
<1>4. CASE Call
  <2>1. status = "running"
    BY <1>4, CallRuns
  <2>2. Faultless
    BY <1>2, <1>3 DEF Faultless, CallState, TidyInv
  <2>3. EndProcess("aborted") \/ (GoOn /\ Effect)
    BY <1>4, <2>2, CallTidy
  <2>4. QED  BY <1>3, <2>1, <2>3, GoOnTidy, EndTidy
<1>5. CASE Kill
  BY <1>3, <1>5, EndTidy DEF Kill
<1>6. CASE Rerun
  <2>1. /\ status \in {"aborted", "killed"} /\ ~standalone /\ run' = run + 1
        /\ status' = "running" /\ UNCHANGED <<world, disk, locals, test, step>>
    BY <1>6 DEF Rerun
  <2>2. test = 1 /\ step = 1 /\ Settled
    BY <1>3, <2>1 DEF EndedInv, TidyInv
  <2>3. /\ test' = 1 /\ step' = 1 /\ run' \in Nat \ {0} /\ run' # 1 /\ Settled'
        /\ standalone' = standalone
    BY <1>3, <2>1, <2>2 DEF TidyInv, Settled, world, locals
  <2>4. NamesInv' /\ HandlesInv' /\ CwdInv'
    <3>1. (test = 1 /\ step = 1 /\ run # 1 /\ Settled => NamesInv /\ HandlesInv /\ CwdInv)'
      BY StartTidy, PTL
    <3>2. QED  BY <2>3, <3>1
  <2>5. ShapeInv' /\ HomeInv' /\ UsedInv' /\ node'[Readme] = node[Readme]
    BY <1>3, <2>1 DEF TidyInv, ShapeInv, HomeInv, UsedInv, disk, locals
  <2>6. QED  BY <1>3, <2>1, <2>3, <2>4, <2>5 DEF TidyInv, locals
<1>7. CASE UNCHANGED vars
  BY <1>3, <1>7 DEF TidyInv, ShapeInv, HomeInv, UsedInv, NamesInv, HandlesInv, CwdInv,
     Removed, Settled, Exists, Suite, vars, world, disk, locals, where
<1>8. QED  BY <1>4, <1>5, <1>6, <1>7 DEF Next, Stop

\* What each test has taken it has still to give back, on a library without a
\* fault and in any run, and what a run has removed stays away.
THEOREM TidyInvariant == Spec => []TidyIInv
<1>1. BlockIInv /\ TidyIInv /\ [Next]_vars => TidyIInv'
  BY StepTidy
<1>2. QED  BY InitTidy, BlockInvariant, <1>1, PTL DEF Spec

\* Where none of the names of the tests is, all is as it was at first.
LEMMA AsAtFirst ==
  ASSUME TidyInv, DiskInv, \A n \in Own : dir[n] = None,
         \A h \in Handles : open[h] = Closed
  PROVE  /\ dir = InitialDir /\ node = InitialNode
         /\ open = [h \in Handles |-> Closed]
<1>1. ShapeInv /\ HomeInv /\ UsedInv /\ TypesInv /\ ReadmeInv
      /\ node[Readme] = New("file", Text, RW)
  BY DEF TidyInv, DiskInv
<1>2. \A n \in Names : dir[n] = IF n = "." THEN Root
                                ELSE IF n = "README.md" THEN Readme ELSE None
  BY <1>1 DEF HomeInv, ReadmeInv, Own
<1>3. dir = InitialDir
  BY <1>1, <1>2 DEF InitialDir, TypesInv
<1>4. open = [h \in Handles |-> Closed]
  BY <1>1 DEF ShapeInv
<1>5. \A k \in Nodes \ {Root, Readme} : node[k] = Free
  <2>1. \A h \in Handles : open[h].inode = None
    BY DEF Closed
  <2>2. QED  BY <1>1, <1>2, <2>1, Constants DEF UsedInv
<1>6. node = InitialNode
  BY <1>1, <1>5, Constants DEF ShapeInv, InitialNode, HomeInv
<1>7. QED  BY <1>3, <1>4, <1>6

\* Each test of a first run gives back what it took: when the next one begins,
\* and when the last one ended, the names, the descriptors and the working
\* directory are as they were at the start (each test of main.c:100-148 closes
\* what it opened, removes what it made and goes back to where it was).
THEOREM TestsLeaveNothing == Spec => []CleanBetween
<1>1. BlockIInv /\ TidyIInv => CleanBetween
  <2> SUFFICES ASSUME BlockIInv, TidyIInv, fault = "none", run = 1, step = 1,
                      status \in {"running", "ok"}
               PROVE  /\ dir = InitialDir /\ node = InitialNode
                      /\ open = [h \in Handles |-> Closed] /\ cwd = Root
    BY DEF CleanBetween
  <2>1. TidyInv /\ DiskInv
    BY DEF TidyIInv, BlockIInv, IInv
  <2>2. \A n \in Own : dir[n] = None
    BY <2>1 DEF TidyInv, NamesInv, Exists
  <2>3. \A h \in Handles : open[h] = Closed
    BY <2>1 DEF TidyInv, HandlesInv, Settled
  <2>4. cwd = Root
    <3>1. 1..step - 1 = {}
      OBVIOUS
    <3>2. QED  BY <2>1, <3>1 DEF TidyInv, CwdInv, Settled
  <2>5. QED  BY <2>1, <2>2, <2>3, <2>4, AsAtFirst
<1>2. QED  BY BlockInvariant, TidyInvariant, <1>1, PTL

\* A run that passes leaves the file system as it was before the first one,
\* whatever those before it were killed at: some test removes each of the names
\* any test makes.
THEOREM PassingHeals == Spec => []PassHeals
<1>1. BlockIInv /\ TidyIInv => PassHeals
  <2> SUFFICES ASSUME BlockIInv, TidyIInv, fault = "none", status = "ok"
               PROVE  dir = InitialDir /\ node = InitialNode
    BY DEF PassHeals
  <2>1. TidyInv /\ DiskInv
    BY DEF TidyIInv, BlockIInv, IInv
  <2>2. (\A n \in Own : dir[n] = None) /\ \A h \in Handles : open[h] = Closed
    BY <2>1 DEF TidyInv, Exists, Settled
  <2>3. QED  BY <2>1, <2>2, AsAtFirst
<1>2. QED  BY BlockInvariant, TidyInvariant, <1>1, PTL
=============================================================================
