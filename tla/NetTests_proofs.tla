--------------------------- MODULE NetTests_proofs ---------------------------
EXTENDS NetTests, FiniteSetTheorems, TLAPS
(***************************************************************************)
(* Who fails network-c, what its tests leave behind, and what a verdict    *)
(* tells, for any number of processes that start and are killed any number *)
(* of times.                                                               *)
(*                                                                         *)
(* On a library without a fault, or with one that no assertion sees, the   *)
(* call a process makes next tells what it holds: which of its variables   *)
(* are open, whether it has the port, whether its file is there.  The      *)
(* invariant says so test by test and step by step.  A call changes the    *)
(* holdings of the process that makes it, and of the others only the file  *)
(* of a process of the same build, which each knows about when both have   *)
(* run at one time.                                                        *)
(*                                                                         *)
(* With any other fault there is a call that no process gets past: the     *)
(* second half says for each which one it is, and what the process carries *)
(* from where the fault shows to there.                                    *)
(***************************************************************************)
\* The positions of the tests of common.c in the two lists.
InetTests == 1..5
UnixTests == 7..11

\* The number of a test in its list, and the step at which it closes.
Kind(t) == IF t \in InetTests THEN t ELSE t - 6
Family(t) == IF t \in InetTests THEN "AF_INET" ELSE "AF_UNIX"
CloseAt(k) == IF k = 1 THEN 2 ELSE IF k = 2 THEN 3 ELSE IF k \in {3, 4} THEN 4 ELSE 5

\* The calls of the tests of common.c, as far as their positions matter: the
\* socket is made and named first, and closed before its file is unlinked.
LEMMA SocketScript ==
  ASSUME NEW d \in Domains, NEW k \in 1..5
  PROVE  LET calls == SocketTests(d)[k]
             unlinks == d = "AF_UNIX" /\ k # 1
         IN  /\ Len(calls) = CloseAt(k) + IF unlinks THEN 1 ELSE 0
             /\ DOMAIN calls = 1..Len(calls)
             /\ calls[1] = Call("socket", d, "sockfd")
             /\ k # 1 => calls[2] = Call("bind", d, "sockfd")
             /\ k \in {3, 5} => calls[3] = Call("listen", d, "sockfd")
             /\ k = 4 => calls[3] = Call("getsockname", d, "sockfd")
             /\ k = 5 => calls[4] = Call("getsockname", d, "sockfd")
             /\ calls[CloseAt(k)] = Close("sockfd")
             /\ unlinks => calls[CloseAt(k) + 1] = Call("unlink", d, "none")
<1>1. CASE k = 1
  BY <1>1 DEF SocketTests, CloseAt, test_create_socket, new_unbound_socket
<1>2. CASE k = 2 /\ d = "AF_INET"
  BY <1>2 DEF SocketTests, CloseAt, test_bind_socket, new_bound_socket,
              new_unbound_socket, CloseAndUnlink
<1>3. CASE k = 2 /\ d = "AF_UNIX"
  BY <1>3 DEF SocketTests, CloseAt, test_bind_socket, new_bound_socket,
              new_unbound_socket, CloseAndUnlink
<1>4. CASE k = 3 /\ d = "AF_INET"
  BY <1>4 DEF SocketTests, CloseAt, test_listen_socket, new_listening_socket,
              new_bound_socket, new_unbound_socket, CloseAndUnlink
<1>5. CASE k = 3 /\ d = "AF_UNIX"
  BY <1>5 DEF SocketTests, CloseAt, test_listen_socket, new_listening_socket,
              new_bound_socket, new_unbound_socket, CloseAndUnlink
<1>6. CASE k = 4 /\ d = "AF_INET"
  BY <1>6 DEF SocketTests, CloseAt, test_getsockname_bound_socket, Getsockname,
              new_bound_socket, new_unbound_socket, CloseAndUnlink
<1>7. CASE k = 4 /\ d = "AF_UNIX"
  BY <1>7 DEF SocketTests, CloseAt, test_getsockname_bound_socket, Getsockname,
              new_bound_socket, new_unbound_socket, CloseAndUnlink
<1>8. CASE k = 5 /\ d = "AF_INET"
  BY <1>8 DEF SocketTests, CloseAt, test_getsockname_listening_socket, Getsockname,
     new_listening_socket, new_bound_socket, new_unbound_socket, CloseAndUnlink
<1>9. CASE k = 5 /\ d = "AF_UNIX"
  BY <1>9 DEF SocketTests, CloseAt, test_getsockname_listening_socket, Getsockname,
     new_listening_socket, new_bound_socket, new_unbound_socket, CloseAndUnlink
<1>10. QED  BY <1>1, <1>2, <1>3, <1>4, <1>5, <1>6, <1>7, <1>8, <1>9 DEF Domains

-----------------------------------------------------------------------------
\* The tests of common.c, in either list.
SocketTestNos == InetTests \cup UnixTests

\* The calls a test makes.
Length(t) == IF t \in SocketTestNos
             THEN CloseAt(Kind(t)) + IF t \in 8..11 THEN 1 ELSE 0
             ELSE IF t = 6 THEN 1 ELSE IF t = 12 THEN 3 ELSE IF t = 13 THEN 2 ELSE 5
Tests == IF standalone THEN 1..5 ELSE 1..15
NextTest(t, s) == IF s < Length(t) THEN t ELSE t + 1
NextStep(t, s) == IF s < Length(t) THEN s + 1 ELSE 1
Last(t, s) == t = (IF standalone THEN 5 ELSE 15) /\ s = Length(t)

\* What a process has before the call s of the test t.
Opened(t, s) == t \in SocketTestNos /\ 1 < s /\ s <= CloseAt(Kind(t))
Bound(t, s) == t \in SocketTestNos /\ 2 < s /\ s <= CloseAt(Kind(t))
Filed(t, s) == t \in 8..11 /\ 2 < s
HasPair(t, s) == t \in 12..15 /\ (1 < s \/ t = 14)
Held(t, s) ==
  IF ~HasPair(t, s) THEN {}
  ELSE IF (t = 12 /\ s = 3) \/ (t \in {14, 15} /\ s = 5) THEN {"sockfds[1]"} ELSE Pair

\* The sockets it has closed by then, and what it has lost: those of
\* test_getpeername(), and with a close() that leaks those that are closed.
ClosedBefore(t, s) ==
  IF t \in InetTests THEN t - 1
  ELSE IF t \in UnixTests THEN t - 2 + IF s > CloseAt(Kind(t)) THEN 1 ELSE 0
  ELSE IF t = 6 THEN 5
  ELSE (IF t = 12 THEN 10 ELSE IF t = 15 THEN 14 ELSE 12)
         + IF (t = 12 /\ s = 3) \/ (t \in {14, 15} /\ s = 5) THEN 1 ELSE 0
Leaks == fault = "close_leaks"
Overwritten(t, s) == IF t = 15 \/ (t = 14 /\ 1 < s) THEN 2 ELSE 0
LostAt(t, s) == Overwritten(t, s) + IF Leaks THEN ClosedBefore(t, s) ELSE 0

\* The faults no assertion of the suite sees, and the descriptors it takes to
\* pass with one.
Passing == {"none", "close_leaks"} \cup Unseen
             \cup IF standalone THEN UnseenStandalone ELSE {}
Enough == limit >= Needed /\ (Leaks => limit >= Made)

\* The types, and a position that is in the list of tests.
TypesInv ==
  /\ fault \in Faults \cup {"none"} /\ standalone \in BOOLEAN /\ limit \in Nat \ {0}
  /\ port \subseteq Procs /\ files \subseteq SEED
  /\ build \in [Procs -> SEED]
  /\ fds \in [Procs -> [Handles -> [role : Roles, name : Names, in : Nat]]]
  /\ lost \in [Procs -> Nat]
  /\ test \in [Procs -> Nat] /\ step \in [Procs -> Nat]
  /\ status \in [Procs -> {"idle", "running", "ok", "aborted", "killed"}]
  /\ neighbours \in [Procs -> SUBSET SEED]
  /\ \A p \in Procs : test[p] \in Tests /\ step[p] \in 1..Length(test[p])

\* A process that does not run has nothing open.
EndedInv(p) ==
  status[p] # "running" => p \notin port /\ \A h \in Handles : fds[p][h] = Closed

\* sockfd is open and has a name between the calls that make it so.
SocketInv(p) ==
  status[p] = "running" =>
    LET t == test[p]
        s == step[p]
    IN  /\ p \in port <=> t \in InetTests /\ Bound(t, s)
        /\ ~Opened(t, s) => fds[p]["sockfd"] = Closed
        /\ Opened(t, s) => fds[p]["sockfd"].role # "closed"
        /\ Bound(t, s) => fds[p]["sockfd"].name =
             IF t \in InetTests THEN "port" ELSE build[p]

\* The variables of a pair are open between their calls, and connected until
\* shut down; test_getpeername() leaves two descriptors to be lost.
PairInv(p) ==
  status[p] = "running" =>
    LET t == test[p]
        s == step[p]
    IN  /\ lost[p] = LostAt(t, s)
        /\ \A h \in Pair \ Held(t, s) : fds[p][h] = Closed
        /\ \A h \in Held(t, s) :
             /\ fds[p][h].role # "closed" /\ fds[p][h].name = "none"
             /\ s = 2 \/ (s = 3 /\ h = "sockfds[1]") => fds[p][h].role = "connected"
        /\ t = 14 /\ s = 3 => fds[p]["sockfds[1]"].in = Message

\* Two processes that run know of each other.
NeighboursInv ==
  \A p, q \in Procs : status[p] = "running" /\ status[q] = "running" /\ p # q =>
    build[q] \in neighbours[p]

\* With no neighbour of the same build, the file is there from bind() to
\* unlink().
FileInv(p) ==
  status[p] = "running" /\ build[p] \notin neighbours[p] /\ 6 < test[p] =>
    (build[p] \in files <=> Filed(test[p], step[p]))

Own(p) == EndedInv(p) /\ SocketInv(p) /\ PairInv(p) /\ FileInv(p)

\* FailsOnlyByNeighbour, for one process, and for all faults that pass.
Blamed(p) ==
  Enough /\ status[p] = "aborted" =>
    /\ Now(p).call \in {"bind", "unlink"}
    /\ IF Now(p).domain = "AF_INET" THEN neighbours[p] # {}
       ELSE build[p] \in neighbours[p]

ConformingInv == fault \in Passing => \A p \in Procs : Own(p) /\ Blamed(p)

IInv == TypesInv /\ NeighboursInv /\ ConformingInv

-----------------------------------------------------------------------------
\* The order of the tests: the first list ...
LEMMA InetSuite ==
  /\ Len(Suite) = IF standalone THEN 5 ELSE 15
  /\ DOMAIN Suite = Tests
  /\ \A k \in 1..5 : Suite[k] = SocketTests("AF_INET")[k]
<1>1. /\ Suite[1] = SocketTests("AF_INET")[1]
      /\ Suite[2] = SocketTests("AF_INET")[2]
      /\ Suite[3] = SocketTests("AF_INET")[3]
      /\ Suite[4] = SocketTests("AF_INET")[4]
      /\ Suite[5] = SocketTests("AF_INET")[5]
  BY DEF Suite, test_inet_sockets, SocketTests, test_unix_sockets
<1>2. \A k \in 1..5 : k \in {1, 2, 3, 4, 5}
  OBVIOUS
<1>3. \A k \in 1..5 : Suite[k] = SocketTests("AF_INET")[k]
  BY <1>1, <1>2
<1>4. CASE standalone
  <2>1. Len(Suite) = 5 /\ DOMAIN Suite = 1..5
    BY <1>4 DEF Suite, test_inet_sockets, SocketTests
  <2>2. QED  BY <1>3, <1>4, <2>1 DEF Tests
<1>5. CASE ~standalone
  <2>1. Len(Suite) = 15
    BY <1>5 DEF Suite, test_inet_sockets, SocketTests, test_unix_sockets
  <2>2. DOMAIN Suite = 1..15
    BY <1>5 DEF Suite, test_inet_sockets, SocketTests, test_unix_sockets
  <2>3. QED  BY <1>3, <1>5, <2>1, <2>2 DEF Tests
<1>6. QED  BY <1>4, <1>5

\* ... and the second.
LEMMA UnixSuite ==
  ASSUME ~standalone
  PROVE  /\ Suite[6] = <<Call("clean_up", "AF_UNIX", "none")>>
         /\ \A k \in 1..5 : Suite[k + 6] = SocketTests("AF_UNIX")[k]
         /\ Suite[12] = test_create_socket_pair
         /\ Suite[13] = test_getpeername
         /\ Suite[14] = test_send_recv
         /\ Suite[15] = test_shutdown
<1> USE DEF Suite, test_inet_sockets, SocketTests, test_unix_sockets
<1>1. Suite[6] = <<Call("clean_up", "AF_UNIX", "none")>>  OBVIOUS
<1>2. Suite[7] = SocketTests("AF_UNIX")[1]  OBVIOUS
<1>3. Suite[8] = SocketTests("AF_UNIX")[2]  OBVIOUS
<1>4. Suite[9] = SocketTests("AF_UNIX")[3]  OBVIOUS
<1>5. Suite[10] = SocketTests("AF_UNIX")[4]  OBVIOUS
<1>6. Suite[11] = SocketTests("AF_UNIX")[5]  OBVIOUS
<1>7. Suite[12] = test_create_socket_pair  OBVIOUS
<1>8. Suite[13] = test_getpeername  OBVIOUS
<1>9. Suite[14] = test_send_recv  OBVIOUS
<1>10. Suite[15] = test_shutdown  OBVIOUS
<1> HIDE DEF Suite, test_inet_sockets, SocketTests, test_unix_sockets
<1>11. ASSUME NEW k \in 1..5
       PROVE  Suite[k + 6] = SocketTests("AF_UNIX")[k]
  <2>1. k \in {1, 2, 3, 4, 5}  OBVIOUS
  <2>2. QED  BY <2>1, <1>2, <1>3, <1>4, <1>5, <1>6
<1>12. QED  BY <1>1, <1>7, <1>8, <1>9, <1>10, <1>11

\* The tests of the pairs, call by call.
LEMMA PairScripts ==
  /\ LET calls == test_create_socket_pair
     IN  /\ DOMAIN calls = 1..3 /\ Len(calls) = 3
         /\ calls[1] = Call("socketpair", "AF_UNIX", "sockfds[0]")
         /\ calls[2] = Close("sockfds[0]") /\ calls[3] = Close("sockfds[1]")
  /\ LET calls == test_getpeername
     IN  /\ DOMAIN calls = 1..2 /\ Len(calls) = 2
         /\ calls[1] = Call("socketpair", "AF_UNIX", "sockfds[0]")
         /\ calls[2] = Call("getpeername", "AF_UNIX", "sockfds[0]")
  /\ LET calls == test_send_recv
     IN  /\ DOMAIN calls = 1..5 /\ Len(calls) = 5
         /\ calls[1] = Call("socketpair", "AF_UNIX", "sockfds[0]")
         /\ calls[2] = Call("write", "AF_UNIX", "sockfds[0]")
         /\ calls[3] = Call("read", "AF_UNIX", "sockfds[1]")
         /\ calls[4] = Close("sockfds[0]") /\ calls[5] = Close("sockfds[1]")
  /\ LET calls == test_shutdown
     IN  /\ DOMAIN calls = 1..5 /\ Len(calls) = 5
         /\ calls[1] = Call("socketpair", "AF_UNIX", "sockfds[0]")
         /\ calls[2] = Call("shutdown", "AF_UNIX", "sockfds[0]")
         /\ calls[3] = Call("shutdown", "AF_UNIX", "sockfds[1]")
         /\ calls[4] = Close("sockfds[0]") /\ calls[5] = Close("sockfds[1]")
<1> USE DEF new_socket_pair, ClosePair
<1>1. LET calls == test_create_socket_pair
      IN  /\ DOMAIN calls = 1..3 /\ Len(calls) = 3
          /\ calls[1] = Call("socketpair", "AF_UNIX", "sockfds[0]")
          /\ calls[2] = Close("sockfds[0]") /\ calls[3] = Close("sockfds[1]")
  BY DEF test_create_socket_pair
<1>2. LET calls == test_getpeername
      IN  /\ DOMAIN calls = 1..2 /\ Len(calls) = 2
          /\ calls[1] = Call("socketpair", "AF_UNIX", "sockfds[0]")
          /\ calls[2] = Call("getpeername", "AF_UNIX", "sockfds[0]")
  BY DEF test_getpeername
<1>3. LET calls == test_send_recv
      IN  /\ DOMAIN calls = 1..5 /\ Len(calls) = 5
          /\ calls[1] = Call("socketpair", "AF_UNIX", "sockfds[0]")
          /\ calls[2] = Call("write", "AF_UNIX", "sockfds[0]")
          /\ calls[3] = Call("read", "AF_UNIX", "sockfds[1]")
          /\ calls[4] = Close("sockfds[0]") /\ calls[5] = Close("sockfds[1]")
  BY DEF test_send_recv
<1>4. LET calls == test_shutdown
      IN  /\ DOMAIN calls = 1..5 /\ Len(calls) = 5
          /\ calls[1] = Call("socketpair", "AF_UNIX", "sockfds[0]")
          /\ calls[2] = Call("shutdown", "AF_UNIX", "sockfds[0]")
          /\ calls[3] = Call("shutdown", "AF_UNIX", "sockfds[1]")
          /\ calls[4] = Close("sockfds[0]") /\ calls[5] = Close("sockfds[1]")
  BY DEF test_shutdown
<1>5. QED  BY <1>1, <1>2, <1>3, <1>4

-----------------------------------------------------------------------------
\* Every call of the suite, by the test and the step at which it is made.
TheCall(t, s) ==
  LET c == Suite[t][s]
      socket == t \in SocketTestNos
      d == Family(t)
      k == Kind(t)
  IN  \/ socket /\ s = 1 /\ c = Call("socket", d, "sockfd")
      \/ socket /\ s = 2 /\ k # 1 /\ c = Call("bind", d, "sockfd")
      \/ socket /\ s = 3 /\ k \in {3, 5} /\ c = Call("listen", d, "sockfd")
      \/ socket /\ s = k - 1 /\ k \in {4, 5} /\ c = Call("getsockname", d, "sockfd")
      \/ socket /\ s = CloseAt(k) /\ c = Close("sockfd")
      \/ t \in 8..11 /\ s = CloseAt(k) + 1 /\ c = Call("unlink", d, "none")
      \/ t = 6 /\ s = 1 /\ c = Call("clean_up", "AF_UNIX", "none")
      \/ t \in 12..15 /\ s = 1 /\ c = Call("socketpair", "AF_UNIX", "sockfds[0]")
      \/ t = 13 /\ s = 2 /\ c = Call("getpeername", "AF_UNIX", "sockfds[0]")
      \/ t = 14 /\ s = 2 /\ c = Call("write", "AF_UNIX", "sockfds[0]")
      \/ t = 14 /\ s = 3 /\ c = Call("read", "AF_UNIX", "sockfds[1]")
      \/ t = 15 /\ s = 2 /\ c = Call("shutdown", "AF_UNIX", "sockfds[0]")
      \/ t = 15 /\ s = 3 /\ c = Call("shutdown", "AF_UNIX", "sockfds[1]")
      \/ t \in {12, 14, 15} /\ s = Length(t) - 1 /\ c = Close("sockfds[0]")
      \/ t \in {12, 14, 15} /\ s = Length(t) /\ c = Close("sockfds[1]")

\* The tests of common.c make the calls that TheCall lists, ...
LEMMA SocketCalls ==
  ASSUME NEW t \in SocketTestNos \cap Tests
  PROVE  /\ Len(Suite[t]) = Length(t) /\ DOMAIN Suite[t] = 1..Length(t)
         /\ \A s \in 1..Length(t) : TheCall(t, s)
<1>1. /\ Kind(t) \in 1..5 /\ Family(t) \in Domains
      /\ Suite[t] = SocketTests(Family(t))[Kind(t)]
  <2>1. CASE t \in InetTests
    BY <2>1, InetSuite DEF InetTests, Kind, Family, Domains
  <2>2. CASE t \notin InetTests
    <3>1. ~standalone /\ Kind(t) \in 1..5 /\ t = Kind(t) + 6
      BY <2>2 DEF SocketTestNos, InetTests, UnixTests, Tests, Kind
    <3>2. QED  BY <2>2, <3>1, UnixSuite DEF Family, Domains
  <2>3. QED  BY <2>1, <2>2
<1>2. /\ t \in InetTests <=> Family(t) # "AF_UNIX"
      /\ t \in 8..11 <=> Family(t) = "AF_UNIX" /\ Kind(t) # 1
  BY DEF SocketTestNos, InetTests, UnixTests, Kind, Family
<1>3. Len(Suite[t]) = Length(t) /\ DOMAIN Suite[t] = 1..Length(t)
  BY <1>1, <1>2, SocketScript DEF Length
<1>4. ASSUME NEW s \in 1..Length(t)
      PROVE  TheCall(t, s)
  <2> DEFINE d == Family(t)
             k == Kind(t)
             calls == Suite[t]
  <2>1. /\ calls[1] = Call("socket", d, "sockfd")
        /\ k # 1 => calls[2] = Call("bind", d, "sockfd")
        /\ k \in {3, 5} => calls[3] = Call("listen", d, "sockfd")
        /\ k = 4 => calls[3] = Call("getsockname", d, "sockfd")
        /\ k = 5 => calls[4] = Call("getsockname", d, "sockfd")
        /\ calls[CloseAt(k)] = Close("sockfd")
        /\ t \in 8..11 => calls[CloseAt(k) + 1] = Call("unlink", d, "none")
    BY <1>1, <1>2, SocketScript
  <2>2. \/ s = 1
        \/ s = 2 /\ k # 1
        \/ s = 3 /\ k \in {3, 5}
        \/ s = k - 1 /\ k \in {4, 5}
        \/ s = CloseAt(k)
        \/ t \in 8..11 /\ s = CloseAt(k) + 1
    BY <1>1 DEF Length, CloseAt
  <2> HIDE DEF d, k, calls
  <2>3. QED  BY <2>1, <2>2 DEF TheCall, d, k, calls
<1>5. QED  BY <1>3, <1>4

\* ... as do the clean-up between the two lists and the tests of the pairs, ...
LEMMA OtherCalls ==
  ASSUME NEW t \in Tests \ SocketTestNos
  PROVE  /\ Len(Suite[t]) = Length(t) /\ DOMAIN Suite[t] = 1..Length(t)
         /\ \A s \in 1..Length(t) : TheCall(t, s)
<1>1. ~standalone /\ t \in {6, 12, 13, 14, 15}
  BY DEF SocketTestNos, InetTests, UnixTests, Tests
<1>2. CASE t = 6
  BY <1>1, <1>2, UnixSuite DEF Length, SocketTestNos, InetTests, UnixTests, TheCall
<1>3. CASE t = 12
  BY <1>1, <1>3, UnixSuite, PairScripts
     DEF Length, SocketTestNos, InetTests, UnixTests, TheCall
<1>4. CASE t = 13
  BY <1>1, <1>4, UnixSuite, PairScripts
     DEF Length, SocketTestNos, InetTests, UnixTests, TheCall
<1>5. CASE t = 14
  BY <1>1, <1>5, UnixSuite, PairScripts
     DEF Length, SocketTestNos, InetTests, UnixTests, TheCall
<1>6. CASE t = 15
  BY <1>1, <1>6, UnixSuite, PairScripts
     DEF Length, SocketTestNos, InetTests, UnixTests, TheCall
<1>7. QED  BY <1>1, <1>2, <1>3, <1>4, <1>5, <1>6

\* ... which are all the tests there are.
LEMMA Script ==
  ASSUME NEW t \in Tests
  PROVE  /\ Len(Suite[t]) = Length(t) /\ DOMAIN Suite[t] = 1..Length(t)
         /\ \A s \in 1..Length(t) : TheCall(t, s)
  BY SocketCalls, OtherCalls

\* Where in the suite a call is made, and by which variable.
LEMMA Where ==
  ASSUME NEW t \in Tests, NEW s \in 1..Length(t)
  PROVE  LET c == Suite[t][s]
         IN  /\ c.call = "socket" => t \in SocketTestNos /\ s = 1 /\ c.handle = "sockfd"
             /\ c.call = "bind" =>
                  /\ t \in SocketTestNos /\ s = 2 /\ Kind(t) # 1
                  /\ c.handle = "sockfd" /\ c.domain = Family(t)
             /\ c.call = "listen" =>
                  /\ t \in SocketTestNos /\ s = 3 /\ Kind(t) \in {3, 5}
                  /\ c.handle = "sockfd"
             /\ c.call = "getsockname" =>
                  /\ t \in SocketTestNos /\ s = Kind(t) - 1 /\ Kind(t) \in {4, 5}
                  /\ c.handle = "sockfd" /\ c.domain = Family(t)
             /\ c.call = "close" =>
                  \/ t \in SocketTestNos /\ s = CloseAt(Kind(t)) /\ c.handle = "sockfd"
                  \/ /\ t \in {12, 14, 15} /\ s = Length(t) - 1
                     /\ c.handle = "sockfds[0]"
                  \/ t \in {12, 14, 15} /\ s = Length(t) /\ c.handle = "sockfds[1]"
             /\ c.call = "unlink" =>
                  t \in 8..11 /\ s = CloseAt(Kind(t)) + 1 /\ c.domain = "AF_UNIX"
             /\ c.call = "clean_up" => t = 6 /\ s = 1
             /\ c.call = "socketpair" => t \in 12..15 /\ s = 1
             /\ c.call = "getpeername" => t = 13 /\ s = 2 /\ c.handle = "sockfds[0]"
             /\ c.call = "write" => t = 14 /\ s = 2 /\ c.handle = "sockfds[0]"
             /\ c.call = "read" => t = 14 /\ s = 3 /\ c.handle = "sockfds[1]"
             /\ c.call = "shutdown" =>
                  \/ t = 15 /\ s = 2 /\ c.handle = "sockfds[0]"
                  \/ t = 15 /\ s = 3 /\ c.handle = "sockfds[1]"
<1> DEFINE c == Suite[t][s]
<1>1. TheCall(t, s)
  BY Script
<1> USE DEF TheCall, Call, Close
<1>2. c.call = "socket" => t \in SocketTestNos /\ s = 1 /\ c.handle = "sockfd"
  BY <1>1
<1>3. c.call = "bind" =>
        /\ t \in SocketTestNos /\ s = 2 /\ Kind(t) # 1
        /\ c.handle = "sockfd" /\ c.domain = Family(t)
  BY <1>1
<1>4. c.call = "listen" =>
        /\ t \in SocketTestNos /\ s = 3 /\ Kind(t) \in {3, 5}
        /\ c.handle = "sockfd"
  BY <1>1
<1>5. c.call = "getsockname" =>
        /\ t \in SocketTestNos /\ s = Kind(t) - 1 /\ Kind(t) \in {4, 5}
        /\ c.handle = "sockfd" /\ c.domain = Family(t)
  BY <1>1
<1>6. c.call = "close" =>
        \/ t \in SocketTestNos /\ s = CloseAt(Kind(t)) /\ c.handle = "sockfd"
        \/ /\ t \in {12, 14, 15} /\ s = Length(t) - 1
           /\ c.handle = "sockfds[0]"
        \/ t \in {12, 14, 15} /\ s = Length(t) /\ c.handle = "sockfds[1]"
  <2> SUFFICES ASSUME c.call = "close"
               PROVE  \/ t \in SocketTestNos /\ s = CloseAt(Kind(t)) /\ c.handle = "sockfd"
                      \/ /\ t \in {12, 14, 15} /\ s = Length(t) - 1
                         /\ c.handle = "sockfds[0]"
                      \/ /\ t \in {12, 14, 15} /\ s = Length(t)
                         /\ c.handle = "sockfds[1]"
    OBVIOUS
  <2>1. \/ t \in SocketTestNos /\ s = CloseAt(Kind(t)) /\ c = Close("sockfd")
        \/ t \in {12, 14, 15} /\ s = Length(t) - 1 /\ c = Close("sockfds[0]")
        \/ t \in {12, 14, 15} /\ s = Length(t) /\ c = Close("sockfds[1]")
    BY <1>1
  <2>2. QED  BY <2>1
<1>7. c.call = "unlink" =>
        t \in 8..11 /\ s = CloseAt(Kind(t)) + 1 /\ c.domain = "AF_UNIX"
  BY <1>1 DEF Family, InetTests
<1>8. c.call = "clean_up" => t = 6 /\ s = 1
  BY <1>1
<1>9. c.call = "socketpair" => t \in 12..15 /\ s = 1
  BY <1>1
<1>10. c.call = "getpeername" => t = 13 /\ s = 2 /\ c.handle = "sockfds[0]"
  BY <1>1
<1>11. c.call = "write" => t = 14 /\ s = 2 /\ c.handle = "sockfds[0]"
  BY <1>1
<1>12. c.call = "read" => t = 14 /\ s = 3 /\ c.handle = "sockfds[1]"
  BY <1>1
<1>13. c.call = "shutdown" =>
        \/ t = 15 /\ s = 2 /\ c.handle = "sockfds[0]"
        \/ t = 15 /\ s = 3 /\ c.handle = "sockfds[1]"
  BY <1>1
<1>14. QED  BY <1>2, <1>3, <1>4, <1>5, <1>6, <1>7, <1>8, <1>9, <1>10, <1>11, <1>12, <1>13

\* The step after step i of n, by the remainder that GoOn takes.
LEMMA Wrap ==
  ASSUME NEW n \in 1..6, NEW i \in 1..n
  PROVE  (i % n) + 1 = IF i < n THEN i + 1 ELSE 1
<1>1. CASE i < n
  <2>1. \/ n = 2 \/ n = 3 \/ n = 4 \/ n = 5 \/ n = 6
    BY <1>1
  <2>2. i % n = i
    BY <1>1, <2>1
  <2>3. QED  BY <1>1, <2>2
<1>2. CASE i = n
  <2>1. \/ n = 1 \/ n = 2 \/ n = 3 \/ n = 4 \/ n = 5 \/ n = 6
    OBVIOUS
  <2>2. i % n = 0
    BY <1>2, <2>1
  <2>3. QED  BY <1>2, <2>2
<1>3. QED  BY <1>1, <1>2

\* Kinds and lengths are small numbers.
LEMMA Lengths ==
  ASSUME NEW t \in Tests
  PROVE  /\ t \in 1..15 /\ t \in Nat /\ Length(t) \in 1..6
         /\ t \in SocketTestNos => Kind(t) \in 1..5 /\ CloseAt(Kind(t)) \in 2..5
  BY DEF Tests, Length, SocketTestNos, InetTests, UnixTests, Kind, CloseAt

\* The tests of common.c by number: the kinds, the steps they close at, and
\* which of them have a file to unlink.
LEMMA SocketLengths ==
  ASSUME NEW t \in Tests, t \in SocketTestNos
  PROVE  /\ t \in 1..11 /\ t # 6
         /\ t \in InetTests <=> t <= 5
         /\ Kind(t) \in 1..5
         /\ CloseAt(Kind(t)) \in 2..5 /\ (CloseAt(Kind(t)) = 2 <=> Kind(t) = 1)
         /\ Kind(t) \in {3, 5} => CloseAt(Kind(t)) > 3
         /\ Kind(t) \in {4, 5} => CloseAt(Kind(t)) = Kind(t)
         /\ t \in 8..11 <=> t > 5 /\ Kind(t) # 1
         /\ Length(t) = CloseAt(Kind(t)) + IF t \in 8..11 THEN 1 ELSE 0
  BY DEF Length, SocketTestNos, InetTests, UnixTests, Kind, CloseAt

-----------------------------------------------------------------------------
\* What a variable can hold.
Sockets == [role : Roles, name : Names, in : Nat]

\* GoOn() leads to the next call, or ends main().
LEMMA Progress ==
  ASSUME TypesInv, NEW p \in Procs, GoOn(p), status[p] = "running"
  PROVE  LET t == test[p]
             s == step[p]
         IN  /\ IF Last(t, s)
                THEN /\ status' = [status EXCEPT ![p] = "ok"]
                     /\ test' = test /\ step' = step
                ELSE /\ status' = status
                     /\ test' = [test EXCEPT ![p] = NextTest(t, s)]
                     /\ step' = [step EXCEPT ![p] = NextStep(t, s)]
                     /\ NextTest(t, s) \in Tests
                     /\ NextStep(t, s) \in 1..Length(NextTest(t, s))
             /\ UNCHANGED <<world, build, starts, neighbours>>
<1> DEFINE t == test[p]
           s == step[p]
<1>1. /\ t \in Tests /\ s \in 1..Length(t) /\ Length(t) \in 1..6 /\ t \in 1..15
      /\ Len(Suite[t]) = Length(t)
      /\ Len(Suite) = IF standalone THEN 5 ELSE 15
  BY Script, InetSuite, Lengths DEF TypesInv
<1>2. (t = Len(Suite) /\ s = Len(Suite[t])) <=> Last(t, s)
  BY <1>1 DEF Last
<1>3. CASE Last(t, s)
  <2>1. status' = [status EXCEPT ![p] = "ok"] /\ test' = [test EXCEPT ![p] = @]
          /\ step' = [step EXCEPT ![p] = @]
    BY <1>2, <1>3 DEF GoOn
  <2>2. QED  BY <1>3, <2>1 DEF GoOn, TypesInv
<1>4. CASE ~Last(t, s)
  <2>1. /\ status' = [status EXCEPT ![p] = @]
        /\ step' = [step EXCEPT ![p] = (@ % Length(t)) + 1]
        /\ test' = [test EXCEPT ![p] = IF s < Length(t) THEN @ ELSE @ + 1]
    BY <1>1, <1>2, <1>4 DEF GoOn
  <2>2. (s % Length(t)) + 1 = NextStep(t, s)
    BY <1>1, Wrap DEF NextStep
  <2>3. /\ NextTest(t, s) \in Tests
        /\ NextStep(t, s) \in 1..Length(NextTest(t, s))
    <3>1. NextTest(t, s) \in Tests
      BY <1>1, <1>4 DEF NextTest, Last, Tests
    <3>2. Length(NextTest(t, s)) \in 1..6
      BY <3>1, Lengths
    <3>3. QED  BY <1>1, <3>1, <3>2 DEF NextTest, NextStep
  <2>4. test' = [test EXCEPT ![p] = NextTest(t, s)]
    BY <2>1 DEF NextTest
  <2>5. step' = [step EXCEPT ![p] = NextStep(t, s)]
    BY <2>1, <2>2
  <2>6. status' = status
    BY <2>1 DEF TypesInv
  <2>7. QED  BY <1>4, <2>3, <2>4, <2>5, <2>6 DEF GoOn
<1>5. QED  BY <1>3, <1>4

-----------------------------------------------------------------------------
\* What a call of p leaves alone: the other processes and their addresses.
Effect(p) ==
  /\ fds' \in [Procs -> [Handles -> Sockets]] /\ lost' \in [Procs -> Nat]
  /\ port' \subseteq Procs /\ files' \subseteq SEED
  /\ \A q \in Procs \ {p} :
       fds'[q] = fds[q] /\ lost'[q] = lost[q] /\ (q \in port' <=> q \in port)
  /\ \A b \in SEED \ {build[p]} : b \in files' <=> b \in files

\* What the calls make of a socket is a socket.
LEMMA SocketTypes ==
  /\ Closed \in Sockets
  /\ \A r \in Roles : SocketOf(r) \in Sockets
  /\ \A k \in Sockets : /\ k.role \in Roles /\ k.name \in Names /\ k.in \in Nat
                        /\ \A r \in Roles : [k EXCEPT !.role = r] \in Sockets
                        /\ \A n \in Names : [k EXCEPT !.name = n] \in Sockets
                        /\ \A i \in Nat : [k EXCEPT !.in = i] \in Sockets
  BY DEF Closed, SocketOf, Sockets, Roles, Names

\* The number of some of the variables is a number.
LEMMA PairCard ==
  ASSUME NEW S \in SUBSET Handles
  PROVE  IsFiniteSet(S) /\ Cardinality(S) \in Nat
<1>1. IsFiniteSet(Handles)
  <2>1. IsFiniteSet({"sockfd"})
    BY FS_Singleton
  <2>2. IsFiniteSet({"sockfd"} \cup {"sockfds[0]"})
    BY <2>1, FS_AddElement
  <2>3. IsFiniteSet(({"sockfd"} \cup {"sockfds[0]"}) \cup {"sockfds[1]"})
    BY <2>2, FS_AddElement
  <2>4. Handles = ({"sockfd"} \cup {"sockfds[0]"}) \cup {"sockfds[1]"}
    BY DEF Handles
  <2>5. QED  BY <2>3, <2>4
<1>2. QED  BY <1>1, FS_Subset, FS_CardinalityType

\* Set() gives one variable of p another socket, and leaves the others.
LEMMA SetTypes ==
  ASSUME TypesInv, NEW p \in Procs, NEW h \in Handles, NEW k \in Sockets, Set(p, h, k)
  PROVE  /\ fds' \in [Procs -> [Handles -> Sockets]]
         /\ \A q \in Procs \ {p} : fds'[q] = fds[q]
         /\ fds'[p][h] = k
         /\ \A i \in Handles \ {h} : fds'[p][i] = fds[p][i]
<1>1. fds \in [Procs -> [Handles -> Sockets]]
  BY DEF TypesInv, Sockets
<1>2. QED  BY <1>1 DEF Set

\* A call ends the process, or goes on with a change to what is its own,
\* whatever the fault of the library.
LEMMA CallEffects ==
  ASSUME TypesInv, NEW p \in Procs, SysCall(p)
  PROVE  EndProcess(p, "aborted") \/ (GoOn(p) /\ Effect(p))
<1> DEFINE c == Suite[test[p]][step[p]]
<1>0. /\ fds \in [Procs -> [Handles -> Sockets]] /\ lost \in [Procs -> Nat]
      /\ port \subseteq Procs /\ files \subseteq SEED
      /\ build[p] \in SEED /\ test[p] \in Tests /\ step[p] \in 1..Length(test[p])
      /\ \A h \in Handles : fds[p][h] \in Sockets
  BY DEF TypesInv, Sockets
<1>a. \A h \in Pair : h \in Handles /\ Other(h) \in Pair
  BY DEF Pair, Handles, Other
<1>b. "sockfd" \in Handles
  BY DEF Handles
<1>1. ASSUME SysSocket(p), ~EndProcess(p, "aborted")
      PROVE  GoOn(p) /\ Effect(p)
  <2>1. /\ GoOn(p) /\ Set(p, "sockfd", SocketOf("unbound"))
        /\ UNCHANGED <<lost, port, files>>
    BY <1>1 DEF SysSocket, Assert, host
  <2>2. SocketOf("unbound") \in Sockets
    BY SocketTypes DEF Roles
  <2>3. QED  BY <1>0, <1>b, <2>1, <2>2, SetTypes DEF Effect
<1>2. ASSUME SysBind(p), ~EndProcess(p, "aborted")
      PROVE  GoOn(p) /\ Effect(p)
  <2>1. c.call = "bind" /\ c.handle = "sockfd" /\ c.domain \in Domains
    BY <1>0, <1>2, Where DEF SysBind, At, Now, Domains, Family
  <2>2. Addr(p) \in Names
    BY <1>0, <2>1 DEF Addr, Names, Now
  <2>3. [Socket(p) EXCEPT !.role = "bound", !.name = Addr(p)] \in Sockets
    <3>1. Socket(p) \in Sockets
      BY <1>0, <1>b, <2>1 DEF Socket, Now
    <3>2. QED  BY <2>2, <3>1 DEF Sockets, Roles
  <2>4. CASE fault = "bind_none"
    <3>1. GoOn(p) /\ UNCHANGED <<fds, lost, port, files>>
      BY <1>2, <2>4 DEF SysBind, Assert, host
    <3>2. QED  BY <1>0, <3>1 DEF Effect
  <2>5. CASE fault # "bind_none"
    <3>1. /\ GoOn(p) /\ UNCHANGED lost
          /\ Set(p, "sockfd", [Socket(p) EXCEPT !.role = "bound", !.name = Addr(p)])
          /\ \/ port' = port \cup {p} /\ files' = files
             \/ port' = port /\ files' \in {files, files \cup {build[p]}}
      BY <1>2, <2>5 DEF SysBind, Assert
    <3>2. /\ port' \subseteq Procs /\ files' \subseteq SEED
          /\ \A q \in Procs \ {p} : q \in port' <=> q \in port
          /\ \A b \in SEED \ {build[p]} : b \in files' <=> b \in files
      BY <1>0, <3>1
    <3>3. QED  BY <1>0, <1>b, <2>3, <3>1, <3>2, SetTypes DEF Effect
  <2>6. QED  BY <2>4, <2>5
<1>3. ASSUME SysListen(p), ~EndProcess(p, "aborted")
      PROVE  GoOn(p) /\ Effect(p)
  <2>1. c.call = "listen" /\ c.handle = "sockfd"
    BY <1>0, <1>3, Where DEF SysListen, At, Now
  <2>2. Socket(p) \in Sockets
    BY <1>0, <1>b, <2>1 DEF Socket, Now
  <2> DEFINE new == IF fault = "listen_none" THEN Socket(p)
                    ELSE [Socket(p) EXCEPT !.role = "listening",
                            !.name = IF fault = "listen_unbinds" THEN "none" ELSE @]
  <2>3. new \in Sockets
    BY <2>2 DEF Sockets, Roles, Names
  <2>4. GoOn(p) /\ Set(p, "sockfd", new) /\ UNCHANGED <<lost, port, files>>
    BY <1>3 DEF SysListen, Assert, host
  <2> HIDE DEF new
  <2>5. QED  BY <1>0, <1>b, <2>3, <2>4, SetTypes DEF Effect
<1>4. ASSUME SysGetsockname(p), ~EndProcess(p, "aborted")
      PROVE  GoOn(p) /\ Effect(p)
  <2>1. GoOn(p) /\ UNCHANGED <<fds, lost, port, files>>
    BY <1>4 DEF SysGetsockname, Assert, host
  <2>2. QED  BY <1>0, <2>1 DEF Effect
<1>5. ASSUME SysClose(p), ~EndProcess(p, "aborted")
      PROVE  GoOn(p) /\ Effect(p)
  <2>1. c.call = "close" /\ c.handle \in Handles
    BY <1>0, <1>5, Where DEF SysClose, At, Now, Handles
  <2>2. /\ GoOn(p) /\ Set(p, c.handle, Closed) /\ UNCHANGED files
        /\ lost' \in {lost, [lost EXCEPT ![p] = @ + 1]}
        /\ port' \in {port, port \ {p}}
    BY <1>0, <1>5 DEF SysClose, Assert, Now
  <2>3. /\ port' \subseteq Procs /\ lost' \in [Procs -> Nat]
        /\ \A q \in Procs \ {p} : lost'[q] = lost[q] /\ (q \in port' <=> q \in port)
    BY <1>0, <2>2
  <2>4. QED  BY <1>0, <2>1, <2>2, <2>3, SetTypes, SocketTypes DEF Effect
<1>6. ASSUME SysUnlink(p) \/ CleanUp(p), ~EndProcess(p, "aborted")
      PROVE  GoOn(p) /\ Effect(p)
  <2>1. /\ GoOn(p) /\ UNCHANGED <<fds, lost, port>>
        /\ files' \in {files, files \ {build[p]}}
    BY <1>6 DEF SysUnlink, CleanUp, Assert
  <2>2. /\ files' \subseteq SEED
        /\ \A b \in SEED \ {build[p]} : b \in files' <=> b \in files
    BY <1>0, <2>1
  <2>3. QED  BY <1>0, <2>1, <2>2 DEF Effect
<1>7. ASSUME SysSocketpair(p), ~EndProcess(p, "aborted")
      PROVE  GoOn(p) /\ Effect(p)
  <2> DEFINE role == IF fault = "pair_unconnected" THEN "unbound" ELSE "connected"
             gone == Cardinality({h \in Pair : fds[p][h] # Closed})
             new == [h \in Handles |-> IF h \in Pair THEN SocketOf(role) ELSE fds[p][h]]
  <2>1. /\ GoOn(p) /\ UNCHANGED <<port, files>>
        /\ fds' = [fds EXCEPT ![p] = new]
        /\ lost' = [lost EXCEPT ![p] = @ + gone]
    BY <1>0, <1>7 DEF SysSocketpair, Assert, host
  <2>2. new \in [Handles -> Sockets]
    BY <1>0, SocketTypes DEF Roles
  <2>3. gone \in Nat
    BY <1>a, PairCard
  <2> HIDE DEF new, gone
  <2>4. QED  BY <1>0, <2>1, <2>2, <2>3 DEF Effect
<1>8. ASSUME SysGetpeername(p), ~EndProcess(p, "aborted")
      PROVE  GoOn(p) /\ Effect(p)
  <2>1. GoOn(p) /\ UNCHANGED <<fds, lost, port, files>>
    BY <1>8 DEF SysGetpeername, Assert, host
  <2>2. QED  BY <1>0, <2>1 DEF Effect
<1>9. ASSUME SysWrite(p), ~EndProcess(p, "aborted")
      PROVE  GoOn(p) /\ Effect(p)
  <2> DEFINE other == Other(c.handle)
             n == IF fault = "send_drops" THEN 0
                  ELSE IF fault = "recv_short" THEN Message - 1 ELSE Message
             new == [fds[p][other] EXCEPT !.in = n]
  <2>1. c.call = "write" /\ c.handle \in Pair
    BY <1>0, <1>9, Where DEF SysWrite, At, Now, Pair
  <2>2. n \in Nat
    BY DEF Message
  <2>3. GoOn(p) /\ Set(p, other, new) /\ UNCHANGED <<lost, port, files>>
    BY <1>9 DEF SysWrite, Assert, host, Now
  <2> HIDE DEF n
  <2>4. other \in Handles /\ new \in Sockets
    BY <1>0, <1>a, <2>1, <2>2, SocketTypes
  <2> HIDE DEF other, new
  <2>5. QED  BY <1>0, <2>3, <2>4, SetTypes DEF Effect
<1>10. ASSUME SysRead(p), ~EndProcess(p, "aborted")
       PROVE  GoOn(p) /\ Effect(p)
  <2>1. c.call = "read" /\ c.handle \in Handles
    BY <1>0, <1>10, Where DEF SysRead, At, Now, Handles
  <2> DEFINE new == [fds[p][c.handle] EXCEPT !.in = 0]
  <2>2. GoOn(p) /\ Set(p, c.handle, new) /\ UNCHANGED <<lost, port, files>>
    BY <1>10 DEF SysRead, Assert, host, Socket, Now
  <2>3. new \in Sockets
    BY <1>0, <2>1, SocketTypes
  <2> HIDE DEF new
  <2>4. QED  BY <1>0, <2>1, <2>2, <2>3, SetTypes DEF Effect
<1>11. ASSUME SysShutdown(p), ~EndProcess(p, "aborted")
       PROVE  GoOn(p) /\ Effect(p)
  <2>1. c.call = "shutdown" /\ c.handle \in Handles
    BY <1>0, <1>11, Where DEF SysShutdown, At, Now, Handles
  <2> DEFINE new == IF fault = "shutdown_none" THEN fds[p][c.handle]
                    ELSE IF fault = "shutdown_closes" THEN Closed
                    ELSE [fds[p][c.handle] EXCEPT !.role = "shut"]
  <2>2. GoOn(p) /\ Set(p, c.handle, new) /\ UNCHANGED <<lost, port, files>>
    BY <1>11 DEF SysShutdown, Assert, host, Socket, Now
  <2>3. new \in Sockets
    BY <1>0, <2>1, SocketTypes DEF Roles
  <2> HIDE DEF new
  <2>4. QED  BY <1>0, <2>1, <2>2, <2>3, SetTypes DEF Effect
<1>12. QED
  BY <1>1, <1>2, <1>3, <1>4, <1>5, <1>6, <1>7, <1>8, <1>9, <1>10, <1>11 DEF SysCall

-----------------------------------------------------------------------------
\* A step of p changes nothing of the others, nor of the files of their builds.
Frame(p) ==
  /\ UNCHANGED <<world, build, neighbours>>
  /\ \A q \in Procs \ {p} :
       /\ fds'[q] = fds[q] /\ lost'[q] = lost[q] /\ (q \in port' <=> q \in port)
       /\ test'[q] = test[q] /\ step'[q] = step[q] /\ status'[q] = status[q]
  /\ \A b \in SEED \ {build[p]} : b \in files' <=> b \in files

\* The end of a process changes what is its own.
LEMMA EndStep ==
  ASSUME TypesInv, NEW p \in Procs, NEW how \in {"aborted", "killed"},
         EndProcess(p, how)
  PROVE  TypesInv' /\ Frame(p)
<1>1. /\ [h \in Handles |-> Closed] \in [Handles -> Sockets]
      /\ fds \in [Procs -> [Handles -> Sockets]]
  BY SocketTypes DEF TypesInv, Sockets
<1>2. fds' \in [Procs -> [Handles -> Sockets]]
  BY <1>1 DEF EndProcess
<1>3. Tests' = Tests
  BY DEF EndProcess, world, Tests
<1>4. lost' \in [Procs -> Nat]
  BY DEF EndProcess, TypesInv
<1>5. status' \in [Procs -> {"idle", "running", "ok", "aborted", "killed"}]
  BY DEF EndProcess, TypesInv
<1>6. TypesInv'
  BY <1>2, <1>3, <1>4, <1>5 DEF EndProcess, TypesInv, world, Sockets
<1>7. Frame(p)
  BY <1>1 DEF Frame, EndProcess, TypesInv, world
<1>8. QED  BY <1>6, <1>7

\* So does going on to the next call, which is one of the suite.
LEMMA GoOnStep ==
  ASSUME TypesInv, NEW p \in Procs, status[p] = "running", GoOn(p), Effect(p)
  PROVE  TypesInv' /\ Frame(p)
<1> DEFINE t == test[p]
           s == step[p]
<1>1. /\ test' = IF Last(t, s) THEN test ELSE [test EXCEPT ![p] = NextTest(t, s)]
      /\ step' = IF Last(t, s) THEN step ELSE [step EXCEPT ![p] = NextStep(t, s)]
      /\ status' \in {status, [status EXCEPT ![p] = "ok"]}
      /\ ~Last(t, s) => /\ NextTest(t, s) \in Tests
                        /\ NextStep(t, s) \in 1..Length(NextTest(t, s))
      /\ UNCHANGED <<world, build, starts, neighbours>>
  BY Progress
<1>2. Tests' = Tests /\ Tests \subseteq Nat
  BY <1>1 DEF world, Tests
<1>3. status' \in [Procs -> {"idle", "running", "ok", "aborted", "killed"}]
  BY <1>1 DEF TypesInv
<1>4. /\ test' \in [Procs -> Nat] /\ step' \in [Procs -> Nat]
      /\ \A q \in Procs : test'[q] \in Tests /\ step'[q] \in 1..Length(test'[q])
      /\ \A q \in Procs \ {p} : test'[q] = test[q] /\ step'[q] = step[q]
  <2>1. CASE Last(t, s)
    BY <1>1, <2>1 DEF TypesInv
  <2>2. CASE ~Last(t, s)
    <3>1. /\ test \in [Procs -> Nat] /\ step \in [Procs -> Nat]
          /\ \A q \in Procs : test[q] \in Tests /\ step[q] \in 1..Length(test[q])
      BY DEF TypesInv
    <3>2. NextTest(t, s) \in Nat /\ NextStep(t, s) \in Nat
      <4>1. NextTest(t, s) \in Tests /\ NextStep(t, s) \in 1..Length(NextTest(t, s))
        BY <1>1, <2>2
      <4>2. NextTest(t, s) \in Nat /\ Length(NextTest(t, s)) \in 1..6
        BY <4>1, Lengths
      <4>3. QED  BY <4>1, <4>2
    <3>3. test'[p] = NextTest(t, s) /\ step'[p] = NextStep(t, s)
      BY <1>1, <2>2, <3>1
    <3>4. \A q \in Procs \ {p} : test'[q] = test[q] /\ step'[q] = step[q]
      BY <1>1, <2>2, <3>1
    <3>5. test' \in [Procs -> Nat] /\ step' \in [Procs -> Nat]
      BY <1>1, <2>2, <3>1, <3>2
    <3>6. QED  BY <1>1, <2>2, <3>1, <3>3, <3>4, <3>5
  <2>3. QED  BY <2>1, <2>2
<1>5. TypesInv'
  BY <1>1, <1>2, <1>3, <1>4 DEF TypesInv, Effect, Sockets, world
<1>6. \A q \in Procs \ {p} : status'[q] = status[q]
  BY <1>1 DEF TypesInv
<1>7. Frame(p)
  BY <1>1, <1>4, <1>6 DEF Frame, Effect
<1>8. QED  BY <1>5, <1>7

\* What a close() loses, and no other call but socketpair(), which loses the
\* pair that it overwrites.
LostByClose == IF Leaks THEN 1 ELSE 0

LEMMA SocketLosses ==
  ASSUME NEW t \in Tests, t \in SocketTestNos, NEW s \in 1..Length(t)
  PROVE  /\ LostAt(t, s) \in Nat
         /\ LostAt(t, 1) < IF ~Leaks THEN 1 ELSE IF t \in 1..5 THEN 5 ELSE 18
         /\ s < CloseAt(Kind(t)) => LostAt(t, s + 1) = LostAt(t, s)
         /\ s = CloseAt(Kind(t)) =>
              LET n == IF t \in 8..11 THEN LostAt(t, s + 1) ELSE LostAt(t + 1, 1)
              IN  n = LostAt(t, s) + LostByClose
         /\ s > CloseAt(Kind(t)) => LostAt(t + 1, 1) = LostAt(t, s)
<1>1. /\ t \in 1..11 /\ t # 6 /\ s \in Nat /\ CloseAt(Kind(t)) \in 2..5
      /\ Length(t) = CloseAt(Kind(t)) + IF t \in 8..11 THEN 1 ELSE 0
      /\ t \in 7..10 => CloseAt(Kind(t + 1)) \in 2..5
  <2>1. t \in 7..10 => t + 1 \in Tests
    BY DEF Tests
  <2>2. t \in 7..10 => t + 1 \in SocketTestNos
    BY DEF SocketTestNos, UnixTests
  <2>3. t \in 7..10 => CloseAt(Kind(t + 1)) \in 2..5
    BY <2>1, <2>2, Lengths
  <2>4. QED  BY <2>3, SocketLengths
<1>2. CASE ~Leaks
  BY <1>1, <1>2 DEF LostAt, Overwritten, LostByClose
<1>3. CASE Leaks
  <2>1. \A i \in {s, s + 1} :
          LostAt(t, i) = IF t <= 5 THEN t - 1
                         ELSE t - 2 + IF i > CloseAt(Kind(t)) THEN 1 ELSE 0
    BY <1>1, <1>3 DEF LostAt, Overwritten, ClosedBefore, InetTests, UnixTests
  <2>2. LostAt(t, 1) = IF t <= 5 THEN t - 1 ELSE t - 2
    BY <1>1, <1>3 DEF LostAt, Overwritten, ClosedBefore, InetTests, UnixTests
  <2>3. LostAt(t + 1, 1) = IF t <= 5 THEN t ELSE t - 1
    BY <1>1, <1>3 DEF LostAt, Overwritten, ClosedBefore, InetTests, UnixTests
  <2>4. LostByClose = 1
    BY <1>3 DEF LostByClose
  <2>5. QED  BY <1>1, <1>3, <2>1, <2>2, <2>3, <2>4
<1>4. QED  BY <1>2, <1>3

LEMMA PairLosses ==
  ASSUME NEW t \in {6, 12, 13, 14, 15}, NEW s \in 1..6
  PROVE  /\ LostAt(t, s) \in Nat
         /\ t = 6 => LostAt(7, 1) = LostAt(6, 1)
         /\ t # 6 => /\ LostAt(t, 2) = LostAt(t, 1) + IF t = 14 THEN 2 ELSE 0
                     /\ LostAt(t, 1) + (IF t = 14 THEN 4 ELSE 2)
                          <= IF Leaks THEN 18 ELSE 4
         /\ t = 13 => LostAt(14, 1) = LostAt(13, 2)
         /\ t \in {14, 15} /\ s \in {2, 3} => LostAt(t, s + 1) = LostAt(t, s)
         /\ (t = 12 /\ s = 2) \/ (t \in {14, 15} /\ s = 4) =>
              LostAt(t, s + 1) = LostAt(t, s) + LostByClose
         /\ (t = 12 /\ s = 3) \/ (t = 14 /\ s = 5) =>
              LostAt(t + 1, 1) = LostAt(t, s) + LostByClose
<1>1. t \notin InetTests /\ t \notin UnixTests
  BY DEF InetTests, UnixTests
<1>2. CASE ~Leaks
  BY <1>2 DEF LostAt, Overwritten, LostByClose
<1>3. CASE Leaks
  <2>1. t # 6 =>
          \A i \in {1, 2, s, s + 1} : LostAt(t, i) =
             (IF t = 15 \/ (t = 14 /\ 1 < i) THEN 2 ELSE 0)
             + (IF t = 12 THEN 10 ELSE IF t = 15 THEN 14 ELSE 12)
             + IF (t = 12 /\ i = 3) \/ (t \in {14, 15} /\ i = 5) THEN 1 ELSE 0
    BY <1>1, <1>3 DEF LostAt, Overwritten, ClosedBefore
  <2>2. t = 6 => LostAt(t, s) = 5 /\ LostAt(6, 1) = 5
    BY <1>1, <1>3 DEF LostAt, Overwritten, ClosedBefore
  <2>3. /\ LostAt(7, 1) = 5 /\ LostAt(13, 1) = 12 /\ LostAt(14, 1) = 12
        /\ LostAt(13, 2) = 12 /\ LostAt(15, 1) = 16
    BY <1>3 DEF Kind, CloseAt, LostAt, Overwritten, ClosedBefore, InetTests, UnixTests
  <2>4. LostByClose = 1
    BY <1>3 DEF LostByClose
  <2>5. t = 6 \/ t = 12 \/ t = 13 \/ t = 14 \/ t = 15
    OBVIOUS
  <2>6. QED  BY <1>3, <2>1, <2>2, <2>3, <2>4, <2>5
<1>4. QED  BY <1>2, <1>3

\* The loss the next position tells.
LEMMA LossNext ==
  ASSUME NEW p \in Procs, fault' = fault
  PROVE  LostAt(test[p], step[p])' = LostAt(test'[p], step'[p])
  BY DEF LostAt, Overwritten, Leaks, ClosedBefore

\* The others keep what they have: a neighbour of the same build is known.
LEMMA OthersKeep ==
  ASSUME IInv, NEW p \in Procs, status[p] = "running", Frame(p)
  PROVE  /\ \A q \in Procs \ {p} : fault \in Passing => Own(q)' /\ Blamed(q)'
         /\ NeighboursInv'
<1> USE DEF IInv
<1>1. build \in [Procs -> SEED]
  BY DEF TypesInv
<1>2. ASSUME NEW q \in Procs, q # p, fault \in Passing
      PROVE  Own(q)' /\ Blamed(q)'
  <2>1. /\ fds'[q] = fds[q] /\ lost'[q] = lost[q] /\ (q \in port' <=> q \in port)
        /\ test'[q] = test[q] /\ step'[q] = step[q] /\ status'[q] = status[q]
        /\ build'[q] = build[q] /\ neighbours'[q] = neighbours[q]
        /\ UNCHANGED <<fault, standalone, limit>>
    BY <1>2 DEF Frame, world
  <2>2. Own(q) /\ Blamed(q)
    BY <1>2 DEF ConformingInv
  <2>3. EndedInv(q)'
    BY <2>1, <2>2 DEF Own, EndedInv
  <2>4. SocketInv(q)'
    BY <2>1, <2>2 DEF Own, SocketInv
  <2>5. PairInv(q)'
    <3>1. LostAt(test[q], step[q])' = LostAt(test[q], step[q])
      BY <2>1, LossNext
    <3>2. QED  BY <2>1, <2>2, <3>1 DEF Own, PairInv
  <2>6. FileInv(q)'
    <3> SUFFICES ASSUME status[q] = "running", build[q] \notin neighbours[q]
                 PROVE  FileInv(q)'
      BY <2>1 DEF FileInv
    <3>1. build[p] # build[q]
      BY <1>2 DEF NeighboursInv
    <3>2. build[q] \in files' <=> build[q] \in files
      BY <1>1, <3>1 DEF Frame
    <3>3. QED  BY <2>1, <2>2, <3>2 DEF Own, FileInv
  <2>7. Now(q)' = Now(q)
    BY <2>1 DEF Now, Suite
  <2>8. Blamed(q)'
    BY <2>1, <2>2, <2>7 DEF Blamed, Enough, Leaks, Needed, Made
  <2>9. QED  BY <2>3, <2>4, <2>5, <2>6, <2>8 DEF Own
<1>3. NeighboursInv'
  <2>1. \A q \in Procs : status'[q] = "running" => status[q] = "running"
    BY DEF Frame
  <2>2. QED  BY <2>1 DEF NeighboursInv, Frame
<1>4. QED  BY <1>2, <1>3

-----------------------------------------------------------------------------
\* What a process holds at a position, told test by test.
LEMMA Holdings ==
  ASSUME NEW t \in 1..15, NEW s \in 1..6
  PROVE  /\ t \in 1..11 => Held(t, s) = {}
         /\ t \in 12..13 /\ s = 1 => Held(t, s) = {}
         /\ t = 15 /\ s = 1 => Held(t, s) = {}
         /\ t = 14 /\ s = 1 => Held(t, s) = Pair
         /\ t \in 12..15 /\ s = 2 => Held(t, s) = Pair
         /\ t \in 14..15 /\ s \in 3..4 => Held(t, s) = Pair
         /\ t = 12 /\ s = 3 => Held(t, s) = {"sockfds[1]"}
         /\ t \in 14..15 /\ s = 5 => Held(t, s) = {"sockfds[1]"}
         /\ t \notin SocketTestNos => ~Opened(t, s) /\ ~Bound(t, s) /\ ~Filed(t, s)
         /\ s = 1 => ~Opened(t, s) /\ ~Bound(t, s) /\ ~Filed(t, s)
         /\ s = 2 => ~Bound(t, s) /\ ~Filed(t, s)
<1>1. /\ t \in 1..11 => Held(t, s) = {}
      /\ t \in 12..13 /\ s = 1 => Held(t, s) = {}
      /\ t = 15 /\ s = 1 => Held(t, s) = {}
  BY DEF Held, HasPair
<1>2. /\ t = 14 /\ s = 1 => Held(t, s) = Pair
      /\ t \in 12..15 /\ s = 2 => Held(t, s) = Pair
      /\ t \in 14..15 /\ s \in 3..4 => Held(t, s) = Pair
  BY DEF Held, HasPair
<1>3. /\ t = 12 /\ s = 3 => Held(t, s) = {"sockfds[1]"}
      /\ t \in 14..15 /\ s = 5 => Held(t, s) = {"sockfds[1]"}
  BY DEF Held, HasPair
<1>4. /\ t \notin SocketTestNos => ~Opened(t, s) /\ ~Bound(t, s) /\ ~Filed(t, s)
      /\ s = 1 => ~Opened(t, s) /\ ~Bound(t, s) /\ ~Filed(t, s)
      /\ s = 2 => ~Bound(t, s) /\ ~Filed(t, s)
  BY DEF Opened, Bound, Filed, SocketTestNos, InetTests, UnixTests
<1>5. QED  BY <1>1, <1>2, <1>3, <1>4

\* Where main() is after a call that passed.
LEMMA After ==
  ASSUME TypesInv, NEW p \in Procs, GoOn(p), status[p] = "running"
  PROVE  LET t == test[p]
             s == step[p]
         IN  /\ t \in Tests /\ s \in 1..Length(t) /\ t \in 1..15 /\ s \in 1..6
             /\ Length(t) \in 1..6
             /\ fault' = fault /\ build'[p] = build[p] /\ neighbours'[p] = neighbours[p]
             /\ standalone' = standalone
             /\ t \in 6..15 => ~standalone
             /\ s < Length(t) =>
                  /\ status'[p] = "running" /\ test'[p] = t /\ step'[p] = s + 1
                  /\ s + 1 \in 1..Length(t) /\ s + 1 \in 1..6
             /\ s = Length(t) /\ t # (IF standalone THEN 5 ELSE 15) =>
                  status'[p] = "running" /\ test'[p] = t + 1 /\ step'[p] = 1
             /\ s = Length(t) /\ t = (IF standalone THEN 5 ELSE 15) =>
                  status'[p] = "ok"
<1> DEFINE t == test[p]
           s == step[p]
<1>1. /\ t \in Tests /\ s \in 1..Length(t) /\ t \in 1..15 /\ Length(t) \in 1..6
  BY Lengths DEF TypesInv
<1>2. /\ test \in [Procs -> Nat] /\ step \in [Procs -> Nat]
      /\ status \in [Procs -> {"idle", "running", "ok", "aborted", "killed"}]
  BY DEF TypesInv
<1>3. /\ Last(t, s) => status'[p] = "ok"
      /\ ~Last(t, s) => /\ status'[p] = "running"
                        /\ test'[p] = NextTest(t, s) /\ step'[p] = NextStep(t, s)
      /\ UNCHANGED <<world, build, starts, neighbours>>
  BY <1>2, Progress
<1>4. t \in 6..15 => ~standalone
  BY <1>1 DEF Tests
<1>5. QED
  BY <1>1, <1>3, <1>4 DEF Last, NextTest, NextStep, world

\* A process that ended holds nothing.
LEMMA EndOwn ==
  ASSUME TypesInv, NEW p \in Procs, NEW how \in {"aborted", "killed"},
         EndProcess(p, how)
  PROVE  Own(p)' /\ status'[p] = how /\ UNCHANGED <<world, build, test, step, neighbours>>
<1>1. /\ status'[p] = how /\ p \notin port'
      /\ \A h \in Handles : fds'[p][h] = Closed
      /\ UNCHANGED <<world, build, test, step, neighbours>>
  BY DEF EndProcess, TypesInv
<1>2. QED  BY <1>1 DEF Own, EndedInv, SocketInv, PairInv, FileInv

\* A call that passes blames nobody.
LEMMA PassBlames ==
  ASSUME TypesInv, NEW p \in Procs, GoOn(p), status[p] = "running"
  PROVE  Blamed(p)'
<1>1. status'[p] \in {"running", "ok"}
  BY After DEF TypesInv
<1>2. QED  BY <1>1 DEF Blamed

\* The descriptors that are counted.
LEMMA PairSize == Cardinality(Pair) = 2
<1>1. Cardinality({"sockfds[0]"}) = 1 /\ IsFiniteSet({"sockfds[0]"})
  BY FS_Singleton
<1>2. Cardinality({"sockfds[0]"} \cup {"sockfds[1]"}) = 2
  BY <1>1, FS_AddElement
<1>3. Pair = {"sockfds[0]"} \cup {"sockfds[1]"}
  BY DEF Pair
<1>4. QED  BY <1>2, <1>3

\* The open descriptors of a pair, lost when its variables are overwritten.
Gone(p) == Cardinality({h \in Pair : fds[p][h] # Closed})

\* The descriptors of a process without a sockfd, when its pair is open or not.
LEMMA Counted ==
  ASSUME NEW p \in Procs, lost[p] \in Nat, fds[p]["sockfd"] = Closed
  PROVE  /\ (\A h \in Pair : fds[p][h] = Closed) =>
              /\ OpenFds(p) = lost[p]
              /\ Gone(p) = 0
         /\ (\A h \in Pair : fds[p][h] # Closed) =>
              /\ OpenFds(p) = 2 + lost[p]
              /\ Gone(p) = 2
<1>1. {h \in Handles : fds[p][h] # Closed} = {h \in Pair : fds[p][h] # Closed}
  BY DEF Handles, Pair
<1>2. ASSUME \A h \in Pair : fds[p][h] = Closed
      PROVE  {h \in Pair : fds[p][h] # Closed} = {}
  BY <1>2
<1>3. ASSUME \A h \in Pair : fds[p][h] # Closed
      PROVE  {h \in Pair : fds[p][h] # Closed} = Pair
  BY <1>3
<1>4. QED  BY <1>1, <1>2, <1>3, PairSize, FS_EmptySet DEF OpenFds, Gone

-----------------------------------------------------------------------------
\* What is open before socket(), ...
LEMMA BeforeSocket ==
  ASSUME IInv, NEW p \in Procs, fault \in Passing, status[p] = "running",
         test[p] \in SocketTestNos, step[p] = 1
  PROVE  LET t == test[p]
         IN  /\ p \notin port /\ lost[p] = LostAt(t, 1)
             /\ \A h \in Handles : fds[p][h] = Closed
             /\ LostAt(t, 2) = LostAt(t, 1) /\ OpenFds(p) = LostAt(t, 1)
             /\ LostAt(t, 1) \in Nat
             /\ LostAt(t, 1) < IF ~Leaks THEN 1 ELSE IF t \in 1..5 THEN 5 ELSE 18
<1> DEFINE t == test[p]
<1>1. Own(p) /\ t \in Tests /\ t \in 1..11 /\ CloseAt(Kind(t)) \in 2..5
      /\ Length(t) \in Nat /\ Length(t) >= CloseAt(Kind(t))
  <2>1. Own(p) /\ t \in Tests
    BY DEF IInv, ConformingInv, TypesInv
  <2>2. /\ t \in 1..11 /\ CloseAt(Kind(t)) \in 2..5
        /\ Length(t) = CloseAt(Kind(t)) + IF t \in 8..11 THEN 1 ELSE 0
    BY <2>1, SocketLengths
  <2>3. QED  BY <2>1, <2>2
<1>2. ~Opened(t, 1) /\ ~Bound(t, 1) /\ Held(t, 1) = {}
  BY <1>1, Holdings
<1>3. p \notin port /\ fds[p]["sockfd"] = Closed
  BY <1>2, <1>1 DEF Own, SocketInv
<1>4. lost[p] = LostAt(t, 1) /\ \A h \in Pair : fds[p][h] = Closed
  BY <1>1, <1>2 DEF Own, PairInv
<1>5. /\ LostAt(t, 1) \in Nat /\ LostAt(t, 2) = LostAt(t, 1)
      /\ LostAt(t, 1) < IF ~Leaks THEN 1 ELSE IF t \in 1..5 THEN 5 ELSE 18
  <2>1. 1 \in 1..Length(t) /\ 1 < CloseAt(Kind(t)) /\ 1 + 1 = 2
    BY <1>1
  <2>2. QED  BY <1>1, <2>1, SocketLosses
<1>6. OpenFds(p) = LostAt(t, 1)
  BY <1>3, <1>4, <1>5, Counted
<1>7. QED  BY <1>3, <1>4, <1>5, <1>6 DEF Handles, Pair

\* The calls, one by one, of a process on a library with no fault the suite
\* sees: it has afterwards what the next position says, or it is ended and not
\* to blame.
LEMMA SocketOwn ==
  ASSUME IInv, NEW p \in Procs, fault \in Passing, SysSocket(p)
  PROVE  Own(p)' /\ Blamed(p)'
<1> DEFINE t == test[p]
           s == step[p]
<1>1. /\ TypesInv /\ Own(p) /\ status[p] = "running"
      /\ t \in Tests /\ s \in 1..Length(t)
  BY DEF IInv, ConformingInv, TypesInv, SysSocket, At
<1>2. /\ t \in SocketTestNos /\ s = 1 /\ t \in 1..11 /\ Length(t) >= 2
      /\ CloseAt(Kind(t)) >= 2 /\ CloseAt(Kind(t)) \in Nat
  <2>1. t \in SocketTestNos /\ s = 1
    BY <1>1, Where DEF SysSocket, At, Now
  <2>2. /\ t \in 1..11 /\ CloseAt(Kind(t)) \in 2..5
        /\ Length(t) = CloseAt(Kind(t)) + IF t \in 8..11 THEN 1 ELSE 0
    BY <1>1, <2>1, SocketLengths
  <2>3. QED  BY <2>1, <2>2
<1>3. /\ p \notin port /\ lost[p] = LostAt(t, 1)
      /\ \A h \in Handles : fds[p][h] = Closed
      /\ LostAt(t, 2) = LostAt(t, 1) /\ OpenFds(p) = LostAt(t, 1)
      /\ LostAt(t, 1) \in Nat
      /\ LostAt(t, 1) < IF ~Leaks THEN 1 ELSE IF t \in 1..5 THEN 5 ELSE 18
  BY <1>1, <1>2, BeforeSocket
<1>4. CASE EndProcess(p, "aborted") /\ ~(OpenFds(p) < limit)
  <2>1. Own(p)'
    BY <1>1, <1>4, EndOwn
  <2>2. ~Enough
    BY <1>1, <1>2, <1>3, <1>4 DEF Enough, Needed, Made, TypesInv, Tests
  <2>3. ~Enough'
    BY <1>4, <2>2 DEF EndProcess, world, Enough, Leaks, Needed, Made
  <2>4. QED  BY <2>1, <2>3 DEF Blamed
<1>5. CASE GoOn(p) /\ Set(p, "sockfd", SocketOf("unbound")) /\ UNCHANGED <<lost, host>>
  <2>1. /\ status'[p] = "running" /\ test'[p] = t /\ step'[p] = 2
        /\ fault' = fault /\ build'[p] = build[p] /\ neighbours'[p] = neighbours[p]
    BY <1>1, <1>2, <1>5, After
  <2>2. /\ fds'[p]["sockfd"] = SocketOf("unbound")
        /\ \A h \in Pair : fds'[p][h] = Closed
        /\ lost'[p] = LostAt(t, 2) /\ p \notin port' /\ files' = files
    <3>1. /\ fds'[p]["sockfd"] = SocketOf("unbound")
          /\ \A h \in Handles \ {"sockfd"} : fds'[p][h] = fds[p][h]
      BY <1>1, <1>5, SetTypes, SocketTypes DEF Handles, Roles
    <3>2. QED  BY <1>3, <1>5, <3>1 DEF Handles, Pair, host
  <2>3. /\ Opened(t, 2) /\ ~Bound(t, 2) /\ ~Filed(t, 2) /\ ~Filed(t, s)
        /\ Held(t, 2) = {}
    BY <1>2, Holdings DEF Opened
  <2>4. SocketInv(p)'
    BY <2>1, <2>2, <2>3 DEF SocketInv, SocketOf, Opened, Bound
  <2>5. PairInv(p)'
    BY <1>2, <2>1, <2>2, LossNext DEF PairInv, Held, HasPair
  <2>6. FileInv(p)' /\ EndedInv(p)'
    BY <1>1, <2>1, <2>2, <2>3 DEF Own, FileInv, EndedInv, Filed
  <2>7. QED  BY <1>1, <1>5, <2>4, <2>5, <2>6, PassBlames DEF Own
<1>6. QED  BY <1>4, <1>5 DEF SysSocket, Assert

\* bind() fails on the port or the file of another process only.
LEMMA BindOwn ==
  ASSUME IInv, NEW p \in Procs, fault \in Passing, SysBind(p)
  PROVE  Own(p)' /\ Blamed(p)'
<1> DEFINE t == test[p]
           s == step[p]
<1>1. /\ TypesInv /\ Own(p) /\ status[p] = "running"
      /\ t \in Tests /\ s \in 1..Length(t)
  BY DEF IInv, ConformingInv, TypesInv, SysBind, At
<1>2. /\ t \in SocketTestNos /\ s = 2 /\ Kind(t) # 1
      /\ Now(p).handle = "sockfd" /\ Now(p).domain = Family(t)
      /\ Now(p).call = "bind"
  BY <1>1, Where DEF SysBind, At, Now
<1>3. /\ t \in 1..11 /\ CloseAt(Kind(t)) \in 3..5 /\ Length(t) >= 3
      /\ t > 6 <=> t \in 8..11
      /\ t \in InetTests <=> t <= 5
      /\ t # 6
  <2>1. /\ t \in 1..11 /\ t # 6 /\ CloseAt(Kind(t)) \in 2..5
        /\ t \in InetTests <=> t <= 5
        /\ CloseAt(Kind(t)) = 2 <=> Kind(t) = 1
        /\ t \in 8..11 <=> t > 5 /\ Kind(t) # 1
        /\ Length(t) = CloseAt(Kind(t)) + IF t \in 8..11 THEN 1 ELSE 0
    BY <1>1, <1>2, SocketLengths
  <2>2. QED  BY <1>2, <2>1
<1>4. /\ Opened(t, 2) /\ ~Bound(t, 2) /\ ~Filed(t, 2)
      /\ Opened(t, 3) /\ Bound(t, 3) /\ (Filed(t, 3) <=> t \in 8..11)
      /\ Held(t, 2) = {} /\ Held(t, 3) = {} /\ LostAt(t, 3) = LostAt(t, 2)
  <2>1. /\ Opened(t, 2) /\ ~Bound(t, 2) /\ ~Filed(t, 2)
        /\ Opened(t, 3) /\ Bound(t, 3) /\ (Filed(t, 3) <=> t \in 8..11)
        /\ Held(t, 2) = {} /\ Held(t, 3) = {}
    BY <1>2, <1>3, Holdings DEF Opened, Bound, Filed
  <2>2. s < CloseAt(Kind(t)) /\ s + 1 = 3
    BY <1>2, <1>3
  <2>3. LostAt(t, 3) = LostAt(t, 2)
    BY <1>1, <1>2, <2>2, SocketLosses
  <2>4. QED  BY <2>1, <2>3
<1>5. /\ p \notin port /\ lost[p] = LostAt(t, 2) /\ \A h \in Pair : fds[p][h] = Closed
      /\ build[p] \notin neighbours[p] /\ t > 6 => build[p] \notin files
      /\ fds[p]["sockfd"] \in Sockets
  <2>1. p \notin port
    BY <1>1, <1>2, <1>4 DEF Own, SocketInv
  <2>2. lost[p] = LostAt(t, 2) /\ \A h \in Pair : fds[p][h] = Closed
    BY <1>1, <1>2, <1>4 DEF Own, PairInv
  <2>3. build[p] \notin neighbours[p] /\ t > 6 => build[p] \notin files
    BY <1>1, <1>2, <1>4 DEF Own, FileInv
  <2>4. fds[p]["sockfd"] \in Sockets
    BY <1>1 DEF TypesInv, Sockets, Handles
  <2>5. QED  BY <2>1, <2>2, <2>3, <2>4
<1>6. CASE EndProcess(p, "aborted") /\ InUse(p)
  <2>1. /\ Own(p)' /\ UNCHANGED <<world, build, test, step, neighbours>>
    BY <1>1, <1>6, EndOwn
  <2>2. Now(p)' = Now(p)
    BY <2>1 DEF Now, Suite, world
  <2>3. CASE t \in InetTests
    <3>1. Now(p).domain = "AF_INET"
      BY <1>2, <2>3 DEF Family
    <3>2. PICK q \in port : TRUE
      BY <1>6, <3>1 DEF InUse
    <3>3. q \in Procs /\ q # p /\ status[q] = "running"
      BY <1>5, <3>2 DEF IInv, TypesInv, ConformingInv, Own, EndedInv
    <3>4. neighbours[p] # {}
      BY <1>1, <3>3 DEF IInv, NeighboursInv
    <3>5. QED  BY <1>2, <2>1, <2>2, <3>1, <3>4 DEF Blamed
  <2>4. CASE t \notin InetTests
    <3>1. Now(p).domain = "AF_UNIX" /\ t > 6
      BY <1>2, <1>3, <2>4 DEF Family
    <3>2. build[p] \in neighbours[p]
      BY <1>5, <1>6, <3>1 DEF InUse
    <3>3. QED  BY <1>2, <2>1, <2>2, <3>1, <3>2 DEF Blamed
  <2>5. QED  BY <2>3, <2>4
<1>7. CASE /\ GoOn(p) /\ UNCHANGED lost
           /\ Set(p, "sockfd", [Socket(p) EXCEPT !.role = "bound", !.name = Addr(p)])
           /\ IF Now(p).domain = "AF_INET" THEN port' = port \cup {p} /\ UNCHANGED files
              ELSE files' = files \cup {build[p]} /\ UNCHANGED port
  <2> DEFINE new == [Socket(p) EXCEPT !.role = "bound", !.name = Addr(p)]
  <2>1. /\ status'[p] = "running" /\ test'[p] = t /\ step'[p] = 3
        /\ fault' = fault /\ build'[p] = build[p] /\ neighbours'[p] = neighbours[p]
    BY <1>1, <1>2, <1>3, <1>7, After
  <2>2. new \in Sockets /\ new.role = "bound" /\ new.name = Addr(p)
    <3>1. Socket(p) \in Sockets
      BY <1>2, <1>5 DEF Socket
    <3>2. Addr(p) \in Names
      BY <1>1 DEF Addr, Names, TypesInv
    <3>3. QED  BY <3>1, <3>2 DEF Sockets, Roles
  <2> HIDE DEF new
  <2>3. /\ fds'[p]["sockfd"] = new
        /\ \A h \in Pair : fds'[p][h] = Closed
    BY <1>1, <1>5, <1>7, <2>2, SetTypes DEF Handles, Pair, new
  <2>4. Addr(p) = IF t \in InetTests THEN "port" ELSE build[p]
    BY <1>2 DEF Addr, Family
  <2>5. p \in port' <=> t \in InetTests
    BY <1>2, <1>5, <1>7 DEF Family
  <2>6. SocketInv(p)'
    BY <1>4, <2>1, <2>2, <2>3, <2>4, <2>5 DEF SocketInv, Opened, Bound
  <2>7. PairInv(p)'
    BY <1>3, <1>4, <1>5, <1>7, <2>1, <2>3, LossNext DEF PairInv, Held, HasPair
  <2>8. t > 6 => build[p] \in files'
    BY <1>2, <1>3, <1>7 DEF Family
  <2>9. FileInv(p)' /\ EndedInv(p)'
    BY <1>3, <1>4, <2>1, <2>8 DEF FileInv, EndedInv, Filed
  <2>10. QED  BY <1>1, <1>7, <2>6, <2>7, <2>9, PassBlames DEF Own
<1>8. QED
  <2>1. \/ EndProcess(p, "aborted") /\ InUse(p)
        \/ /\ GoOn(p) /\ UNCHANGED lost
           /\ Set(p, "sockfd", [Socket(p) EXCEPT !.role = "bound", !.name = Addr(p)])
           /\ IF Now(p).domain = "AF_INET" THEN port' = port \cup {p} /\ UNCHANGED files
              ELSE files' = files \cup {build[p]} /\ UNCHANGED port
    <3>1. fault # "bind_none" /\ (fault = "bind_no_file" => standalone)
      BY DEF Passing, Unseen, UnseenStandalone
    <3>2. Now(p).domain # "AF_INET" => ~standalone
      BY <1>1, <1>2, <1>3 DEF Family, Tests
    <3>3. QED  BY <3>1, <3>2 DEF SysBind, Assert
  <2>2. QED  BY <1>6, <1>7, <2>1

\* In the tests of common.c no pair is there, nothing is lost, and there is one
\* position to begin, to bind, to close and to unlink at.
LEMMA InSocketTest ==
  ASSUME IInv, NEW p \in Procs, fault \in Passing, status[p] = "running",
         test[p] \in SocketTestNos
  PROVE  LET t == test[p]
             s == step[p]
         IN  /\ TypesInv /\ Own(p) /\ t \in Tests /\ s \in 1..Length(t)
             /\ t \in 1..11 /\ t # 6
             /\ t \in InetTests <=> t <= 5
             /\ CloseAt(Kind(t)) \in 2..5
             /\ Length(t) = CloseAt(Kind(t)) + IF t \in 8..11 THEN 1 ELSE 0
             /\ lost[p] = LostAt(t, s) /\ \A h \in Pair : fds[p][h] = Closed
             /\ fds[p]["sockfd"] \in Sockets
<1> DEFINE t == test[p]
           s == step[p]
<1>1. TypesInv /\ Own(p) /\ t \in Tests /\ s \in 1..Length(t)
  BY DEF IInv, ConformingInv, TypesInv
<1>2. /\ t \in 1..11 /\ t # 6 /\ CloseAt(Kind(t)) \in 2..5
      /\ t \in InetTests <=> t <= 5
      /\ Length(t) = CloseAt(Kind(t)) + IF t \in 8..11 THEN 1 ELSE 0
  BY <1>1, SocketLengths
<1>3. Held(t, s) = {}
  BY <1>2 DEF Held, HasPair
<1>4. lost[p] = LostAt(t, s) /\ \A h \in Pair : fds[p][h] = Closed
  BY <1>1, <1>3 DEF Own, PairInv
<1>5. fds[p]["sockfd"] \in Sockets
  BY <1>1 DEF TypesInv, Sockets, Handles
<1>6. QED  BY <1>1, <1>2, <1>4, <1>5

\* Before the tests of the pairs neither variable of a pair is open.
LEMMA NoPairYet ==
  ASSUME NEW p \in Procs, test'[p] \in 1..12, step'[p] \in 1..6,
         step'[p] = 1 \/ test'[p] # 12, fault' = fault,
         lost'[p] = LostAt(test'[p], step'[p]), \A h \in Pair : fds'[p][h] = Closed
  PROVE  PairInv(p)'
<1>1. Held(test[p], step[p])' = {}
  BY DEF Held, HasPair
<1>2. LostAt(test[p], step[p])' = LostAt(test'[p], step'[p])
  BY LossNext
<1>3. test'[p] # 14 /\ test'[p] \notin 13..15
  OBVIOUS
<1>4. QED  BY <1>1, <1>2, <1>3 DEF PairInv

\* listen() keeps the name that bind() gave.
LEMMA ListenOwn ==
  ASSUME IInv, NEW p \in Procs, fault \in Passing, SysListen(p)
  PROVE  Own(p)' /\ Blamed(p)'
<1> DEFINE t == test[p]
           s == step[p]
           new == IF fault = "listen_none" THEN Socket(p)
                  ELSE [Socket(p) EXCEPT !.role = "listening", !.name = @]
<1>1. /\ TypesInv /\ status[p] = "running"
      /\ t \in Tests /\ s \in 1..Length(t)
  BY DEF IInv, TypesInv, SysListen, At
<1>2. /\ t \in SocketTestNos /\ s = 3 /\ Kind(t) \in {3, 5}
      /\ Now(p).handle = "sockfd"
  BY <1>1, Where DEF SysListen, At, Now
<1>3. /\ Own(p) /\ t \in 1..11 /\ t # 6 /\ lost[p] = LostAt(t, s)
      /\ \A h \in Pair : fds[p][h] = Closed
      /\ fds[p]["sockfd"] \in Sockets
      /\ Length(t) = CloseAt(Kind(t)) + IF t \in 8..11 THEN 1 ELSE 0
  BY <1>1, <1>2, InSocketTest
<1>4. CloseAt(Kind(t)) \in 4..5
  BY <1>2 DEF CloseAt
<1>5. GoOn(p) /\ Set(p, "sockfd", new) /\ UNCHANGED <<lost, port, files>>
  <2>1. fault # "listen_unbinds"
    BY DEF Passing, Unseen, UnseenStandalone
  <2>2. QED  BY <2>1 DEF SysListen, Assert, host
<1>6. /\ status'[p] = "running" /\ test'[p] = t /\ step'[p] = 4
      /\ fault' = fault /\ build'[p] = build[p] /\ neighbours'[p] = neighbours[p]
  BY <1>1, <1>2, <1>3, <1>4, <1>5, After
<1>7. /\ Opened(t, 3) /\ Bound(t, 3) /\ Opened(t, 4) /\ Bound(t, 4)
      /\ Filed(t, 3) <=> Filed(t, 4)
  BY <1>2, <1>4 DEF Opened, Bound, Filed
<1>8. new \in Sockets /\ new.role # "closed" /\ new.name = fds[p]["sockfd"].name
  <2>1. fds[p]["sockfd"].role # "closed"
    BY <1>1, <1>2, <1>3, <1>7 DEF Own, SocketInv
  <2>2. QED  BY <1>2, <1>3, <2>1 DEF Socket, Sockets, Roles
<1> HIDE DEF new
<1>9. /\ fds'[p]["sockfd"] = new
      /\ \A h \in Pair : fds'[p][h] = Closed
  BY <1>1, <1>3, <1>5, <1>8, SetTypes DEF Handles, Pair
<1>10. SocketInv(p)'
  BY <1>1, <1>2, <1>3, <1>5, <1>6, <1>7, <1>8, <1>9 DEF Own, SocketInv, Opened, Bound
<1>11. PairInv(p)'
  <2>1. s < CloseAt(Kind(t)) /\ s + 1 = 4
    BY <1>2, <1>4
  <2>2. LostAt(t, 4) = LostAt(t, s)
    BY <1>1, <1>2, <2>1, SocketLosses
  <2>3. QED  BY <1>3, <1>5, <1>6, <1>9, <2>2, NoPairYet
<1>12. FileInv(p)' /\ EndedInv(p)'
  BY <1>1, <1>2, <1>3, <1>5, <1>6, <1>7 DEF Own, FileInv, EndedInv, Filed
<1>13. QED  BY <1>1, <1>5, <1>10, <1>11, <1>12, PassBlames DEF Own

\* getsockname() returns the name that bind() gave.
LEMMA GetsocknameOwn ==
  ASSUME IInv, NEW p \in Procs, fault \in Passing, SysGetsockname(p)
  PROVE  Own(p)' /\ Blamed(p)'
<1> DEFINE t == test[p]
           s == step[p]
<1>1. /\ TypesInv /\ status[p] = "running"
      /\ t \in Tests /\ s \in 1..Length(t)
  BY DEF IInv, TypesInv, SysGetsockname, At
<1>2. /\ t \in SocketTestNos /\ s = Kind(t) - 1 /\ Kind(t) \in {4, 5}
      /\ Now(p).handle = "sockfd" /\ Now(p).domain = Family(t)
  BY <1>1, Where DEF SysGetsockname, At, Now
<1>3. /\ Own(p) /\ t \in 1..11 /\ t # 6 /\ lost[p] = LostAt(t, s)
      /\ \A h \in Pair : fds[p][h] = Closed
      /\ Length(t) = CloseAt(Kind(t)) + IF t \in 8..11 THEN 1 ELSE 0
  BY <1>1, <1>2, InSocketTest
<1>4. CloseAt(Kind(t)) = s + 1 /\ s \in 3..4
  BY <1>2 DEF CloseAt
<1>5. /\ Opened(t, s) /\ Bound(t, s) /\ Opened(t, s + 1) /\ Bound(t, s + 1)
      /\ Filed(t, s) <=> Filed(t, s + 1)
  BY <1>2, <1>4 DEF Opened, Bound, Filed
<1>6. Socket(p).name = Addr(p)
  BY <1>1, <1>2, <1>3, <1>5 DEF Own, SocketInv, Socket, Addr, Family
<1>7. GoOn(p) /\ UNCHANGED <<fds, lost, port, files>>
  BY <1>6 DEF SysGetsockname, Assert, host
<1>8. /\ status'[p] = "running" /\ test'[p] = t /\ step'[p] = s + 1
      /\ fault' = fault /\ build'[p] = build[p] /\ neighbours'[p] = neighbours[p]
  BY <1>1, <1>3, <1>4, <1>7, After
<1>9. SocketInv(p)'
  BY <1>1, <1>3, <1>5, <1>7, <1>8 DEF Own, SocketInv, Opened, Bound
<1>10. PairInv(p)'
  <2>1. LostAt(t, s + 1) = LostAt(t, s) /\ s + 1 \in 1..6
    BY <1>1, <1>2, <1>4, SocketLosses
  <2>2. QED  BY <1>3, <1>7, <1>8, <2>1, NoPairYet
<1>11. FileInv(p)' /\ EndedInv(p)'
  BY <1>1, <1>3, <1>5, <1>7, <1>8 DEF Own, FileInv, EndedInv, Filed
<1>12. QED  BY <1>1, <1>7, <1>9, <1>10, <1>11, PassBlames DEF Own

\* unlink() fails when a process of the same build took the file.
LEMMA UnlinkOwn ==
  ASSUME IInv, NEW p \in Procs, fault \in Passing, SysUnlink(p)
  PROVE  Own(p)' /\ Blamed(p)'
<1> DEFINE t == test[p]
           s == step[p]
<1>1. /\ TypesInv /\ status[p] = "running"
      /\ t \in Tests /\ s \in 1..Length(t)
  BY DEF IInv, TypesInv, SysUnlink, At
<1>2. /\ t \in 8..11 /\ s = CloseAt(Kind(t)) + 1
      /\ Now(p).call = "unlink" /\ Now(p).domain = "AF_UNIX"
  BY <1>1, Where DEF SysUnlink, At, Now
<1>3. t \in SocketTestNos
  BY <1>2 DEF SocketTestNos, UnixTests
<1>4. /\ Own(p) /\ lost[p] = LostAt(t, s) /\ \A h \in Pair : fds[p][h] = Closed
      /\ Length(t) = s /\ s \in 3..6 /\ t \notin InetTests
      /\ CloseAt(Kind(t)) \in 2..5
  <2>1. /\ Own(p) /\ lost[p] = LostAt(t, s) /\ \A h \in Pair : fds[p][h] = Closed
        /\ CloseAt(Kind(t)) \in 2..5
        /\ Length(t) = CloseAt(Kind(t)) + IF t \in 8..11 THEN 1 ELSE 0
        /\ t \in InetTests <=> t <= 5
    BY <1>1, <1>3, InSocketTest
  <2>2. QED  BY <1>2, <2>1
<1>5. ~Opened(t, s) /\ ~Bound(t, s) /\ Filed(t, s)
  BY <1>2, <1>4 DEF Opened, Bound, Filed
<1>6. fds[p]["sockfd"] = Closed /\ p \notin port
  BY <1>1, <1>4, <1>5 DEF Own, SocketInv
<1>7. build[p] \notin neighbours[p] => build[p] \in files
  BY <1>1, <1>2, <1>4, <1>5 DEF Own, FileInv
<1>8. CASE EndProcess(p, "aborted") /\ build[p] \notin files
  <2>1. /\ Own(p)' /\ UNCHANGED <<world, build, test, step, neighbours>>
    BY <1>1, <1>8, EndOwn
  <2>2. Now(p)' = Now(p)
    BY <2>1 DEF Now, Suite, world
  <2>3. QED  BY <1>2, <1>7, <1>8, <2>1, <2>2 DEF Blamed
<1>9. CASE GoOn(p) /\ files' = files \ {build[p]} /\ UNCHANGED <<fds, lost, port>>
  <2>1. /\ status'[p] = "running" /\ test'[p] = t + 1 /\ step'[p] = 1
        /\ fault' = fault /\ build'[p] = build[p] /\ neighbours'[p] = neighbours[p]
    BY <1>1, <1>2, <1>4, <1>9, After
  <2>2. SocketInv(p)'
    BY <1>6, <1>9, <2>1 DEF SocketInv, Opened, Bound
  <2>3. PairInv(p)'
    <3>1. LostAt(t + 1, 1) = LostAt(t, s)
      BY <1>1, <1>2, <1>3, <1>4, SocketLosses
    <3>2. QED  BY <1>2, <1>4, <1>9, <2>1, <3>1, NoPairYet
  <2>4. FileInv(p)' /\ EndedInv(p)'
    BY <1>9, <2>1 DEF FileInv, EndedInv, Filed
  <2>5. QED  BY <1>1, <1>9, <2>2, <2>3, <2>4, PassBlames DEF Own
<1>10. QED
  <2>1. fault # "unlink_keeps"
    BY <1>1, <1>2 DEF Passing, Unseen, UnseenStandalone, Tests
  <2>2. QED  BY <1>8, <1>9, <2>1 DEF SysUnlink, Assert

\* The clean-up before the second list removes a file that was left.
LEMMA CleanUpOwn ==
  ASSUME IInv, NEW p \in Procs, fault \in Passing, CleanUp(p)
  PROVE  Own(p)' /\ Blamed(p)'
<1> DEFINE t == test[p]
           s == step[p]
<1>1. /\ TypesInv /\ Own(p) /\ status[p] = "running"
      /\ t \in Tests /\ s \in 1..Length(t)
  BY DEF IInv, ConformingInv, TypesInv, CleanUp, At
<1>2. t = 6 /\ s = 1 /\ Length(t) = 1
  BY <1>1, Where DEF CleanUp, At, Now, Length, SocketTestNos, InetTests, UnixTests
<1>3. GoOn(p) /\ files' = files \ {build[p]} /\ UNCHANGED <<fds, lost, port>>
  <2>1. fault # "unlink_keeps"
    BY <1>1, <1>2 DEF Passing, Unseen, UnseenStandalone, Tests
  <2>2. QED  BY <2>1 DEF CleanUp, Assert
<1>4. /\ status'[p] = "running" /\ test'[p] = 7 /\ step'[p] = 1
      /\ fault' = fault /\ build'[p] = build[p] /\ neighbours'[p] = neighbours[p]
  BY <1>1, <1>2, <1>3, After
<1>5. ~Opened(t, s) /\ ~Bound(t, s) /\ Held(t, s) = {}
  BY <1>2 DEF Opened, Bound, Held, HasPair
<1>6. fds[p]["sockfd"] = Closed /\ p \notin port
  BY <1>1, <1>5 DEF Own, SocketInv
<1>7. lost[p] = LostAt(7, 1) /\ \A h \in Pair : fds[p][h] = Closed
  <2>1. LostAt(7, 1) = LostAt(6, 1)
    BY PairLosses
  <2>2. QED  BY <1>1, <1>2, <1>5, <2>1 DEF Own, PairInv
<1>8. SocketInv(p)'
  BY <1>3, <1>4, <1>6 DEF SocketInv, Opened, Bound
<1>9. PairInv(p)'
  BY <1>3, <1>4, <1>7, NoPairYet
<1>10. FileInv(p)' /\ EndedInv(p)'
  BY <1>3, <1>4 DEF FileInv, EndedInv, Filed
<1>11. QED  BY <1>1, <1>3, <1>8, <1>9, <1>10, PassBlames DEF Own

\* A position of the tests of the pairs: nothing of sockfd, and no file.
LEMMA InPairTest ==
  ASSUME IInv, NEW p \in Procs, fault \in Passing, status[p] = "running",
         test[p] \in 12..15
  PROVE  LET t == test[p]
             s == step[p]
         IN  /\ TypesInv /\ Own(p) /\ t \in Tests /\ s \in 1..Length(t) /\ s \in 1..6
             /\ Length(t) = IF t = 12 THEN 3 ELSE IF t = 13 THEN 2 ELSE 5
             /\ ~standalone /\ fault \notin UnseenStandalone
             /\ LostAt(t, s) \in Nat
             /\ fds[p]["sockfd"] = Closed /\ p \notin port
             /\ lost[p] = LostAt(t, s)
             /\ \A h \in Pair \ Held(t, s) : fds[p][h] = Closed
             /\ \A h \in Held(t, s) : fds[p][h].role # "closed" /\ fds[p][h].name = "none"
             /\ \A h \in Handles : fds[p][h] \in Sockets
             /\ build[p] \notin neighbours[p] => build[p] \notin files
<1> DEFINE t == test[p]
           s == step[p]
<1>1. TypesInv /\ Own(p) /\ t \in Tests /\ s \in 1..Length(t)
  BY DEF IInv, ConformingInv, TypesInv
<1>2. /\ Length(t) = IF t = 12 THEN 3 ELSE IF t = 13 THEN 2 ELSE 5
      /\ ~standalone /\ fault \notin UnseenStandalone
  <2>1. /\ Length(t) = IF t = 12 THEN 3 ELSE IF t = 13 THEN 2 ELSE 5
        /\ ~standalone
    BY <1>1 DEF Length, SocketTestNos, InetTests, UnixTests, Tests
  <2>2. QED  BY <2>1 DEF Passing, Unseen, UnseenStandalone
<1>3. s \in 1..6 /\ LostAt(t, s) \in Nat
  BY <1>1, <1>2, PairLosses
<1>4. ~Opened(t, s) /\ ~Bound(t, s) /\ ~Filed(t, s)
  BY DEF Opened, Bound, Filed, SocketTestNos, InetTests, UnixTests
<1>5. fds[p]["sockfd"] = Closed /\ p \notin port
  BY <1>1, <1>4 DEF Own, SocketInv
<1>6. /\ lost[p] = LostAt(t, s)
      /\ \A h \in Pair \ Held(t, s) : fds[p][h] = Closed
      /\ \A h \in Held(t, s) : fds[p][h].role # "closed" /\ fds[p][h].name = "none"
  BY <1>1 DEF Own, PairInv
<1>7. build[p] \notin neighbours[p] => build[p] \notin files
  BY <1>1, <1>4 DEF Own, FileInv
<1>8. \A h \in Handles : fds[p][h] \in Sockets
  BY <1>1 DEF TypesInv, Sockets
<1>9. QED  BY <1>1, <1>2, <1>3, <1>5, <1>6, <1>7, <1>8

\* From there it goes on to another one.
LEMMA PairTestGoesOn ==
  ASSUME TypesInv, NEW p \in Procs, fault' = fault,
         build'[p] = build[p], neighbours'[p] = neighbours[p],
         test'[p] \in 12..15, status'[p] = "running",
         fds'[p]["sockfd"] = Closed, p \notin port, UNCHANGED host,
         build[p] \notin neighbours[p] => build[p] \notin files
  PROVE  SocketInv(p)' /\ FileInv(p)' /\ EndedInv(p)'
<1>1. SocketInv(p)'
  BY DEF SocketInv, Opened, Bound, SocketTestNos, InetTests, UnixTests, host
<1>2. FileInv(p)'
  BY DEF FileInv, Filed, host
<1>3. QED  BY <1>1, <1>2 DEF EndedInv

\* ... and before socketpair(): what test_getpeername() left, and what is lost.
LEMMA BeforePair ==
  ASSUME IInv, NEW p \in Procs, fault \in Passing, status[p] = "running",
         test[p] \in 12..15, step[p] = 1
  PROVE  LET t == test[p]
         IN  /\ OpenFds(p) + 2 <= IF Leaks THEN 18 ELSE 4
             /\ OpenFds(p) = LostAt(t, 1) + (IF t = 14 THEN 2 ELSE 0)
             /\ OpenFds(p) \in Nat /\ LostAt(t, 1) \in Nat
             /\ lost[p] + Gone(p) = LostAt(t, 2) /\ Gone(p) \in Nat
<1> DEFINE t == test[p]
           gone == Gone(p)
<1>1. /\ fds[p]["sockfd"] = Closed /\ lost[p] = LostAt(t, 1)
      /\ \A h \in Pair \ Held(t, 1) : fds[p][h] = Closed
      /\ \A h \in Held(t, 1) : fds[p][h].role # "closed"
  BY InPairTest
<1>2. t \in {12, 13, 14, 15}
  OBVIOUS
<1>3. /\ OpenFds(p) + 2 <= IF Leaks THEN 18 ELSE 4
      /\ OpenFds(p) = LostAt(t, 1) + (IF t = 14 THEN 2 ELSE 0)
      /\ LostAt(t, 1) \in Nat
      /\ lost[p] + gone = LostAt(t, 2) /\ gone \in Nat
  <2>1. CASE t = 14
    <3>1. /\ Held(t, 1) = Pair /\ LostAt(t, 1) \in Nat
          /\ LostAt(t, 2) = LostAt(t, 1) + 2
          /\ LostAt(t, 1) + 4 <= IF Leaks THEN 18 ELSE 4
      BY <2>1, PairLosses DEF Held, HasPair
    <3>2. \A h \in Pair : fds[p][h] # Closed
      BY <1>1, <3>1 DEF Closed
    <3>3. OpenFds(p) = 2 + lost[p] /\ gone = 2
      BY <1>1, <3>1, <3>2, Counted
    <3>4. QED  BY <1>1, <2>1, <3>1, <3>3
  <2>2. CASE t # 14
    <3>1. /\ Held(t, 1) = {} /\ LostAt(t, 1) \in Nat
          /\ LostAt(t, 2) = LostAt(t, 1)
          /\ LostAt(t, 1) + 2 <= IF Leaks THEN 18 ELSE 4
      BY <1>2, <2>2, PairLosses DEF Held, HasPair
    <3>2. \A h \in Pair : fds[p][h] = Closed
      BY <1>1, <3>1
    <3>3. OpenFds(p) = lost[p] /\ gone = 0
      BY <1>1, <3>1, <3>2, Counted
    <3>4. QED  BY <1>1, <2>2, <3>1, <3>3
  <2>3. QED  BY <2>1, <2>2
<1>4. QED  BY <1>3

\* socketpair() overwrites the pair that test_getpeername() left open, which is
\* how two descriptors are lost.
LEMMA SocketpairOwn ==
  ASSUME IInv, NEW p \in Procs, fault \in Passing, SysSocketpair(p)
  PROVE  Own(p)' /\ Blamed(p)'
<1> DEFINE t == test[p]
           s == step[p]
           gone == Gone(p)
           new == [h \in Handles |->
                     IF h \in Pair THEN SocketOf("connected") ELSE fds[p][h]]
<1>1. /\ TypesInv /\ status[p] = "running" /\ t \in Tests /\ s \in 1..Length(t)
  BY DEF IInv, TypesInv, SysSocketpair, At
<1>2. t \in 12..15 /\ s = 1
  BY <1>1, Where DEF SysSocketpair, At, Now
<1>3. /\ Own(p) /\ Length(t) >= 2 /\ ~standalone
      /\ fds[p]["sockfd"] = Closed /\ p \notin port
      /\ lost[p] = LostAt(t, 1)
      /\ \A h \in Pair \ Held(t, 1) : fds[p][h] = Closed
      /\ \A h \in Held(t, 1) : fds[p][h].role # "closed"
      /\ build[p] \notin neighbours[p] => build[p] \notin files
  <2>1. Length(t) = IF t = 12 THEN 3 ELSE IF t = 13 THEN 2 ELSE 5
    BY <1>1, <1>2, InPairTest
  <2>2. Length(t) >= 2
    BY <2>1
  <2>3. QED  BY <1>1, <1>2, <2>2, InPairTest
<1>4. /\ OpenFds(p) + 2 <= IF Leaks THEN 18 ELSE 4
      /\ OpenFds(p) \in Nat
      /\ lost[p] + gone = LostAt(t, 2) /\ gone \in Nat
  BY <1>1, <1>2, BeforePair
<1>5. CASE EndProcess(p, "aborted") /\ ~(OpenFds(p) + 2 <= limit)
  <2>1. Own(p)' /\ UNCHANGED <<fault, standalone, limit>>
    BY <1>1, <1>5, EndOwn DEF world
  <2>2. ~Enough
    <3>1. limit \in Nat
      BY <1>1 DEF TypesInv
    <3>2. QED  BY <1>3, <1>4, <1>5, <3>1 DEF Enough, Needed, Made
  <2>3. QED  BY <2>1, <2>2 DEF Blamed, Enough, Leaks, Needed, Made
<1>6. CASE /\ GoOn(p) /\ fds' = [fds EXCEPT ![p] = new]
           /\ lost' = [lost EXCEPT ![p] = @ + gone] /\ UNCHANGED host
  <2>1. /\ status'[p] = "running" /\ test'[p] = t /\ step'[p] = 2
        /\ fault' = fault /\ build'[p] = build[p] /\ neighbours'[p] = neighbours[p]
    BY <1>1, <1>2, <1>3, <1>6, After
  <2>2. /\ fds'[p]["sockfd"] = Closed
        /\ \A h \in Pair : fds'[p][h] = SocketOf("connected")
        /\ lost'[p] = LostAt(t, 2)
    <3>1. fds'[p] = new /\ lost'[p] = lost[p] + gone
      BY <1>1, <1>6 DEF TypesInv
    <3>2. "sockfd" \in Handles \ Pair /\ Pair \subseteq Handles
      BY DEF Handles, Pair
    <3>3. QED  BY <1>3, <1>4, <3>1, <3>2
  <2>3. Held(t, 2) = Pair
    BY <1>2 DEF Held, HasPair
  <2>4. PairInv(p)'
    <3>1. LostAt(test[p], step[p])' = LostAt(t, 2)
      BY <2>1, LossNext
    <3>2. QED  BY <2>1, <2>2, <2>3, <3>1 DEF PairInv, Held, HasPair, SocketOf
  <2>5. SocketInv(p)' /\ FileInv(p)' /\ EndedInv(p)'
    BY <1>1, <1>2, <1>3, <1>6, <2>1, <2>2, PairTestGoesOn
  <2>6. QED  BY <1>1, <1>6, <2>4, <2>5, PassBlames DEF Own
<1>7. QED
  <2>1. \/ EndProcess(p, "aborted") /\ ~(OpenFds(p) + 2 <= limit)
        \/ /\ GoOn(p) /\ fds' = [fds EXCEPT ![p] = new]
           /\ lost' = [lost EXCEPT ![p] = @ + gone] /\ UNCHANGED host
    <3>1. fds \in [Procs -> [Handles -> Sockets]]
      BY <1>1 DEF TypesInv, Sockets
    <3>2. fault # "pair_unconnected"
      BY <1>1, <1>2, InPairTest DEF UnseenStandalone
    <3>3. QED  BY <3>1, <3>2 DEF SysSocketpair, Assert, Gone
  <2>2. QED  BY <1>5, <1>6, <2>1

\* getpeername() finds the two ends of the pair connected and without a name.
LEMMA GetpeernameOwn ==
  ASSUME IInv, NEW p \in Procs, fault \in Passing, SysGetpeername(p)
  PROVE  Own(p)' /\ Blamed(p)'
<1> DEFINE t == test[p]
           s == step[p]
<1>1. /\ TypesInv /\ status[p] = "running" /\ t \in Tests /\ s \in 1..Length(t)
  BY DEF IInv, TypesInv, SysGetpeername, At
<1>2. t = 13 /\ s = 2 /\ Now(p).handle = "sockfds[0]"
  BY <1>1, Where DEF SysGetpeername, At, Now
<1>3. /\ Own(p) /\ Length(t) = 2 /\ ~standalone
      /\ fds[p]["sockfd"] = Closed /\ p \notin port
      /\ lost[p] = LostAt(t, s)
      /\ \A h \in Held(t, s) : fds[p][h].role # "closed" /\ fds[p][h].name = "none"
      /\ build[p] \notin neighbours[p] => build[p] \notin files
  BY <1>1, <1>2, InPairTest
<1>4. Held(t, s) = Pair /\ LostAt(14, 1) = LostAt(t, s)
  BY <1>2, PairLosses DEF Held, HasPair
<1>5. \A h \in Pair : fds[p][h].role = "connected"
  BY <1>1, <1>2, <1>3, <1>4 DEF Own, PairInv
<1>6. Socket(p).role = "connected" /\ fds[p][Other(Now(p).handle)].name = Socket(p).name
  BY <1>2, <1>3, <1>4, <1>5 DEF Socket, Other, Pair
<1>7. GoOn(p) /\ UNCHANGED <<fds, lost, host>>
  BY <1>6 DEF SysGetpeername, Assert, Socket
<1>8. /\ status'[p] = "running" /\ test'[p] = 14 /\ step'[p] = 1
      /\ fault' = fault /\ build'[p] = build[p] /\ neighbours'[p] = neighbours[p]
  BY <1>1, <1>2, <1>3, <1>7, After
<1>9. PairInv(p)'
  <2>1. LostAt(test[p], step[p])' = LostAt(14, 1)
    BY <1>8, LossNext
  <2>2. QED  BY <1>3, <1>4, <1>7, <1>8, <2>1 DEF PairInv, Held, HasPair
<1>10. SocketInv(p)' /\ FileInv(p)' /\ EndedInv(p)'
  BY <1>1, <1>3, <1>7, <1>8, PairTestGoesOn
<1>11. QED  BY <1>1, <1>7, <1>9, <1>10, PassBlames DEF Own

\* write() puts the message at the other end ...
LEMMA WriteOwn ==
  ASSUME IInv, NEW p \in Procs, fault \in Passing, SysWrite(p)
  PROVE  Own(p)' /\ Blamed(p)'
<1> DEFINE t == test[p]
           s == step[p]
           new == [fds[p]["sockfds[1]"] EXCEPT !.in = Message]
<1>1. /\ TypesInv /\ status[p] = "running" /\ t \in Tests /\ s \in 1..Length(t)
  BY DEF IInv, TypesInv, SysWrite, At
<1>2. t = 14 /\ s = 2 /\ Now(p).handle = "sockfds[0]"
  BY <1>1, Where DEF SysWrite, At, Now
<1>3. /\ Own(p) /\ Length(t) = 5 /\ ~standalone
      /\ fds[p]["sockfd"] = Closed /\ p \notin port
      /\ lost[p] = LostAt(t, s)
      /\ \A h \in Held(t, s) : fds[p][h].role # "closed" /\ fds[p][h].name = "none"
      /\ \A h \in Handles : fds[p][h] \in Sockets
      /\ build[p] \notin neighbours[p] => build[p] \notin files
  BY <1>1, <1>2, InPairTest
<1>4. Held(t, s) = Pair /\ LostAt(t, 3) = LostAt(t, s)
  <2>1. LostAt(t, s + 1) = LostAt(t, s)
    BY <1>2, PairLosses
  <2>2. QED  BY <1>2, <2>1 DEF Held, HasPair
<1>5. \A h \in Pair : fds[p][h].role = "connected"
  BY <1>1, <1>2, <1>3, <1>4 DEF Own, PairInv
<1>6. Socket(p).role = "connected" /\ Other(Now(p).handle) = "sockfds[1]"
  BY <1>2, <1>5 DEF Socket, Other, Pair
<1>7. GoOn(p) /\ Set(p, "sockfds[1]", new) /\ UNCHANGED <<lost, host>>
  <2>1. fault # "send_drops" /\ fault # "recv_short"
    BY <1>1, <1>2, InPairTest DEF UnseenStandalone
  <2>2. QED  BY <1>6, <2>1 DEF SysWrite, Assert
<1>8. /\ status'[p] = "running" /\ test'[p] = 14 /\ step'[p] = 3
      /\ fault' = fault /\ build'[p] = build[p] /\ neighbours'[p] = neighbours[p]
  BY <1>1, <1>2, <1>3, <1>7, After
<1>9. /\ new \in Sockets /\ new.role = "connected" /\ new.name = "none"
      /\ new.in = Message
  BY <1>3, <1>4, <1>5 DEF Sockets, Pair, Handles, Message
<1> HIDE DEF new
<1>10. /\ fds'[p]["sockfds[1]"] = new
       /\ fds'[p]["sockfds[0]"] = fds[p]["sockfds[0]"]
       /\ fds'[p]["sockfd"] = Closed
  BY <1>1, <1>3, <1>7, <1>9, SetTypes DEF Handles
<1>11. lost'[p] = LostAt(t, 3)
  BY <1>3, <1>4, <1>7
<1>12. PairInv(p)'
  <2>1. \A h \in Pair : fds'[p][h].role # "closed" /\ fds'[p][h].name = "none"
    BY <1>3, <1>4, <1>9, <1>10 DEF Pair
  <2>2. /\ Held(test[p], step[p])' = Pair
        /\ LostAt(test[p], step[p])' = LostAt(t, 3)
    <3>1. Held(test[p], step[p])' = Pair
      BY <1>8 DEF Held, HasPair
    <3>2. QED  BY <1>2, <1>8, <3>1, LossNext
  <2>3. QED  BY <1>8, <1>9, <1>10, <1>11, <2>1, <2>2 DEF PairInv, Message
<1>13. SocketInv(p)' /\ FileInv(p)' /\ EndedInv(p)'
  BY <1>1, <1>3, <1>7, <1>8, <1>10, PairTestGoesOn
<1>14. QED  BY <1>1, <1>7, <1>12, <1>13, PassBlames DEF Own

\* ... where read() finds the whole of it.
LEMMA ReadOwn ==
  ASSUME IInv, NEW p \in Procs, fault \in Passing, SysRead(p)
  PROVE  Own(p)' /\ Blamed(p)'
<1> DEFINE t == test[p]
           s == step[p]
           new == [fds[p]["sockfds[1]"] EXCEPT !.in = 0]
<1>1. /\ TypesInv /\ status[p] = "running" /\ t \in Tests /\ s \in 1..Length(t)
  BY DEF IInv, TypesInv, SysRead, At
<1>2. t = 14 /\ s = 3 /\ Now(p).handle = "sockfds[1]"
  BY <1>1, Where DEF SysRead, At, Now
<1>3. /\ Own(p) /\ Length(t) = 5 /\ ~standalone
      /\ fds[p]["sockfd"] = Closed /\ p \notin port
      /\ lost[p] = LostAt(t, s)
      /\ \A h \in Held(t, s) : fds[p][h].role # "closed" /\ fds[p][h].name = "none"
      /\ \A h \in Handles : fds[p][h] \in Sockets
      /\ build[p] \notin neighbours[p] => build[p] \notin files
  BY <1>1, <1>2, InPairTest
<1>4. Held(t, s) = Pair /\ LostAt(t, 4) = LostAt(t, s)
  <2>1. LostAt(t, s + 1) = LostAt(t, s)
    BY <1>2, PairLosses
  <2>2. QED  BY <1>2, <2>1 DEF Held, HasPair
<1>5. Socket(p).in = Message /\ Socket(p) = fds[p]["sockfds[1]"]
  BY <1>1, <1>2, <1>3 DEF Own, PairInv, Socket
<1>6. GoOn(p) /\ Set(p, "sockfds[1]", new) /\ UNCHANGED <<lost, host>>
  BY <1>2, <1>5 DEF SysRead, Assert
<1>7. /\ status'[p] = "running" /\ test'[p] = 14 /\ step'[p] = 4
      /\ fault' = fault /\ build'[p] = build[p] /\ neighbours'[p] = neighbours[p]
  BY <1>1, <1>2, <1>3, <1>6, After
<1>8. new \in Sockets /\ new.role # "closed" /\ new.name = "none"
  BY <1>3, <1>4 DEF Sockets, Pair, Handles
<1> HIDE DEF new
<1>9. /\ fds'[p]["sockfds[1]"] = new
      /\ fds'[p]["sockfds[0]"] = fds[p]["sockfds[0]"]
      /\ fds'[p]["sockfd"] = Closed
  BY <1>1, <1>3, <1>6, <1>8, SetTypes DEF Handles
<1>10. lost'[p] = LostAt(t, 4)
  BY <1>3, <1>4, <1>6
<1>11. PairInv(p)'
  <2>1. \A h \in Pair : fds'[p][h].role # "closed" /\ fds'[p][h].name = "none"
    BY <1>3, <1>4, <1>8, <1>9 DEF Pair
  <2>2. /\ Held(test[p], step[p])' = Pair
        /\ LostAt(test[p], step[p])' = LostAt(t, 4)
    <3>1. Held(test[p], step[p])' = Pair
      BY <1>7 DEF Held, HasPair
    <3>2. QED  BY <1>2, <1>7, <3>1, LossNext
  <2>3. QED  BY <1>7, <1>9, <1>10, <2>1, <2>2 DEF PairInv
<1>12. SocketInv(p)' /\ FileInv(p)' /\ EndedInv(p)'
  BY <1>1, <1>3, <1>6, <1>7, <1>9, PairTestGoesOn
<1>13. QED  BY <1>1, <1>6, <1>11, <1>12, PassBlames DEF Own

\* shutdown() of an end leaves the other one connected.
LEMMA ShutdownOwn ==
  ASSUME IInv, NEW p \in Procs, fault \in Passing, SysShutdown(p)
  PROVE  Own(p)' /\ Blamed(p)'
<1> DEFINE t == test[p]
           s == step[p]
           h == Now(p).handle
           new == IF fault = "shutdown_none" THEN fds[p][h]
                  ELSE [fds[p][h] EXCEPT !.role = "shut"]
<1>1. /\ TypesInv /\ status[p] = "running" /\ t \in Tests /\ s \in 1..Length(t)
  BY DEF IInv, TypesInv, SysShutdown, At
<1>2. \/ t = 15 /\ s = 2 /\ h = "sockfds[0]"
      \/ t = 15 /\ s = 3 /\ h = "sockfds[1]"
  BY <1>1, Where DEF SysShutdown, At, Now
<1>3. /\ Own(p) /\ Length(t) = 5 /\ ~standalone
      /\ fds[p]["sockfd"] = Closed /\ p \notin port
      /\ lost[p] = LostAt(t, s)
      /\ \A i \in Held(t, s) : fds[p][i].role # "closed" /\ fds[p][i].name = "none"
      /\ \A i \in Handles : fds[p][i] \in Sockets
      /\ build[p] \notin neighbours[p] => build[p] \notin files
  <2>1. t \in 12..15
    BY <1>2
  <2>2. Length(t) = 5
    BY <1>1, <1>2, <2>1, InPairTest
  <2>3. QED  BY <1>1, <2>1, <2>2, InPairTest
<1>4. Held(t, s) = Pair /\ LostAt(t, s + 1) = LostAt(t, s)
  <2>1. LostAt(t, s + 1) = LostAt(t, s)
    BY <1>2, PairLosses
  <2>2. QED  BY <1>2, <2>1 DEF Held, HasPair
<1>5. /\ h \in Pair /\ fds[p][h].role = "connected"
      /\ s = 2 => fds[p]["sockfds[1]"].role = "connected"
  BY <1>1, <1>2, <1>3, <1>4 DEF Own, PairInv, Pair
<1>6. GoOn(p) /\ Set(p, h, new) /\ UNCHANGED <<lost, host>>
  <2>1. t \in 12..15
    BY <1>2
  <2>2. fault # "shutdown_closes"
    BY <1>1, <2>1, InPairTest DEF UnseenStandalone
  <2>3. QED  BY <1>5, <2>2 DEF SysShutdown, Assert, Socket
<1>7. /\ status'[p] = "running" /\ test'[p] = 15 /\ step'[p] = s + 1
      /\ fault' = fault /\ build'[p] = build[p] /\ neighbours'[p] = neighbours[p]
  BY <1>1, <1>2, <1>3, <1>6, After
<1>8. new \in Sockets /\ new.role # "closed" /\ new.name = "none"
  BY <1>3, <1>4, <1>5 DEF Sockets, Pair, Handles, Roles
<1> HIDE DEF new
<1>9. /\ fds'[p][h] = new
      /\ \A i \in Handles \ {h} : fds'[p][i] = fds[p][i]
  BY <1>1, <1>5, <1>6, <1>8, SetTypes DEF Handles, Pair
<1>10. lost'[p] = LostAt(t, s + 1)
  BY <1>3, <1>4, <1>6
<1>11. PairInv(p)'
  <2>1. \A i \in Pair : fds'[p][i].role # "closed" /\ fds'[p][i].name = "none"
    BY <1>3, <1>4, <1>8, <1>9 DEF Pair, Handles
  <2>2. /\ Held(test[p], step[p])' = Pair
        /\ LostAt(test[p], step[p])' = LostAt(t, s + 1)
    <3>1. Held(test[p], step[p])' = Pair
      BY <1>2, <1>7 DEF Held, HasPair
    <3>2. QED  BY <1>2, <1>7, <3>1, LossNext
  <2>3. s = 2 => fds'[p]["sockfds[1]"].role = "connected"
    BY <1>2, <1>5, <1>9 DEF Handles
  <2>4. QED  BY <1>2, <1>7, <1>10, <2>1, <2>2, <2>3 DEF PairInv
<1>12. fds'[p]["sockfd"] = Closed
  BY <1>3, <1>5, <1>9 DEF Handles, Pair
<1>13. SocketInv(p)' /\ FileInv(p)' /\ EndedInv(p)'
  BY <1>1, <1>3, <1>6, <1>7, <1>12, PairTestGoesOn
<1>14. QED  BY <1>1, <1>6, <1>11, <1>13, PassBlames DEF Own

\* close() of the only socket of a test of common.c.
LEMMA CloseSocketOwn ==
  ASSUME IInv, NEW p \in Procs, fault \in Passing, SysClose(p), Now(p).handle = "sockfd",
         test[p] \in SocketTestNos, step[p] = CloseAt(Kind(test[p]))
  PROVE  Own(p)' /\ Blamed(p)'
<1> DEFINE t == test[p]
           s == step[p]
<1>1. status[p] = "running"
  BY DEF SysClose, At
<1>2. /\ TypesInv /\ Own(p) /\ t \in Tests /\ s \in 1..Length(t)
      /\ t \in 1..11 /\ t # 6 /\ s \in 2..5
      /\ t \in InetTests <=> t <= 5
      /\ Length(t) = s + IF t \in 8..11 THEN 1 ELSE 0
      /\ lost[p] = LostAt(t, s) /\ LostAt(t, s) \in Nat /\ \A h \in Pair : fds[p][h] = Closed
  <2>1. TypesInv /\ t \in Tests /\ s \in 1..Length(t)
    BY <1>1, InSocketTest
  <2>2. LostAt(t, s) \in Nat
    BY <2>1, SocketLosses
  <2>3. QED  BY <1>1, <2>2, InSocketTest
<1>3. Opened(t, s) /\ (Bound(t, s) <=> s > 2) /\ (Filed(t, s) <=> t \in 8..11 /\ s > 2)
  BY <1>2 DEF Opened, Bound, Filed
<1>4. /\ fds[p]["sockfd"] # Closed
      /\ p \in port => fds[p]["sockfd"].name = "port"
  BY <1>1, <1>2, <1>3 DEF Own, SocketInv, Closed
<1>5. /\ GoOn(p) /\ Set(p, "sockfd", Closed) /\ files' = files
      /\ lost'[p] = lost[p] + LostByClose
      /\ port' = IF fds[p]["sockfd"].name = "port" THEN port \ {p} ELSE port
  <2>1. lost \in [Procs -> Nat] /\ fault # "close_keeps"
    BY <1>2 DEF TypesInv, Passing, Unseen, UnseenStandalone
  <2>2. Socket(p) # Closed
    BY <1>4 DEF Socket
  <2>3. lost'[p] = lost[p] + LostByClose
    BY <1>2, <2>1, <2>2 DEF SysClose, Assert, Leaks, LostByClose
  <2>4. QED  BY <2>1, <2>2, <2>3 DEF SysClose, Assert, Socket
<1>6. /\ fds'[p]["sockfd"] = Closed /\ lost'[p] = LostAt(t, s) + LostByClose
      /\ \A h \in Pair : fds'[p][h] = Closed
      /\ p \notin port'
  <2>1. /\ fds'[p]["sockfd"] = Closed
        /\ \A h \in Handles \ {"sockfd"} : fds'[p][h] = fds[p][h]
    BY <1>2, <1>5, SetTypes, SocketTypes DEF Handles
  <2>2. QED  BY <1>2, <1>4, <1>5, <2>1 DEF Handles, Pair
<1>7. fault' = fault /\ build'[p] = build[p] /\ neighbours'[p] = neighbours[p]
  BY <1>1, <1>2, <1>5, After
<1>8. CASE t \in 8..11
  <2>1. status'[p] = "running" /\ test'[p] = t /\ step'[p] = s + 1
    BY <1>1, <1>2, <1>5, <1>8, After
  <2>2. /\ ~Opened(t, s + 1) /\ ~Bound(t, s + 1) /\ (Filed(t, s + 1) <=> s + 1 > 2)
    BY <1>2, <1>8 DEF Opened, Bound, Filed
  <2>3. Kind(t) # 1
    BY <1>8 DEF Kind, InetTests
  <2>4. s > 2
    BY <1>2, <2>3 DEF CloseAt
  <2>5. SocketInv(p)'
    BY <1>6, <2>1, <2>2 DEF SocketInv, Opened, Bound
  <2>6. FileInv(p)' /\ EndedInv(p)'
    BY <1>1, <1>2, <1>3, <1>5, <1>7, <1>8, <2>1, <2>2, <2>4
       DEF Own, FileInv, EndedInv, Filed
  <2>7. PairInv(p)'
    <3>1. LostAt(t, s + 1) = LostAt(t, s) + LostByClose
      BY <1>2, <1>8, SocketLosses
    <3>2. QED  BY <1>2, <1>6, <1>7, <1>8, <2>1, <3>1, NoPairYet
  <2>8. QED  BY <1>1, <1>2, <1>5, <2>5, <2>6, <2>7, PassBlames DEF Own
<1>9. CASE t \notin 8..11 /\ ~(standalone /\ t = 5)
  <2>1. status'[p] = "running" /\ test'[p] = t + 1 /\ step'[p] = 1
    BY <1>1, <1>2, <1>5, <1>9, After
  <2>2. SocketInv(p)'
    BY <1>6, <2>1 DEF SocketInv, Opened, Bound
  <2>3. FileInv(p)' /\ EndedInv(p)'
    BY <1>1, <1>2, <1>3, <1>5, <1>7, <1>9, <2>1 DEF Own, FileInv, EndedInv, Filed
  <2>4. PairInv(p)'
    <3>1. LostAt(t + 1, 1) = LostAt(t, s) + LostByClose
      BY <1>2, <1>9, SocketLosses
    <3>2. QED  BY <1>2, <1>6, <1>7, <2>1, <3>1, NoPairYet
  <2>5. QED  BY <1>1, <1>2, <1>5, <2>2, <2>3, <2>4, PassBlames DEF Own
<1>10. CASE standalone /\ t = 5
  <2>1. status'[p] = "ok"
    <3>1. s = Length(t) /\ t = IF standalone THEN 5 ELSE 15
      BY <1>2, <1>10
    <3>2. QED  BY <1>1, <1>2, <1>5, <3>1, After
  <2>2. Own(p)'
    BY <1>6, <2>1 DEF Own, EndedInv, SocketInv, PairInv, FileInv, Handles, Pair
  <2>3. QED  BY <1>1, <1>2, <1>5, <2>2, PassBlames
<1>11. QED  BY <1>8, <1>9, <1>10

\* close() of the first or the second socket of a pair.
LEMMA ClosePairOwn ==
  ASSUME IInv, NEW p \in Procs, fault \in Passing, SysClose(p),
         test[p] \in {12, 14, 15},
         \/ Now(p).handle = "sockfds[0]" /\ step[p] = Length(test[p]) - 1
         \/ Now(p).handle = "sockfds[1]" /\ step[p] = Length(test[p])
  PROVE  Own(p)' /\ Blamed(p)'
<1> DEFINE t == test[p]
           s == step[p]
           h == Now(p).handle
<1>1. status[p] = "running" /\ t \in 12..15
  BY DEF SysClose, At
<1>2. /\ TypesInv /\ Own(p) /\ t \in Tests /\ s \in 1..Length(t) /\ s \in 1..6
      /\ ~standalone
      /\ fds[p]["sockfd"] = Closed /\ p \notin port
      /\ lost[p] = LostAt(t, s)
      /\ \A i \in Pair \ Held(t, s) : fds[p][i] = Closed
      /\ \A i \in Held(t, s) : fds[p][i].role # "closed" /\ fds[p][i].name = "none"
      /\ build[p] \notin neighbours[p] => build[p] \notin files
  BY <1>1, InPairTest
<1>3. Length(t) = IF t = 12 THEN 3 ELSE 5
  BY <1>1, InPairTest
<1>4. /\ h = "sockfds[0]" => s = Length(t) - 1 /\ Held(t, s) = Pair
      /\ h = "sockfds[1]" => s = Length(t) /\ Held(t, s) = {"sockfds[1]"}
      /\ h \in Pair /\ h \in Held(t, s)
  BY <1>3 DEF Held, HasPair, Pair
<1>5. fds[p][h].role # "closed" /\ fds[p][h].name = "none" /\ fds[p][h] # Closed
  BY <1>2, <1>4 DEF Closed
<1>6. /\ GoOn(p) /\ Set(p, h, Closed) /\ files' = files /\ port' = port
      /\ lost'[p] = lost[p] + LostByClose
  <2>1. lost \in [Procs -> Nat]
    BY <1>2 DEF TypesInv
  <2>2. Socket(p) # Closed /\ Socket(p).name # "port"
    BY <1>5 DEF Socket
  <2>3. lost'[p] = lost[p] + LostByClose
    BY <1>2, <2>1, <2>2 DEF SysClose, Assert, Leaks, LostByClose
  <2>4. QED  BY <2>2, <2>3 DEF SysClose, Assert
<1>7. fault' = fault /\ build'[p] = build[p] /\ neighbours'[p] = neighbours[p]
  BY <1>1, <1>2, <1>6, After
<1>8. /\ fds'[p][h] = Closed
      /\ \A i \in Handles \ {h} : fds'[p][i] = fds[p][i]
      /\ fds'[p]["sockfd"] = Closed
  <2>1. /\ fds'[p][h] = Closed
        /\ \A i \in Handles \ {h} : fds'[p][i] = fds[p][i]
    BY <1>2, <1>4, <1>6, SetTypes, SocketTypes DEF Handles, Pair
  <2>2. "sockfd" \in Handles \ {h}
    BY <1>4 DEF Handles, Pair
  <2>3. QED  BY <1>2, <2>1, <2>2
<1>9. CASE h = "sockfds[0]"
  <2>1. status'[p] = "running" /\ test'[p] = t /\ step'[p] = Length(t)
    BY <1>1, <1>2, <1>3, <1>4, <1>6, <1>9, After
  <2>2. /\ Held(t, s) = Pair
        /\ Held(test[p], step[p])' = {"sockfds[1]"}
        /\ LostAt(test[p], step[p])' = LostAt(t, s) + LostByClose
    <3>1. Held(t, s) = Pair /\ Held(test[p], step[p])' = {"sockfds[1]"}
      BY <1>3, <1>4, <1>9, <2>1 DEF Held, HasPair
    <3>2. LostAt(t, s + 1) = LostAt(t, s) + LostByClose /\ s + 1 = Length(t)
      BY <1>3, <1>4, <1>9, PairLosses
    <3>3. QED  BY <1>7, <2>1, <3>1, <3>2, LossNext
  <2>3. /\ fds'[p]["sockfds[0]"] = Closed
        /\ fds'[p]["sockfds[1]"].role # "closed" /\ fds'[p]["sockfds[1]"].name = "none"
    BY <1>2, <1>8, <1>9, <2>2 DEF Handles, Pair
  <2>4. step'[p] = 2 \/ step'[p] = 3 => t = 12 /\ s = 2
    BY <1>3, <1>4, <1>9, <2>1
  <2>5. t = 12 /\ s = 2 => fds'[p]["sockfds[1]"].role = "connected"
    BY <1>1, <1>2, <1>8, <1>9, <2>2 DEF Own, PairInv, Pair, Handles
  <2>6. t = 14 => step'[p] # 3
    BY <1>3, <2>1
  <2>7. PairInv(p)'
    BY <1>2, <1>6, <2>1, <2>2, <2>3, <2>4, <2>5, <2>6 DEF PairInv, Pair
  <2>8. SocketInv(p)' /\ FileInv(p)' /\ EndedInv(p)'
    BY <1>1, <1>2, <1>6, <1>7, <1>8, <2>1, PairTestGoesOn DEF host
  <2>9. QED  BY <1>1, <1>2, <1>6, <2>7, <2>8, PassBlames DEF Own
<1>10. CASE h = "sockfds[1]"
  <2>1. \A i \in Handles : fds'[p][i] = Closed
    BY <1>2, <1>4, <1>8, <1>10 DEF Handles, Pair
  <2>2. CASE t = 15
    <3>1. status'[p] = "ok"
      BY <1>1, <1>2, <1>3, <1>4, <1>6, <1>10, <2>2, After
    <3>2. Own(p)'
      BY <1>2, <1>6, <2>1, <3>1 DEF Own, EndedInv, SocketInv, PairInv, FileInv
    <3>3. QED  BY <1>1, <1>2, <1>6, <3>2, PassBlames
  <2>3. CASE t # 15
    <3>1. status'[p] = "running" /\ test'[p] = t + 1 /\ step'[p] = 1
      BY <1>1, <1>2, <1>3, <1>4, <1>6, <1>10, <2>3, After
    <3>2. t \in {12, 14}
      BY <2>3
    <3>3. /\ Held(test[p], step[p])' = {}
          /\ LostAt(test[p], step[p])' = LostAt(t, s) + LostByClose
      <4>1. Held(test[p], step[p])' = {}
        BY <1>3, <1>4, <1>10, <3>1, <3>2 DEF Held, HasPair
      <4>2. LostAt(t + 1, 1) = LostAt(t, s) + LostByClose
        BY <1>3, <1>4, <1>10, <3>2, PairLosses
      <4>3. QED  BY <1>7, <3>1, <4>1, <4>2, LossNext
    <3>4. PairInv(p)'
      BY <1>2, <1>6, <2>1, <3>1, <3>3 DEF PairInv, Handles, Pair
    <3>5. SocketInv(p)' /\ FileInv(p)' /\ EndedInv(p)'
      BY <1>1, <1>2, <1>6, <1>7, <1>8, <3>1, <3>2, PairTestGoesOn DEF host
    <3>6. QED  BY <1>1, <1>2, <1>6, <3>4, <3>5, PassBlames DEF Own
  <2>4. QED  BY <2>2, <2>3
<1>11. QED  BY <1>9, <1>10

\* close(), wherever it is called.
LEMMA CloseOwn ==
  ASSUME IInv, NEW p \in Procs, fault \in Passing, SysClose(p)
  PROVE  Own(p)' /\ Blamed(p)'
<1> DEFINE t == test[p]
           s == step[p]
<1>1. t \in Tests /\ s \in 1..Length(t)
  BY DEF IInv, TypesInv
<1>2. Now(p).call = "close" /\ Now(p) = Suite[t][s]
  BY DEF SysClose, At, Now
<1>3. \/ t \in SocketTestNos /\ s = CloseAt(Kind(t)) /\ Now(p).handle = "sockfd"
      \/ t \in {12, 14, 15} /\ s = Length(t) - 1 /\ Now(p).handle = "sockfds[0]"
      \/ t \in {12, 14, 15} /\ s = Length(t) /\ Now(p).handle = "sockfds[1]"
  BY <1>1, <1>2, Where
<1>4. QED  BY <1>3, CloseSocketOwn, ClosePairOwn

-----------------------------------------------------------------------------
\* A call: the frame for the others, the position for the process itself.
LEMMA CallKeeps ==
  ASSUME IInv, NEW p \in Procs, SysCall(p)
  PROVE  IInv'
<1>1. TypesInv /\ status[p] = "running"
  BY DEF IInv, SysCall, At, SysSocket, SysBind, SysListen, SysGetsockname, SysClose,
     SysUnlink, CleanUp, SysSocketpair, SysGetpeername, SysWrite, SysRead, SysShutdown
<1>2. EndProcess(p, "aborted") \/ (GoOn(p) /\ Effect(p))
  BY <1>1, CallEffects
<1>3. TypesInv' /\ Frame(p)
  BY <1>1, <1>2, EndStep, GoOnStep
<1>4. /\ NeighboursInv'
      /\ \A q \in Procs \ {p} : fault \in Passing => Own(q)' /\ Blamed(q)'
  BY <1>1, <1>3, OthersKeep
<1>5. ASSUME fault \in Passing
      PROVE  Own(p)' /\ Blamed(p)'
  BY <1>5, SocketOwn, BindOwn, ListenOwn, GetsocknameOwn, CloseOwn, UnlinkOwn,
     CleanUpOwn, SocketpairOwn, GetpeernameOwn, WriteOwn, ReadOwn, ShutdownOwn DEF SysCall
<1>6. fault' = fault /\ Passing' = Passing
  BY <1>3 DEF Frame, world, Passing, UnseenStandalone
<1>7. ConformingInv'
  <2> SUFFICES ASSUME fault \in Passing, NEW q \in Procs
               PROVE  Own(q)' /\ Blamed(q)'
    BY <1>6 DEF ConformingInv
  <2>1. CASE q = p
    BY <1>5, <2>1
  <2>2. CASE q # p
    BY <1>4, <2>2
  <2>3. QED  BY <2>1, <2>2
<1>8. QED  BY <1>3, <1>4, <1>7 DEF IInv

\* A process that is killed cleans up nothing but its address.
LEMMA KillKeeps ==
  ASSUME IInv, NEW p \in Procs, Kill(p)
  PROVE  IInv'
<1>1. TypesInv /\ status[p] = "running" /\ EndProcess(p, "killed")
  BY DEF IInv, Kill
<1>2. TypesInv' /\ Frame(p)
  BY <1>1, EndStep
<1>3. /\ NeighboursInv'
      /\ \A q \in Procs \ {p} : fault \in Passing => Own(q)' /\ Blamed(q)'
  BY <1>1, <1>2, OthersKeep
<1>4. Own(p)' /\ Blamed(p)'
  BY <1>1, EndOwn DEF Blamed
<1>5. fault' = fault /\ Passing' = Passing
  BY <1>2 DEF Frame, world, Passing, UnseenStandalone
<1>6. ConformingInv'
  BY <1>3, <1>4, <1>5 DEF ConformingInv
<1>7. QED  BY <1>2, <1>3, <1>6 DEF IInv

\* A process starts with nothing, and is a neighbour to all that run.
LEMMA StartKeeps ==
  ASSUME IInv, NEW p \in Procs, Start(p)
  PROVE  IInv'
<1>1. PICK b \in SEED :
        /\ build' = [build EXCEPT ![p] = b]
        /\ neighbours' = [q \in Procs |->
             IF q = p THEN {build[r] : r \in Running}
             ELSE IF q \in Running THEN neighbours[q] \cup {b} ELSE neighbours[q]]
  BY DEF Start
<1>2. /\ status[p] # "running"
      /\ status' = [status EXCEPT ![p] = "running"]
      /\ test' = [test EXCEPT ![p] = 1] /\ step' = [step EXCEPT ![p] = 1]
      /\ lost' = [lost EXCEPT ![p] = 0]
      /\ UNCHANGED <<fault, standalone, limit, port, files, fds>>
  BY DEF Start, world, host
<1>3. TypesInv
  BY DEF IInv
<1>4. /\ status'[p] = "running" /\ test'[p] = 1 /\ step'[p] = 1 /\ lost'[p] = 0
      /\ build'[p] = b
      /\ \A q \in Procs \ {p} :
           /\ status'[q] = status[q] /\ test'[q] = test[q] /\ step'[q] = step[q]
           /\ lost'[q] = lost[q] /\ build'[q] = build[q]
  BY <1>1, <1>2, <1>3 DEF TypesInv
<1>5. neighbours' \in [Procs -> SUBSET SEED]
  <2>1. {build[r] : r \in Running} \subseteq SEED
    BY <1>3 DEF TypesInv, Running
  <2>2. \A q \in Procs : neighbours[q] \subseteq SEED
    BY <1>3 DEF TypesInv
  <2>3. QED  BY <1>1, <2>1, <2>2
<1>6. TypesInv'
  <2>1. Tests' = Tests /\ 1 \in Tests
    BY <1>2 DEF Tests
  <2>2. 1 \in 1..Length(1)
    BY Lengths, <2>1
  <2>3. \A q \in Procs : test'[q] \in Tests /\ step'[q] \in 1..Length(test'[q])
    BY <1>3, <1>4, <2>1, <2>2 DEF TypesInv
  <2>4. /\ build' \in [Procs -> SEED] /\ lost' \in [Procs -> Nat]
        /\ test' \in [Procs -> Nat] /\ step' \in [Procs -> Nat]
    BY <1>1, <1>2, <1>3 DEF TypesInv
  <2>5. status' \in [Procs -> {"idle", "running", "ok", "aborted", "killed"}]
    BY <1>2, <1>3 DEF TypesInv
  <2>6. QED  BY <1>2, <1>3, <1>5, <2>1, <2>3, <2>4, <2>5 DEF TypesInv
<1>7. NeighboursInv'
  <2> SUFFICES ASSUME NEW q \in Procs, NEW r \in Procs, status'[q] = "running",
                      status'[r] = "running", q # r
               PROVE  build'[r] \in neighbours'[q]
    BY DEF NeighboursInv
  <2>1. CASE q = p
    <3>1. r \in Running /\ build'[r] = build[r]
      BY <1>4, <2>1 DEF Running
    <3>2. QED  BY <1>1, <2>1, <3>1
  <2>2. CASE r = p
    <3>1. q \in Running
      BY <1>4, <2>2 DEF Running
    <3>2. QED  BY <1>1, <1>4, <2>2, <3>1
  <2>3. CASE q # p /\ r # p
    <3>1. build[r] \in neighbours[q]
      BY <1>4, <2>3 DEF IInv, NeighboursInv
    <3>2. QED  BY <1>1, <1>4, <2>3, <3>1
  <2>4. QED  BY <2>1, <2>2, <2>3
<1>8. ASSUME fault \in Passing, NEW q \in Procs
      PROVE  Own(q)' /\ Blamed(q)'
  <2>1. Own(q) /\ Blamed(q)
    BY <1>8 DEF IInv, ConformingInv
  <2>2. CASE q = p
    <3>1. p \notin port' /\ \A h \in Handles : fds'[p][h] = Closed
      BY <1>2, <2>1, <2>2 DEF Own, EndedInv
    <3>2. Held(test[p], step[p])' = {} /\ LostAt(test[p], step[p])' = 0
      <4>1. Held(test[p], step[p])' = {}
        BY <1>4 DEF Held, HasPair
      <4>2. LostAt(1, 1) = 0
        BY DEF LostAt, Overwritten, ClosedBefore, InetTests
      <4>3. QED  BY <1>2, <1>4, <4>1, <4>2, LossNext
    <3>3. PairInv(p)'
      BY <1>4, <3>1, <3>2 DEF PairInv, Handles, Pair
    <3>4. SocketInv(p)'
      BY <1>4, <3>1 DEF SocketInv, Opened, Bound, Handles
    <3>5. FileInv(p)' /\ EndedInv(p)' /\ Blamed(p)'
      BY <1>4 DEF FileInv, EndedInv, Blamed
    <3>6. QED  BY <2>2, <3>3, <3>4, <3>5 DEF Own
  <2>3. CASE q # p
    <3>1. /\ status'[q] = status[q] /\ test'[q] = test[q] /\ step'[q] = step[q]
          /\ lost'[q] = lost[q] /\ build'[q] = build[q] /\ fds' = fds /\ port' = port
          /\ files' = files
      BY <1>2, <1>4, <2>3
    <3>2. neighbours[q] \subseteq neighbours'[q]
      BY <1>1, <2>3
    <3>3. EndedInv(q)' /\ SocketInv(q)' /\ PairInv(q)'
      <4>1. EndedInv(q)'
        BY <2>1, <3>1 DEF Own, EndedInv
      <4>2. SocketInv(q)'
        BY <2>1, <3>1 DEF Own, SocketInv
      <4>3. PairInv(q)'
        <5>1. LostAt(test[q], step[q])' = LostAt(test[q], step[q])
          BY <1>2, <3>1, LossNext
        <5>2. QED  BY <2>1, <3>1, <5>1 DEF Own, PairInv
      <4>4. QED  BY <4>1, <4>2, <4>3
    <3>4. FileInv(q)'
      BY <2>1, <3>1, <3>2 DEF Own, FileInv
    <3>5. Now(q)' = Now(q)
      BY <1>2, <3>1 DEF Now, Suite
    <3>6. Blamed(q)'
      BY <1>2, <2>1, <3>1, <3>2, <3>5 DEF Blamed, Enough, Leaks, Needed, Made
    <3>7. QED  BY <3>3, <3>4, <3>6 DEF Own
  <2>4. QED  BY <2>2, <2>3
<1>9. ConformingInv'
  BY <1>2, <1>8 DEF ConformingInv, Passing, UnseenStandalone
<1>10. QED  BY <1>6, <1>7, <1>9 DEF IInv

\* Stop, and steps of others, change nothing.
LEMMA StutterKeeps ==
  ASSUME IInv, UNCHANGED vars
  PROVE  IInv'
<1> USE DEF vars, world, host, process
<1>1. TypesInv'
  BY DEF IInv, TypesInv, Tests
<1>2. NeighboursInv'
  BY DEF IInv, NeighboursInv
<1>3. ASSUME NEW p \in Procs, Own(p)
      PROVE  Own(p)'
  <2>1. LostAt(test[p], step[p])' = LostAt(test[p], step[p])
    BY LossNext
  <2>2. QED  BY <1>3, <2>1 DEF Own, EndedInv, SocketInv, PairInv, FileInv
<1>4. \A p \in Procs : Blamed(p) => Blamed(p)'
  BY DEF Blamed, Enough, Leaks, Needed, Made, Now, Suite
<1>5. QED
  BY <1>1, <1>2, <1>3, <1>4 DEF IInv, ConformingInv, Passing, UnseenStandalone

\* Every step keeps the invariant ...
LEMMA NextIInv == IInv /\ [Next]_vars => IInv'
<1> SUFFICES ASSUME IInv, [Next]_vars PROVE IInv'
  OBVIOUS
<1>1. ASSUME NEW p \in Procs, SysCall(p) PROVE IInv'
  BY <1>1, CallKeeps
<1>2. ASSUME NEW p \in Procs, Start(p) PROVE IInv'
  BY <1>2, StartKeeps
<1>3. ASSUME NEW p \in Procs, Kill(p) PROVE IInv'
  BY <1>3, KillKeeps
<1>4. ASSUME Stop \/ UNCHANGED vars PROVE IInv'
  BY <1>4, StutterKeeps DEF Stop
<1>5. QED  BY <1>1, <1>2, <1>3, <1>4 DEF Next

\* ... that holds at the start, ...
LEMMA InitIInv == Init => IInv
<1> SUFFICES ASSUME Init PROVE IInv
  OBVIOUS
<1>1. TypesInv
  <2>1. 1 \in Tests /\ 1 \in 1..Length(1)
    <3>1. 1 \in Tests
      BY DEF Init, Tests
    <3>2. QED  BY <3>1, Lengths
  <2>2. fds \in [Procs -> [Handles -> Sockets]]
    BY SocketTypes DEF Init
  <2>3. limit \in Nat \ {0}
    BY ConstantsAssumption DEF Init
  <2>4. QED  BY <2>1, <2>2, <2>3 DEF Init, TypesInv, Sockets, SEED
<1>2. \A p \in Procs : status[p] = "idle" /\ p \notin port
                        /\ \A h \in Handles : fds[p][h] = Closed
  BY DEF Init
<1>3. NeighboursInv
  BY <1>2 DEF NeighboursInv
<1>4. \A p \in Procs : Own(p) /\ Blamed(p)
  BY <1>2 DEF Own, EndedInv, SocketInv, PairInv, FileInv, Blamed
<1>5. QED  BY <1>1, <1>3, <1>4 DEF IInv, ConformingInv

\* ... and so at all times: for any number of processes, and for any fault, the
\* call a process is at is one of its list, and with none that is seen the
\* position tells what it holds.
THEOREM Invariant == Spec => []IInv
  BY InitIInv, NextIInv, PTL DEF Spec

\* A failure on a conforming library is a neighbour's doing (main.c:155), for
\* any number of processes, started and killed any number of times.
THEOREM FailureIsNeighbours == Spec => []FailsOnlyByNeighbour
<1>1. IInv => FailsOnlyByNeighbour
  BY DEF IInv, ConformingInv, Conforming, Passing, Enough, Leaks, Blamed,
         FailsOnlyByNeighbour
<1>2. QED  BY <1>1, Invariant, PTL

\* Between its tests a process that is alone has what it began with.
THEOREM TestsGiveBack == Spec => []CleanBetween
<1>1. IInv => CleanBetween
  <2> SUFFICES ASSUME IInv, NEW p \in Procs, Conforming, neighbours[p] = {},
                      status[p] = "running", step[p] = 1
               PROVE  /\ p \notin port
                      /\ OpenFds(p) = IF test[p] > Len(test_inet_sockets) + 8
                                      THEN 2 ELSE 0
                      /\ test[p] > Len(test_inet_sockets) + 1 => build[p] \notin files
    BY DEF CleanBetween
  <2> DEFINE t == test[p]
  <2>1. /\ TypesInv /\ Own(p) /\ t \in Tests /\ t \in 1..15 /\ fault = "none"
    BY Lengths DEF IInv, ConformingInv, TypesInv, Conforming, Passing
  <2>2. Len(test_inet_sockets) = 5
    BY DEF test_inet_sockets, SocketTests
  <2>3. ~Opened(t, 1) /\ ~Bound(t, 1) /\ ~Filed(t, 1)
    BY DEF Opened, Bound, Filed
  <2>4. p \notin port /\ fds[p]["sockfd"] = Closed
    BY <2>1, <2>3 DEF Own, SocketInv
  <2>5. t > 6 => build[p] \notin files
    BY <2>1, <2>3 DEF Own, FileInv
  <2>6. /\ lost[p] = LostAt(t, 1)
        /\ \A h \in Pair \ Held(t, 1) : fds[p][h] = Closed
        /\ \A h \in Held(t, 1) : fds[p][h].role # "closed"
    BY <2>1 DEF Own, PairInv
  <2>7. OpenFds(p) = IF t > 13 THEN 2 ELSE 0
    <3>1. CASE t = 14
      <4>1. Held(t, 1) = Pair /\ LostAt(t, 1) = 0
        BY <2>1, <3>1 DEF Held, HasPair, LostAt, Overwritten, Leaks
      <4>2. lost[p] = 0 /\ lost[p] \in Nat /\ \A h \in Pair : fds[p][h] # Closed
        BY <2>6, <4>1 DEF Closed
      <4>3. OpenFds(p) = 2 + lost[p]
        BY <2>4, <4>2, Counted
      <4>4. QED  BY <3>1, <4>2, <4>3
    <3>2. CASE t # 14
      <4>1. Held(t, 1) = {} /\ LostAt(t, 1) = IF t = 15 THEN 2 ELSE 0
        BY <2>1, <3>2 DEF Held, HasPair, LostAt, Overwritten, Leaks
      <4>2. /\ lost[p] = IF t = 15 THEN 2 ELSE 0
            /\ lost[p] \in Nat /\ \A h \in Pair : fds[p][h] = Closed
        BY <2>6, <4>1
      <4>3. OpenFds(p) = lost[p]
        BY <2>4, <4>2, Counted
      <4>4. QED  BY <2>1, <3>2, <4>2, <4>3
    <3>3. QED  BY <3>1, <3>2
  <2>8. QED  BY <2>2, <2>4, <2>5, <2>7
<1>2. QED  BY <1>1, Invariant, PTL

-----------------------------------------------------------------------------
(***************************************************************************)
(* What a pass and a failure tell.  With a fault that passes, the positions *)
(* above are those of the suite, and a failure is a neighbour's doing.  A   *)
(* close() that leaks passes only if there is room for all it leaves open.  *)
(***************************************************************************)
\* The sockets made so far.
MadeAt(t, s) ==
  IF t \in InetTests THEN t - 1 + IF 1 < s THEN 1 ELSE 0
  ELSE IF t = 6 THEN 5
  ELSE IF t \in UnixTests THEN t - 2 + IF 1 < s THEN 1 ELSE 0
  ELSE 10 + 2 * (t - 12) + IF 1 < s THEN 2 ELSE 0

Room(p) ==
  Leaks => /\ status[p] = "running" => MadeAt(test[p], step[p]) <= limit
           /\ status[p] = "ok" => Made <= limit
RoomInv == \A p \in Procs : Room(p)

\* The sockets made are those that are open: with a close() that leaks none is
\* given back.  Only the first call of a test makes some.
LEMMA MadeSteps ==
  ASSUME NEW t \in Tests, NEW s \in 1..Length(t)
  PROVE  /\ MadeAt(t, s) \in Nat
         /\ Leaks /\ t \in SocketTestNos =>
              MadeAt(t, 1) = LostAt(t, 1) /\ MadeAt(t, 2) = MadeAt(t, 1) + 1
         /\ Leaks /\ t \in 12..15 =>
              /\ MadeAt(t, 1) = LostAt(t, 1) + IF t = 14 THEN 2 ELSE 0
              /\ MadeAt(t, 2) = MadeAt(t, 1) + 2
         /\ 1 < s => MadeAt(t, s + 1) = MadeAt(t, s)
         /\ 1 < s \/ t = 6 => MadeAt(t + 1, 1) = MadeAt(t, s)
         /\ (1 < s /\ t = IF standalone THEN 5 ELSE 15) => MadeAt(t, s) = Made
<1>1. t \in 1..15 /\ s \in 1..6
  BY Lengths
<1>2. CASE t \in 1..5
  BY <1>1, <1>2 DEF MadeAt, LostAt, Overwritten, ClosedBefore, InetTests, UnixTests, Made
<1>3. CASE t \in 7..11
  <2>1. CloseAt(Kind(t)) \in 2..5
    BY <1>3, Lengths DEF SocketTestNos, UnixTests
  <2>2. ~standalone
    BY <1>3 DEF Tests
  <2>3. QED
    BY <1>1, <1>3, <2>1, <2>2
       DEF MadeAt, LostAt, Overwritten, ClosedBefore, InetTests, UnixTests, Made
<1>4. CASE t = 6
  BY <1>1, <1>4 DEF MadeAt, InetTests, UnixTests, SocketTestNos, Tests
<1>5. CASE t \in 12..15
  <2>1. ~standalone /\ t \notin InetTests /\ t \notin UnixTests
    BY <1>5 DEF Tests, InetTests, UnixTests
  <2>2. t = 12 \/ t = 13 \/ t = 14 \/ t = 15
    BY <1>5
  <2>3. QED
    BY <1>1, <2>1, <2>2
       DEF MadeAt, LostAt, Overwritten, ClosedBefore, InetTests, UnixTests, SocketTestNos,
           Made
<1>6. QED  BY <1>1, <1>2, <1>3, <1>4, <1>5

\* The other calls make no socket.
LEMMA RoomGoesOn ==
  ASSUME TypesInv, NEW p \in Procs, Room(p), status[p] = "running", GoOn(p),
         1 < step[p] \/ test[p] = 6
  PROVE  Room(p)'
<1> SUFFICES ASSUME Leaks'
             PROVE  /\ status'[p] = "running" => MadeAt(test'[p], step'[p]) <= limit
                    /\ status'[p] = "ok" => Made <= limit
  BY DEF Room, GoOn, world, Made, MadeAt, InetTests, UnixTests
<1> DEFINE t == test[p]
           s == step[p]
<1>1. Leaks /\ limit \in Nat
  BY DEF GoOn, Leaks, world, TypesInv
<1>2. MadeAt(t, s) <= limit
  BY <1>1 DEF Room
<1>3. t \in Tests /\ s \in 1..Length(t) /\ s \in 1..6 /\ Length(t) \in 1..6
  BY After
<1>4. CASE s < Length(t)
  <2>1. status'[p] = "running" /\ test'[p] = t /\ step'[p] = s + 1
    BY <1>4, After
  <2>2. t # 6
    BY <1>3, <1>4 DEF Length, SocketTestNos, InetTests, UnixTests
  <2>3. MadeAt(t, s + 1) = MadeAt(t, s)
    BY <1>3, <2>2, MadeSteps
  <2>4. QED  BY <1>2, <2>1, <2>3
<1>5. CASE s = Length(t) /\ t # IF standalone THEN 5 ELSE 15
  <2>1. status'[p] = "running" /\ test'[p] = t + 1 /\ step'[p] = 1
    BY <1>5, After
  <2>2. MadeAt(t + 1, 1) = MadeAt(t, s)
    BY <1>3, MadeSteps
  <2>3. QED  BY <1>2, <2>1, <2>2
<1>6. CASE s = Length(t) /\ t = IF standalone THEN 5 ELSE 15
  <2>1. status'[p] = "ok"
    BY <1>6, After
  <2>2. 1 < s
    BY <1>6
  <2>3. MadeAt(t, s) = Made
    BY <1>3, <1>6, <2>2, MadeSteps
  <2>4. QED  BY <1>2, <2>1, <2>3
<1>7. QED  BY <1>3, <1>4, <1>5, <1>6

\* Which call is the first of a test.
LEMMA FirstCall ==
  ASSUME TypesInv, NEW p \in Procs, SysCall(p), step[p] = 1
  PROVE  /\ test[p] \in SocketTestNos => SysSocket(p)
         /\ test[p] \in 12..15 => SysSocketpair(p)
<1> DEFINE t == test[p]
           s == step[p]
           c == Suite[t][s]
<1>1. t \in Tests /\ s \in 1..Length(t) /\ 1 \in 1..Length(t)
  BY DEF TypesInv
<1>2. /\ t \in SocketTestNos => c.call = "socket"
      /\ t \in 12..15 => c.call = "socketpair"
  <2>1. t \in SocketTestNos => CloseAt(Kind(t)) \in 2..5 /\ t \notin 12..15 /\ t # 6
    BY <1>1, SocketLengths
  <2>2. TheCall(t, 1)
    BY <1>1, Script
  <2>3. CASE t \in SocketTestNos
    <3>1. c = Call("socket", Family(t), "sockfd")
      BY <2>1, <2>2, <2>3, SocketLengths, <1>1 DEF TheCall
    <3>2. QED  BY <2>1, <2>3, <3>1 DEF Call
  <2>4. CASE t \in 12..15
    <3>1. /\ t \notin SocketTestNos /\ t # 6 /\ t \notin 8..11
          /\ t # 13 => Length(t) \in {3, 5}
      BY <2>4 DEF SocketTestNos, InetTests, UnixTests, Length
    <3>2. c = Call("socketpair", "AF_UNIX", "sockfds[0]")
      BY <2>2, <2>4, <3>1 DEF TheCall
    <3>3. QED  BY <3>1, <3>2 DEF Call
  <2>5. QED  BY <2>3, <2>4
<1>3. Now(p).call = c.call
  BY DEF Now
<1>4. \A call \in {"socket", "bind", "listen", "getsockname", "close", "unlink", "clean_up",
                   "socketpair", "getpeername", "write", "read", "shutdown"} :
        At(p, call) => c.call = call
  BY <1>3 DEF At
<1>5. QED
  BY <1>2, <1>4 DEF SysCall, SysSocket, SysBind, SysListen, SysGetsockname, SysClose,
     SysUnlink, CleanUp, SysSocketpair, SysGetpeername, SysWrite, SysRead, SysShutdown

\* A call of p: socket() and socketpair() look whether there is room.
LEMMA CallRoom ==
  ASSUME IInv, NEW p \in Procs, Room(p), SysCall(p)
  PROVE  Room(p)'
<1> DEFINE t == test[p]
           s == step[p]
<1>1. /\ TypesInv /\ status[p] = "running" /\ Now(p) = Suite[t][s]
      /\ t \in Tests /\ s \in 1..Length(t) /\ Length(t) \in 1..6 /\ s \in 1..6
      /\ limit \in Nat
  <2>1. status[p] = "running"
    BY DEF SysCall, At, SysSocket, SysBind, SysListen, SysGetsockname, SysClose,
       SysUnlink, CleanUp, SysSocketpair, SysGetpeername, SysWrite, SysRead, SysShutdown
  <2>2. t \in Tests /\ s \in 1..Length(t) /\ limit \in Nat
    BY DEF IInv, TypesInv
  <2>3. QED  BY <2>1, <2>2, Lengths DEF IInv, Now
<1>2. CASE EndProcess(p, "aborted")
  <2>1. status'[p] = "aborted"
    BY <1>1, <1>2, EndOwn
  <2>2. QED  BY <2>1 DEF Room
<1>3. CASE GoOn(p) /\ (1 < s \/ t = 6)
  BY <1>1, <1>3, RoomGoesOn
<1>4. ASSUME GoOn(p), ~EndProcess(p, "aborted"), s = 1, t # 6, Leaks
      PROVE  Room(p)'
  <2>1. UNCHANGED <<fault, standalone, limit>> /\ fault \in Passing
    BY <1>4 DEF GoOn, world, Leaks, Passing
  <2>2. CASE t \in SocketTestNos
    <3>1. SysSocket(p)
      BY <1>1, <1>4, <2>2, FirstCall
    <3>2. LostAt(t, 1) < limit
      <4>1. OpenFds(p) < limit
        BY <1>4, <3>1 DEF SysSocket, Assert
      <4>2. QED  BY <1>1, <1>4, <2>1, <2>2, <4>1, BeforeSocket
    <3>3. /\ MadeAt(t, 1) = LostAt(t, 1) /\ MadeAt(t, 2) = MadeAt(t, 1) + 1
          /\ MadeAt(t, 1) \in Nat
      BY <1>1, <1>4, <2>2, MadeSteps
    <3>4. Length(t) > 1
      <4>1. /\ CloseAt(Kind(t)) \in 2..5
            /\ Length(t) = CloseAt(Kind(t)) + IF t \in 8..11 THEN 1 ELSE 0
        BY <1>1, <2>2, SocketLengths
      <4>2. QED  BY <4>1
    <3>5. status'[p] = "running" /\ test'[p] = t /\ step'[p] = 2
      BY <1>1, <1>4, <3>4, After
    <3>6. MadeAt(t, 2) <= limit
      BY <1>1, <3>2, <3>3
    <3>7. QED  BY <2>1, <3>5, <3>6 DEF Room, MadeAt, InetTests, UnixTests
  <2>3. CASE t \notin SocketTestNos
    <3>1. t \in 12..15
      BY <1>1, <1>4, <2>3, Lengths DEF SocketTestNos, InetTests, UnixTests
    <3>2. SysSocketpair(p)
      BY <1>1, <1>4, <3>1, FirstCall
    <3>3. MadeAt(t, 1) + 2 <= limit
      <4>1. OpenFds(p) + 2 <= limit
        BY <1>4, <3>2 DEF SysSocketpair, Assert
      <4>2. OpenFds(p) = MadeAt(t, 1)
        BY <1>1, <1>4, <2>1, <3>1, BeforePair, MadeSteps
      <4>3. QED  BY <4>1, <4>2
    <3>4. MadeAt(t, 2) = MadeAt(t, 1) + 2
      BY <1>1, <1>4, <3>1, MadeSteps
    <3>5. Length(t) > 1
      BY <3>1 DEF Length, SocketTestNos, InetTests, UnixTests
    <3>6. status'[p] = "running" /\ test'[p] = t /\ step'[p] = 2
      BY <1>1, <1>4, <3>5, After
    <3>7. MadeAt(t, 2) <= limit
      BY <3>3, <3>4
    <3>8. QED  BY <2>1, <3>6, <3>7 DEF Room, MadeAt, InetTests, UnixTests
  <2>4. QED  BY <2>2, <2>3
<1>5. CASE ~Leaks
  <2>1. ~Leaks'
    <3>1. fault' = fault
      BY <1>1, CallEffects DEF GoOn, EndProcess, world
    <3>2. QED  BY <1>5, <3>1 DEF Leaks
  <2>2. QED  BY <2>1 DEF Room
<1>6. QED  BY <1>1, <1>2, <1>3, <1>4, <1>5, CallEffects

-----------------------------------------------------------------------------
\* What each call has done when it has not ended the process, on any library.
\* It leaves those of the variables alone that are not named.
LEMMA SocketDoes ==
  ASSUME TypesInv, NEW p \in Procs, SysSocket(p), ~EndProcess(p, "aborted")
  PROVE  /\ test[p] \in SocketTestNos /\ step[p] = 1
         /\ fds'[p]["sockfd"] = SocketOf("unbound")
         /\ \A h \in Pair : fds'[p][h] = fds[p][h]
         /\ port' = port /\ files' = files
<1>1. test[p] \in Tests /\ step[p] \in 1..Length(test[p])
  BY DEF TypesInv
<1>2. test[p] \in SocketTestNos /\ step[p] = 1
  BY <1>1, Where DEF SysSocket, At, Now
<1>3. Set(p, "sockfd", SocketOf("unbound")) /\ port' = port /\ files' = files
  BY DEF SysSocket, Assert, host
<1>4. /\ fds'[p]["sockfd"] = SocketOf("unbound")
      /\ \A h \in Handles \ {"sockfd"} : fds'[p][h] = fds[p][h]
  BY <1>3, SetTypes, SocketTypes DEF Handles, Roles
<1>5. QED  BY <1>2, <1>3, <1>4 DEF Handles, Pair

LEMMA BindDoes ==
  ASSUME TypesInv, NEW p \in Procs, SysBind(p), ~EndProcess(p, "aborted")
  PROVE  LET t == test[p]
         IN  /\ t \in SocketTestNos /\ step[p] = 2 /\ Kind(t) # 1
             /\ \A h \in Pair : fds'[p][h] = fds[p][h]
             /\ fault \notin {"bind_none", "bind_shared"} =>
                  IF t \in InetTests THEN port = {} ELSE build[p] \notin files
             /\ IF fault = "bind_none"
                THEN fds'[p]["sockfd"] = fds[p]["sockfd"] /\ port' = port /\ files' = files
                ELSE /\ port' = IF t \in InetTests THEN port \cup {p} ELSE port
                     /\ files' = IF t \in InetTests \/ fault = "bind_no_file" THEN files
                                 ELSE files \cup {build[p]}
<1> DEFINE t == test[p]
<1>1. t \in Tests /\ step[p] \in 1..Length(t) /\ build[p] \in SEED
      /\ \A h \in Handles : fds[p][h] \in Sockets
  BY DEF TypesInv, Sockets
<1>2. /\ t \in SocketTestNos /\ step[p] = 2 /\ Kind(t) # 1
      /\ Now(p).handle = "sockfd" /\ Now(p).domain = Family(t)
  BY <1>1, Where DEF SysBind, At, Now
<1>3. Now(p).domain = "AF_INET" <=> t \in InetTests
  BY <1>2 DEF Family
<1>4. CASE fault = "bind_none"
  <2>1. fds' = fds /\ port' = port /\ files' = files
    BY <1>4 DEF SysBind, Assert, host
  <2>2. QED  BY <1>2, <1>4, <2>1
<1>5. CASE fault # "bind_none"
  <2> DEFINE new == [Socket(p) EXCEPT !.role = "bound", !.name = Addr(p)]
  <2>1. /\ InUse(p) => fault = "bind_shared"
        /\ Set(p, "sockfd", new)
        /\ port' = IF t \in InetTests THEN port \cup {p} ELSE port
        /\ files' = IF t \in InetTests \/ fault = "bind_no_file" THEN files
                    ELSE files \cup {build[p]}
    BY <1>3, <1>5 DEF SysBind, Assert
  <2>2. new \in Sockets
    <3>1. Socket(p) \in Sockets
      BY <1>1, <1>2 DEF Socket, Handles
    <3>2. Addr(p) \in Names
      BY <1>1 DEF Addr, Names
    <3>3. QED  BY <3>1, <3>2 DEF Sockets, Roles
  <2> HIDE DEF new
  <2>3. \A h \in Handles \ {"sockfd"} : fds'[p][h] = fds[p][h]
    BY <2>1, <2>2, SetTypes DEF Handles
  <2>4. QED  BY <1>2, <1>3, <1>5, <2>1, <2>3 DEF InUse, Handles, Pair
<1>6. QED  BY <1>4, <1>5

LEMMA ListenDoes ==
  ASSUME TypesInv, NEW p \in Procs, SysListen(p), ~EndProcess(p, "aborted")
  PROVE  /\ test[p] \in SocketTestNos /\ step[p] = 3 /\ Kind(test[p]) \in {3, 5}
         /\ \A h \in Pair : fds'[p][h] = fds[p][h]
         /\ fds'[p]["sockfd"].name =
              IF fault = "listen_unbinds" THEN "none" ELSE fds[p]["sockfd"].name
         /\ port' = port /\ files' = files
<1> DEFINE new == IF fault = "listen_none" THEN Socket(p)
                  ELSE [Socket(p) EXCEPT !.role = "listening",
                          !.name = IF fault = "listen_unbinds" THEN "none" ELSE @]
<1>1. test[p] \in Tests /\ step[p] \in 1..Length(test[p])
      /\ \A h \in Handles : fds[p][h] \in Sockets
  BY DEF TypesInv, Sockets
<1>2. /\ test[p] \in SocketTestNos /\ step[p] = 3 /\ Kind(test[p]) \in {3, 5}
      /\ Now(p).handle = "sockfd"
  BY <1>1, Where DEF SysListen, At, Now
<1>3. Set(p, "sockfd", new) /\ port' = port /\ files' = files
  BY DEF SysListen, Assert, host
<1>4. /\ Socket(p) \in Sockets /\ Socket(p) = fds[p]["sockfd"]
  BY <1>1, <1>2 DEF Socket, Handles
<1>5. /\ new \in Sockets
      /\ new.name = IF fault = "listen_unbinds" THEN "none" ELSE fds[p]["sockfd"].name
  BY <1>4 DEF Sockets, Roles, Names
<1> HIDE DEF new
<1>6. /\ fds'[p]["sockfd"] = new
      /\ \A h \in Handles \ {"sockfd"} : fds'[p][h] = fds[p][h]
  BY <1>3, <1>5, SetTypes DEF Handles
<1>7. QED  BY <1>2, <1>3, <1>5, <1>6 DEF Handles, Pair

LEMMA GetsocknameDoes ==
  ASSUME TypesInv, NEW p \in Procs, SysGetsockname(p), ~EndProcess(p, "aborted")
  PROVE  LET t == test[p]
         IN  /\ t \in SocketTestNos /\ step[p] = Kind(t) - 1 /\ Kind(t) \in {4, 5}
             /\ fds[p]["sockfd"].name = IF t \in InetTests THEN "port" ELSE build[p]
             /\ fds' = fds /\ port' = port /\ files' = files
<1> DEFINE t == test[p]
<1>1. t \in Tests /\ step[p] \in 1..Length(t)
  BY DEF TypesInv
<1>2. /\ t \in SocketTestNos /\ step[p] = Kind(t) - 1 /\ Kind(t) \in {4, 5}
      /\ Now(p).handle = "sockfd" /\ Now(p).domain = Family(t)
  BY <1>1, Where DEF SysGetsockname, At, Now
<1>3. Socket(p).name = Addr(p) /\ fds' = fds /\ port' = port /\ files' = files
  BY DEF SysGetsockname, Assert, host
<1>4. QED  BY <1>2, <1>3 DEF Socket, Addr, Family

LEMMA CloseDoes ==
  ASSUME TypesInv, NEW p \in Procs, SysClose(p), ~EndProcess(p, "aborted")
  PROVE  LET t == test[p]
             s == step[p]
             h == Now(p).handle
         IN  /\ \/ t \in SocketTestNos /\ s = CloseAt(Kind(t)) /\ h = "sockfd"
                \/ t \in {12, 14, 15} /\ s = Length(t) - 1 /\ h = "sockfds[0]"
                \/ t \in {12, 14, 15} /\ s = Length(t) /\ h = "sockfds[1]"
             /\ fds[p][h] # Closed /\ fds'[p][h] = Closed
             /\ \A i \in Handles \ {h} : fds'[p][i] = fds[p][i]
             /\ port' = IF fds[p][h].name = "port" /\ fault # "close_keeps"
                        THEN port \ {p} ELSE port
             /\ files' = files
<1> DEFINE t == test[p]
           s == step[p]
           h == Now(p).handle
<1>1. t \in Tests /\ s \in 1..Length(t)
  BY DEF TypesInv
<1>2. \/ t \in SocketTestNos /\ s = CloseAt(Kind(t)) /\ h = "sockfd"
      \/ t \in {12, 14, 15} /\ s = Length(t) - 1 /\ h = "sockfds[0]"
      \/ t \in {12, 14, 15} /\ s = Length(t) /\ h = "sockfds[1]"
  BY <1>1, Where DEF SysClose, At, Now
<1>3. h \in Handles
  BY <1>2 DEF Handles
<1>4. /\ fds[p][h] # Closed /\ Set(p, h, Closed) /\ files' = files
      /\ port' = IF fds[p][h].name = "port" /\ fault # "close_keeps"
                 THEN port \ {p} ELSE port
  BY DEF SysClose, Assert, Socket
<1>5. /\ fds'[p][h] = Closed
      /\ \A i \in Handles \ {h} : fds'[p][i] = fds[p][i]
  BY <1>3, <1>4, SetTypes, SocketTypes
<1>6. QED  BY <1>2, <1>4, <1>5

LEMMA UnlinkDoes ==
  ASSUME TypesInv, NEW p \in Procs, SysUnlink(p) \/ CleanUp(p),
         ~EndProcess(p, "aborted")
  PROVE  /\ \/ SysUnlink(p) /\ build[p] \in files
              /\ test[p] \in 8..11 /\ step[p] = CloseAt(Kind(test[p])) + 1
            \/ test[p] = 6 /\ step[p] = 1
         /\ files' = IF fault = "unlink_keeps" THEN files ELSE files \ {build[p]}
         /\ fds' = fds /\ port' = port
<1>1. test[p] \in Tests /\ step[p] \in 1..Length(test[p])
  BY DEF TypesInv
<1>2. CASE SysUnlink(p)
  <2>1. test[p] \in 8..11 /\ step[p] = CloseAt(Kind(test[p])) + 1
    BY <1>1, <1>2, Where DEF SysUnlink, At, Now
  <2>2. QED  BY <1>2, <2>1 DEF SysUnlink, Assert
<1>3. CASE CleanUp(p)
  <2>1. test[p] = 6 /\ step[p] = 1
    BY <1>1, <1>3, Where DEF CleanUp, At, Now
  <2>2. QED  BY <1>3, <2>1 DEF CleanUp, Assert
<1>4. QED  BY <1>2, <1>3

LEMMA SocketpairDoes ==
  ASSUME TypesInv, NEW p \in Procs, SysSocketpair(p), ~EndProcess(p, "aborted")
  PROVE  /\ test[p] \in 12..15 /\ step[p] = 1 /\ OpenFds(p) + 2 <= limit
         /\ fds'[p]["sockfd"] = fds[p]["sockfd"]
         /\ \A h \in Pair : fds'[p][h] =
              SocketOf(IF fault = "pair_unconnected" THEN "unbound" ELSE "connected")
         /\ port' = port /\ files' = files
<1> DEFINE role == IF fault = "pair_unconnected" THEN "unbound" ELSE "connected"
<1>1. test[p] \in Tests /\ step[p] \in 1..Length(test[p])
      /\ fds \in [Procs -> [Handles -> Sockets]]
  BY DEF TypesInv, Sockets
<1>2. test[p] \in 12..15 /\ step[p] = 1
  BY <1>1, Where DEF SysSocketpair, At, Now
<1>3. /\ OpenFds(p) + 2 <= limit /\ port' = port /\ files' = files
      /\ fds' = [fds EXCEPT ![p] =
                   [h \in Handles |-> IF h \in Pair THEN SocketOf(role) ELSE @[h]]]
  BY DEF SysSocketpair, Assert, host
<1>4. \A h \in Handles :
        fds'[p][h] = IF h \in Pair THEN SocketOf(role) ELSE fds[p][h]
  BY <1>1, <1>3
<1>5. QED  BY <1>2, <1>3, <1>4 DEF Handles, Pair

LEMMA GetpeernameDoes ==
  ASSUME TypesInv, NEW p \in Procs, SysGetpeername(p), ~EndProcess(p, "aborted")
  PROVE  /\ test[p] = 13 /\ step[p] = 2 /\ fds[p]["sockfds[0]"].role = "connected"
         /\ fds' = fds /\ port' = port /\ files' = files
<1>1. test[p] \in Tests /\ step[p] \in 1..Length(test[p])
  BY DEF TypesInv
<1>2. test[p] = 13 /\ step[p] = 2 /\ Now(p).handle = "sockfds[0]"
  BY <1>1, Where DEF SysGetpeername, At, Now
<1>3. Socket(p).role = "connected" /\ fds' = fds /\ port' = port /\ files' = files
  BY DEF SysGetpeername, Assert, host
<1>4. QED  BY <1>2, <1>3 DEF Socket

LEMMA WriteDoes ==
  ASSUME TypesInv, NEW p \in Procs, SysWrite(p), ~EndProcess(p, "aborted")
  PROVE  /\ test[p] = 14 /\ step[p] = 2
         /\ \A h \in Handles \ {"sockfds[1]"} : fds'[p][h] = fds[p][h]
         /\ fds'[p]["sockfds[1]"].in = IF fault = "send_drops" THEN 0
              ELSE IF fault = "recv_short" THEN Message - 1 ELSE Message
         /\ fds'[p]["sockfds[1]"].role = fds[p]["sockfds[1]"].role
         /\ port' = port /\ files' = files
<1> DEFINE n == IF fault = "send_drops" THEN 0
                ELSE IF fault = "recv_short" THEN Message - 1 ELSE Message
           new == [fds[p]["sockfds[1]"] EXCEPT !.in = n]
<1>1. test[p] \in Tests /\ step[p] \in 1..Length(test[p])
      /\ fds[p]["sockfds[1]"] \in Sockets
  BY DEF TypesInv, Sockets, Handles
<1>2. test[p] = 14 /\ step[p] = 2 /\ Now(p).handle = "sockfds[0]"
  BY <1>1, Where DEF SysWrite, At, Now
<1>3. Set(p, "sockfds[1]", new) /\ port' = port /\ files' = files
  <2>1. Other(Now(p).handle) = "sockfds[1]"
    BY <1>2 DEF Other
  <2>2. QED  BY <2>1 DEF SysWrite, Assert, host
<1>4. n \in Nat
  BY DEF Message
<1> HIDE DEF n
<1>5. new \in Sockets /\ new.in = n /\ new.role = fds[p]["sockfds[1]"].role
  BY <1>1, <1>4 DEF Sockets
<1> HIDE DEF new
<1>6. /\ fds'[p]["sockfds[1]"] = new
      /\ \A h \in Handles \ {"sockfds[1]"} : fds'[p][h] = fds[p][h]
  BY <1>3, <1>5, SetTypes DEF Handles
<1>7. QED  BY <1>2, <1>3, <1>5, <1>6 DEF n

LEMMA ReadDoes ==
  ASSUME TypesInv, NEW p \in Procs, SysRead(p), ~EndProcess(p, "aborted")
  PROVE  /\ test[p] = 14 /\ step[p] = 3 /\ fds[p]["sockfds[1]"].in = Message
         /\ \A h \in Handles \ {"sockfds[1]"} : fds'[p][h] = fds[p][h]
         /\ fds'[p]["sockfds[1]"].in = 0
         /\ port' = port /\ files' = files
<1> DEFINE new == [fds[p]["sockfds[1]"] EXCEPT !.in = 0]
<1>1. test[p] \in Tests /\ step[p] \in 1..Length(test[p])
      /\ fds[p]["sockfds[1]"] \in Sockets
  BY DEF TypesInv, Sockets, Handles
<1>2. test[p] = 14 /\ step[p] = 3 /\ Now(p).handle = "sockfds[1]"
  BY <1>1, Where DEF SysRead, At, Now
<1>3. /\ Set(p, "sockfds[1]", new) /\ port' = port /\ files' = files
      /\ fds[p]["sockfds[1]"].in = Message
  BY <1>2 DEF SysRead, Assert, host, Socket
<1>4. new \in Sockets /\ new.in = 0
  BY <1>1 DEF Sockets
<1> HIDE DEF new
<1>5. /\ fds'[p]["sockfds[1]"] = new
      /\ \A h \in Handles \ {"sockfds[1]"} : fds'[p][h] = fds[p][h]
  BY <1>3, <1>4, SetTypes DEF Handles
<1>6. QED  BY <1>2, <1>3, <1>4, <1>5

LEMMA ShutdownDoes ==
  ASSUME TypesInv, NEW p \in Procs, SysShutdown(p), ~EndProcess(p, "aborted")
  PROVE  LET h == Now(p).handle
         IN  /\ test[p] = 15 /\ step[p] \in {2, 3}
             /\ h = IF step[p] = 2 THEN "sockfds[0]" ELSE "sockfds[1]"
             /\ fault = "shutdown_closes" => fds'[p][h] = Closed
             /\ \A i \in Handles \ {h} : fds'[p][i] = fds[p][i]
             /\ port' = port /\ files' = files
<1> DEFINE h == Now(p).handle
           new == IF fault = "shutdown_none" THEN fds[p][h]
                  ELSE IF fault = "shutdown_closes" THEN Closed
                  ELSE [fds[p][h] EXCEPT !.role = "shut"]
<1>1. test[p] \in Tests /\ step[p] \in 1..Length(test[p])
      /\ \A i \in Handles : fds[p][i] \in Sockets
  BY DEF TypesInv, Sockets
<1>2. \/ test[p] = 15 /\ step[p] = 2 /\ h = "sockfds[0]"
      \/ test[p] = 15 /\ step[p] = 3 /\ h = "sockfds[1]"
  BY <1>1, Where DEF SysShutdown, At, Now
<1>3. h \in Handles
  BY <1>2 DEF Handles
<1>4. Set(p, h, new) /\ port' = port /\ files' = files
  BY DEF SysShutdown, Assert, host, Socket
<1>5. new \in Sockets /\ (fault = "shutdown_closes" => new = Closed)
  BY <1>1, <1>3, SocketTypes DEF Roles
<1> HIDE DEF new
<1>6. /\ fds'[p][h] = new
      /\ \A i \in Handles \ {h} : fds'[p][i] = fds[p][i]
  BY <1>3, <1>4, <1>5, SetTypes
<1>7. QED  BY <1>2, <1>4, <1>5, <1>6

-----------------------------------------------------------------------------
(***************************************************************************)
(* The faults that are seen, and a table of descriptors that is too small:  *)
(* for each there is a call that no process gets past, its wall, and        *)
(* something the process carries from where the fault shows to that call.   *)
(***************************************************************************)
Flaws == {"bind_none", "listen_unbinds", "close_keeps", "few"} \cup UnseenStandalone
Flawed(c) ==
  IF c = "few" THEN ~standalone /\ limit < 4
  ELSE fault = c /\ (c \in UnseenStandalone => ~standalone)

WallTest(c) ==
  IF c = "close_keeps" THEN 3
  ELSE IF c \in {"bind_none", "listen_unbinds"} THEN 4
  ELSE IF c = "bind_no_file" THEN 8
  ELSE IF c = "unlink_keeps" THEN 9
  ELSE IF c = "pair_unconnected" THEN 13
  ELSE IF c = "shutdown_closes" THEN 15
  ELSE 14
WallStep(c) ==
  IF c = "few" THEN 1
  ELSE IF c \in {"bind_none", "send_drops", "recv_short"} THEN 3
  ELSE IF c \in {"bind_no_file", "shutdown_closes"} THEN 4
  ELSE 2

\* A position at or before the wall, or before it.
UpTo(t, s, c) == t < WallTest(c) \/ (t = WallTest(c) /\ s <= WallStep(c))
AtWall(t, s, c) == t = WallTest(c) /\ s = WallStep(c)

\* What the process carries.
Carries(p, c) ==
  LET t == test[p]
      s == step[p]
  IN  /\ c = "bind_none" => fds[p]["sockfd"].name = "none"
      /\ c = "listen_unbinds" =>
           /\ t = 3 /\ s = 4 => fds[p]["sockfd"].name = "none"
           /\ (t = 3 /\ 2 < s) \/ t = 4 => p \in port
      /\ c = "close_keeps" => ((t = 2 /\ 2 < s) \/ t = 3 => p \in port)
      /\ c = "bind_no_file" => files = {}
      /\ c = "unlink_keeps" => ((t = 8 /\ 2 < s) \/ t = 9 => build[p] \in files)
      /\ c = "pair_unconnected" => \A h \in Pair : fds[p][h].role # "connected"
      /\ c = "few" =>
           ((t = 13 /\ s = 2) \/ t = 14 => \A h \in Pair : fds[p][h] # Closed)
      /\ c = "send_drops" => fds[p]["sockfds[1]"].in = 0
      /\ c = "recv_short" => fds[p]["sockfds[1]"].in # Message
      /\ c = "shutdown_closes" => (t = 15 /\ 2 < s => fds[p]["sockfds[0]"] = Closed)

Walled(p, c) ==
  /\ status[p] # "ok"
  /\ status[p] = "running" => UpTo(test[p], step[p], c) /\ Carries(p, c)
  /\ status[p] # "running" => /\ \A h \in Handles : fds[p][h] = Closed
                              /\ c = "bind_no_file" => files = {}
WallInv == \A c \in Flaws : Flawed(c) => \A p \in Procs : Walled(p, c)

\* A process that gets on before the wall is still up to it, and runs.
LEMMA GetsOn ==
  ASSUME TypesInv, NEW p \in Procs, status[p] = "running", GoOn(p),
         NEW c \in Flaws, Flawed(c),
         UpTo(test[p], step[p], c), ~AtWall(test[p], step[p], c)
  PROVE  LET t == test[p]
             s == step[p]
         IN  /\ t \in 1..15 /\ s \in 1..6 /\ s \in 1..Length(t)
             /\ status'[p] = "running" /\ UpTo(test'[p], step'[p], c)
             /\ \/ test'[p] = t /\ step'[p] = s + 1
                \/ test'[p] = t + 1 /\ step'[p] = 1 /\ s = Length(t)
<1> DEFINE t == test[p]
           s == step[p]
<1>1. t \in Tests /\ s \in 1..Length(t) /\ t \in 1..15 /\ s \in 1..6 /\ Length(t) \in 1..6
  BY After
<1>2. /\ WallTest(c) \in 3..15 /\ WallStep(c) \in 1..4
      /\ standalone => WallTest(c) < 5
  <2>1. standalone => c \in {"bind_none", "listen_unbinds", "close_keeps"}
    BY DEF Flawed, Flaws
  <2>2. QED  BY <2>1 DEF WallTest, WallStep
<1>3. ~(s = Length(t) /\ t = IF standalone THEN 5 ELSE 15)
  <2>1. t = 15 => Length(t) = 5
    BY DEF Length, SocketTestNos, InetTests, UnixTests
  <2>2. QED  BY <1>1, <1>2, <2>1 DEF UpTo
<1>4. \/ /\ s < Length(t) /\ status'[p] = "running"
         /\ test'[p] = t /\ step'[p] = s + 1
      \/ /\ s = Length(t) /\ status'[p] = "running"
         /\ test'[p] = t + 1 /\ step'[p] = 1
  BY <1>1, <1>3, After
<1>5. UpTo(test'[p], step'[p], c)
  <2>1. CASE test'[p] = t /\ step'[p] = s + 1
    BY <1>1, <1>2, <2>1 DEF UpTo, AtWall
  <2>2. CASE test'[p] = t + 1 /\ step'[p] = 1 /\ s = Length(t)
    <3>1. t < WallTest(c) \/ (t = WallTest(c) /\ s < WallStep(c))
      BY <1>1, <1>2 DEF UpTo, AtWall
    <3>2. WallStep(c) <= Length(WallTest(c))
      <4>1. /\ Length(3) = 4 /\ Length(4) = 4 /\ Length(8) = 4 /\ Length(9) = 5
            /\ Length(13) = 2 /\ Length(14) = 5 /\ Length(15) = 5
        BY DEF Length, SocketTestNos, InetTests, UnixTests, Kind, CloseAt
      <4>2. QED  BY <4>1 DEF WallTest, WallStep
    <3>3. t < WallTest(c)
      BY <1>1, <1>2, <2>2, <3>1, <3>2
    <3>4. QED  BY <1>1, <1>2, <2>2, <3>3 DEF UpTo
  <2>3. QED  BY <1>4, <2>1, <2>2
<1>6. QED  BY <1>1, <1>4, <1>5

\* What the call at t and s leaves to carry.
Leaves(p, c) ==
  LET t == test[p]
      s == step[p]
  IN  /\ c = "bind_none" => fds'[p]["sockfd"].name = "none"
      /\ c = "listen_unbinds" =>
           /\ t = 3 /\ s = 3 => fds'[p]["sockfd"].name = "none"
           /\ (t = 3 /\ 1 < s) \/ t = 4 => p \in port'
      /\ c = "close_keeps" => ((t = 2 /\ 1 < s) \/ t = 3 => p \in port')
      /\ c = "bind_no_file" => files' = {}
      /\ c = "unlink_keeps" => ((t = 8 /\ 1 < s) \/ t = 9 => build[p] \in files')
      /\ c = "pair_unconnected" => \A h \in Pair : fds'[p][h].role # "connected"
      /\ c = "few" => (t \in {13, 14} => \A h \in Pair : fds'[p][h] # Closed)
      /\ c = "send_drops" => fds'[p]["sockfds[1]"].in = 0
      /\ c = "recv_short" => fds'[p]["sockfds[1]"].in # Message
      /\ c = "shutdown_closes" => (t = 15 /\ 1 < s => fds'[p]["sockfds[0]"] = Closed)

LEMMA LeftIsCarried ==
  ASSUME TypesInv, NEW p \in Procs, NEW c \in Flaws, Leaves(p, c),
         build'[p] = build[p],
         test[p] \in 1..15, step[p] \in 1..Length(test[p]), step[p] \in 1..6,
         \/ test'[p] = test[p] /\ step'[p] = step[p] + 1
         \/ test'[p] = test[p] + 1 /\ step'[p] = 1 /\ step[p] = Length(test[p])
  PROVE  Carries(p, c)'
<1> DEFINE t == test[p]
           s == step[p]
<1>1. t \in {2, 3, 8} => Length(t) > 1
  BY DEF Length, SocketTestNos, InetTests, UnixTests, Kind, CloseAt
<1>2. CASE c = "listen_unbinds"
  BY <1>1, <1>2 DEF Leaves, Carries
<1>3. CASE c = "close_keeps"
  BY <1>1, <1>3 DEF Leaves, Carries
<1>4. CASE c = "unlink_keeps"
  BY <1>1, <1>4 DEF Leaves, Carries
<1>5. CASE c = "few"
  BY <1>5 DEF Leaves, Carries
<1>6. CASE c = "shutdown_closes"
  BY <1>6 DEF Leaves, Carries
<1>7. CASE c \in {"bind_none", "bind_no_file", "pair_unconnected", "send_drops",
                  "recv_short"}
  BY <1>7 DEF Leaves, Carries
<1>8. QED  BY <1>2, <1>3, <1>4, <1>5, <1>6, <1>7 DEF Flaws, UnseenStandalone

-----------------------------------------------------------------------------
\* The calls of the first tests: no address of a file, and no pair.
LEMMA InetCalls ==
  ASSUME TypesInv, NEW p \in Procs, SysCall(p), ~EndProcess(p, "aborted"),
         test[p] \in 1..4
  PROVE  LET t == test[p]
         IN  /\ t \in InetTests /\ t \in SocketTestNos /\ t \in Nat /\ step[p] \in Nat
             /\ Kind(t) = t
             /\ CloseAt(Kind(t)) = IF t = 1 THEN 2 ELSE IF t = 2 THEN 3 ELSE 4
             /\ \/ SysSocket(p) \/ SysBind(p) \/ SysListen(p) \/ SysGetsockname(p)
                \/ SysClose(p) /\ Now(p).handle = "sockfd" /\ step[p] = CloseAt(Kind(t))
<1> DEFINE t == test[p]
<1>1. /\ t \in InetTests /\ t \in SocketTestNos /\ Kind(t) = t /\ t \in Nat
      /\ CloseAt(Kind(t)) = IF t = 1 THEN 2 ELSE IF t = 2 THEN 3 ELSE 4
      /\ t \notin 8..11 /\ t # 6 /\ t \notin 12..15
  BY DEF InetTests, SocketTestNos, Kind, CloseAt
<1>2. ~SysUnlink(p) /\ ~CleanUp(p)
  BY <1>1, UnlinkDoes
<1>3. ~SysSocketpair(p) /\ ~SysGetpeername(p) /\ ~SysWrite(p) /\ ~SysRead(p)
        /\ ~SysShutdown(p)
  BY <1>1, SocketpairDoes, GetpeernameDoes, WriteDoes, ReadDoes, ShutdownDoes
<1>4. SysClose(p) => Now(p).handle = "sockfd" /\ step[p] = CloseAt(Kind(t))
  BY <1>1, CloseDoes
<1>5. QED  BY <1>1, <1>2, <1>3, <1>4 DEF SysCall, TypesInv

\* bind() did nothing: there is no name for getsockname() to compare.
LEMMA BindNoneWall ==
  ASSUME TypesInv, NEW p \in Procs, SysCall(p), ~EndProcess(p, "aborted"),
         fault = "bind_none", test[p] \in 1..4, Carries(p, "bind_none")
  PROVE  ~AtWall(test[p], step[p], "bind_none") /\ Leaves(p, "bind_none")
<1>1. fds[p]["sockfd"].name = "none"
  BY DEF Carries
<1>2. SUFFICES /\ ~(test[p] = 4 /\ step[p] = 3)
               /\ fds'[p]["sockfd"].name = "none"
  BY DEF AtWall, WallTest, WallStep, Leaves
<1>3. CASE SysSocket(p)
  BY <1>3, SocketDoes DEF SocketOf
<1>4. CASE SysBind(p)
  BY <1>1, <1>4, BindDoes
<1>5. CASE SysListen(p)
  BY <1>1, <1>5, InetCalls, ListenDoes
<1>6. CASE SysGetsockname(p)
  BY <1>1, <1>6, InetCalls, GetsocknameDoes
<1>7. CASE SysClose(p) /\ Now(p).handle = "sockfd" /\ step[p] = CloseAt(Kind(test[p]))
  BY <1>7, InetCalls, CloseDoes DEF Closed
<1>8. QED  BY <1>3, <1>4, <1>5, <1>6, <1>7, InetCalls

\* listen() lost the name by which close() would have given the port back.
LEMMA ListenUnbindsWall ==
  ASSUME TypesInv, NEW p \in Procs, SysCall(p), ~EndProcess(p, "aborted"),
         fault = "listen_unbinds", test[p] \in 1..4,
         test[p] = 4 => step[p] <= 2, Carries(p, "listen_unbinds")
  PROVE  ~AtWall(test[p], step[p], "listen_unbinds") /\ Leaves(p, "listen_unbinds")
<1> DEFINE t == test[p]
           s == step[p]
<1>1. /\ t = 3 /\ s = 4 => fds[p]["sockfd"].name = "none"
      /\ (t = 3 /\ 2 < s) \/ t = 4 => p \in port
  BY DEF Carries
<1>2. SUFFICES /\ ~(t = 4 /\ s = 2)
               /\ t = 3 /\ s = 3 => fds'[p]["sockfd"].name = "none"
               /\ (t = 3 /\ 1 < s) \/ t = 4 => p \in port'
  BY DEF AtWall, WallTest, WallStep, Leaves
<1>3. CASE SysSocket(p)
  BY <1>1, <1>3, SocketDoes
<1>4. CASE SysBind(p)
  BY <1>1, <1>4, InetCalls, BindDoes
<1>5. CASE SysListen(p)
  BY <1>1, <1>5, InetCalls, ListenDoes
<1>6. CASE SysGetsockname(p)
  BY <1>1, <1>6, InetCalls, GetsocknameDoes
<1>7. CASE SysClose(p) /\ Now(p).handle = "sockfd" /\ s = CloseAt(Kind(t))
  BY <1>1, <1>7, InetCalls, CloseDoes
<1>8. QED  BY <1>3, <1>4, <1>5, <1>6, <1>7, InetCalls

\* close() kept the port: the next bind() finds it in use.
LEMMA CloseKeepsWall ==
  ASSUME TypesInv, NEW p \in Procs, SysCall(p), ~EndProcess(p, "aborted"),
         fault = "close_keeps", test[p] \in 1..3,
         test[p] = 3 => step[p] <= 2, Carries(p, "close_keeps")
  PROVE  ~AtWall(test[p], step[p], "close_keeps") /\ Leaves(p, "close_keeps")
<1> DEFINE t == test[p]
           s == step[p]
<1>1. (t = 2 /\ 2 < s) \/ t = 3 => p \in port
  BY DEF Carries
<1>2. SUFFICES /\ ~(t = 3 /\ s = 2)
               /\ (t = 2 /\ 1 < s) \/ t = 3 => p \in port'
  BY DEF AtWall, WallTest, WallStep, Leaves
<1>3. CASE SysSocket(p)
  BY <1>1, <1>3, SocketDoes
<1>4. CASE SysBind(p)
  BY <1>1, <1>4, InetCalls, BindDoes
<1>5. CASE SysListen(p)
  BY <1>1, <1>5, InetCalls, ListenDoes
<1>6. CASE SysGetsockname(p)
  BY <1>1, <1>6, InetCalls, GetsocknameDoes
<1>7. CASE SysClose(p) /\ Now(p).handle = "sockfd" /\ s = CloseAt(Kind(t))
  BY <1>1, <1>7, InetCalls, CloseDoes
<1>8. QED  BY <1>3, <1>4, <1>5, <1>6, <1>7, InetCalls

-----------------------------------------------------------------------------
\* The calls of the first tests with a socket file.
LEMMA FileCalls ==
  ASSUME TypesInv, NEW p \in Procs, SysCall(p), ~EndProcess(p, "aborted"),
         test[p] \in 8..9
  PROVE  LET t == test[p]
             s == step[p]
         IN  /\ t \notin InetTests /\ t # 6
             /\ \/ SysSocket(p) /\ s = 1
                \/ SysBind(p) /\ s = 2
                \/ SysListen(p) /\ s = 3 /\ t = 9
                \/ SysClose(p) /\ s = t - 5
                \/ SysUnlink(p) /\ s = t - 4 /\ build[p] \in files
<1> DEFINE t == test[p]
           s == step[p]
<1>1. /\ t \notin InetTests /\ t # 6 /\ t \notin 12..15 /\ t \notin {12, 14, 15}
      /\ Kind(t) = t - 6 /\ CloseAt(Kind(t)) = t - 5
      /\ Kind(t) \notin {4, 5} /\ (Kind(t) = 3 <=> t = 9)
  BY DEF InetTests, Kind, CloseAt
<1>2. CASE SysSocket(p)
  BY <1>1, <1>2, SocketDoes
<1>3. CASE SysBind(p)
  BY <1>1, <1>3, BindDoes
<1>4. CASE SysListen(p)
  BY <1>1, <1>4, ListenDoes
<1>5. CASE SysGetsockname(p)
  BY <1>1, <1>5, GetsocknameDoes
<1>6. CASE SysClose(p)
  BY <1>1, <1>6, CloseDoes
<1>7. CASE SysUnlink(p) \/ CleanUp(p)
  BY <1>1, <1>7, UnlinkDoes
<1>8. CASE SysSocketpair(p)
  BY <1>1, <1>8, SocketpairDoes
<1>9. CASE SysGetpeername(p) \/ SysWrite(p) \/ SysRead(p) \/ SysShutdown(p)
  BY <1>1, <1>9, GetpeernameDoes, WriteDoes, ReadDoes, ShutdownDoes
<1>10. QED
  BY <1>2, <1>3, <1>4, <1>5, <1>6, <1>7, <1>8, <1>9 DEF SysCall

\* What the calls do to the files there are.
LEMMA FilesAfter ==
  ASSUME TypesInv, NEW p \in Procs, SysCall(p), ~EndProcess(p, "aborted")
  PROVE  /\ files = {} /\ fault = "bind_no_file" => files' = {}
         /\ fault = "unlink_keeps" => files \subseteq files'
<1>1. CASE SysSocket(p) \/ SysListen(p) \/ SysGetsockname(p) \/ SysClose(p)
  BY <1>1, SocketDoes, ListenDoes, GetsocknameDoes, CloseDoes
<1>2. CASE SysBind(p)
  BY <1>2, BindDoes
<1>3. CASE SysUnlink(p) \/ CleanUp(p)
  BY <1>3, UnlinkDoes
<1>4. CASE SysSocketpair(p) \/ SysGetpeername(p) \/ SysWrite(p) \/ SysRead(p) \/ SysShutdown(p)
  BY <1>4, SocketpairDoes, GetpeernameDoes, WriteDoes, ReadDoes, ShutdownDoes
<1>5. QED  BY <1>1, <1>2, <1>3, <1>4 DEF SysCall

\* bind() made no file for unlink() to remove.
LEMMA BindNoFileWall ==
  ASSUME TypesInv, NEW p \in Procs, SysCall(p), ~EndProcess(p, "aborted"),
         fault = "bind_no_file", Carries(p, "bind_no_file")
  PROVE  ~AtWall(test[p], step[p], "bind_no_file") /\ Leaves(p, "bind_no_file")
<1>1. files = {} /\ files' = {}
  BY FilesAfter DEF Carries
<1>2. ~(test[p] = 8 /\ step[p] = 4)
  BY <1>1, FileCalls
<1>3. QED  BY <1>1, <1>2 DEF AtWall, WallTest, WallStep, Leaves

\* unlink() kept the file: the next bind() finds it in use.
LEMMA UnlinkKeepsWall ==
  ASSUME TypesInv, NEW p \in Procs, SysCall(p), ~EndProcess(p, "aborted"),
         fault = "unlink_keeps", Carries(p, "unlink_keeps"),
         test[p] = 9 => step[p] <= 2
  PROVE  ~AtWall(test[p], step[p], "unlink_keeps") /\ Leaves(p, "unlink_keeps")
<1> DEFINE t == test[p]
           s == step[p]
<1>1. (t = 8 /\ 2 < s) \/ t = 9 => build[p] \in files
  BY DEF Carries
<1>2. files \subseteq files' /\ s \in Nat
  BY FilesAfter DEF TypesInv
<1>3. ~(t = 9 /\ s = 2)
  <2> SUFFICES ASSUME t = 9, s = 2 PROVE FALSE
    OBVIOUS
  <2>1. SysBind(p) /\ t \notin InetTests
    BY FileCalls
  <2>2. build[p] \notin files
    BY <2>1, BindDoes
  <2>3. QED  BY <1>1, <2>2
<1>4. t = 8 /\ 1 < s => build[p] \in files'
  <2>1. CASE s = 2 /\ t = 8
    <3>1. SysBind(p) /\ t \notin InetTests
      BY <2>1, FileCalls
    <3>2. QED  BY <3>1, BindDoes
  <2>2. QED  BY <1>1, <1>2, <2>1
<1>5. QED  BY <1>1, <1>2, <1>3, <1>4 DEF AtWall, WallTest, WallStep, Leaves

-----------------------------------------------------------------------------
\* Only the last tests have calls that change the sockets of a pair.
LEMMA PairCalls ==
  ASSUME TypesInv, NEW p \in Procs, SysCall(p), ~EndProcess(p, "aborted")
  PROVE  LET t == test[p]
             s == step[p]
         IN  \/ t \in 1..11 /\ \A h \in Pair : fds'[p][h] = fds[p][h]
             \/ SysSocketpair(p) /\ t \in 12..15 /\ s = 1
             \/ SysGetpeername(p) /\ t = 13 /\ s = 2
             \/ SysWrite(p) /\ t = 14 /\ s = 2
             \/ SysRead(p) /\ t = 14 /\ s = 3
             \/ SysShutdown(p) /\ t = 15 /\ s \in {2, 3}
             \/ /\ SysClose(p) /\ Now(p).handle \in Pair /\ t \in {12, 14, 15}
                /\ (s = (IF t = 12 THEN 2 ELSE 4) /\ Now(p).handle = "sockfds[0]")
                     \/ s = IF t = 12 THEN 3 ELSE 5
<1> DEFINE t == test[p]
           s == step[p]
<1>1. /\ t \in SocketTestNos => t \in 1..11
      /\ t \in 8..11 \/ t = 6 => t \in 1..11
  BY DEF SocketTestNos, InetTests, UnixTests
<1>2. CASE SysSocket(p) \/ SysBind(p) \/ SysListen(p) \/ SysGetsockname(p)
  BY <1>1, <1>2, SocketDoes, BindDoes, ListenDoes, GetsocknameDoes
<1>3. CASE SysUnlink(p) \/ CleanUp(p)
  BY <1>1, <1>3, UnlinkDoes
<1>4. CASE SysClose(p)
  <2>1. CASE t \in SocketTestNos
    <3>1. t \notin {12, 14, 15}
      BY <2>1, <1>1
    <3>2. Now(p).handle = "sockfd"
      BY <1>4, <3>1, CloseDoes
    <3>3. \A h \in Pair : h \in Handles \ {"sockfd"}
      BY DEF Pair, Handles
    <3>4. \A i \in Handles \ {Now(p).handle} : fds'[p][i] = fds[p][i]
      BY <1>4, CloseDoes
    <3>5. QED  BY <1>1, <2>1, <3>2, <3>3, <3>4
  <2>2. CASE t \notin SocketTestNos
    <3>1. Length(12) = 3 /\ Length(14) = 5 /\ Length(15) = 5
      BY DEF Length, SocketTestNos, InetTests, UnixTests
    <3>2. QED  BY <1>4, <2>2, <3>1, CloseDoes DEF Pair
  <2>3. QED  BY <2>1, <2>2
<1>5. CASE SysSocketpair(p)
  BY <1>5, SocketpairDoes
<1>6. CASE SysGetpeername(p) \/ SysWrite(p) \/ SysRead(p) \/ SysShutdown(p)
  BY <1>6, GetpeernameDoes, WriteDoes, ReadDoes, ShutdownDoes
<1>7. QED  BY <1>2, <1>3, <1>4, <1>5, <1>6 DEF SysCall

\* The sockets of the pair have no peer to name.
LEMMA UnconnectedWall ==
  ASSUME TypesInv, NEW p \in Procs, SysCall(p), ~EndProcess(p, "aborted"),
         fault = "pair_unconnected", Carries(p, "pair_unconnected"), test[p] \in 1..13
  PROVE  ~AtWall(test[p], step[p], "pair_unconnected") /\ Leaves(p, "pair_unconnected")
<1>1. \A h \in Pair : fds[p][h].role # "connected"
  BY DEF Carries
<1>2. SUFFICES /\ ~(test[p] = 13 /\ step[p] = 2)
               /\ \A h \in Pair : fds'[p][h].role # "connected"
  BY DEF AtWall, WallTest, WallStep, Leaves
<1>3. ~SysGetpeername(p)
  BY <1>1, GetpeernameDoes DEF Pair
<1>4. CASE test[p] \in 1..11 /\ \A h \in Pair : fds'[p][h] = fds[p][h]
  BY <1>1, <1>4
<1>5. CASE SysSocketpair(p) /\ step[p] = 1
  BY <1>5, SocketpairDoes DEF SocketOf
<1>6. CASE SysClose(p) /\ test[p] = 12
  <2>1. \A h \in Pair : fds'[p][h] = Closed \/ fds'[p][h] = fds[p][h]
    BY <1>6, CloseDoes DEF Pair, Handles
  <2>2. QED  BY <1>1, <1>6, <2>1 DEF Closed
<1>7. QED  BY <1>3, <1>4, <1>5, <1>6, PairCalls

\* The descriptors of test_getpeername() are in the way of the next pair.
LEMMA FewWall ==
  ASSUME TypesInv, NEW p \in Procs, SysCall(p), ~EndProcess(p, "aborted"),
         limit < 4, Carries(p, "few"), test[p] \in 1..14, test[p] = 14 => step[p] <= 1
  PROVE  ~AtWall(test[p], step[p], "few") /\ Leaves(p, "few")
<1> DEFINE t == test[p]
           s == step[p]
<1>1. (t = 13 /\ s = 2) \/ t = 14 => \A h \in Pair : fds[p][h] # Closed
  BY DEF Carries
<1>2. SUFFICES t # 14 /\ (t = 13 => \A h \in Pair : fds'[p][h] # Closed)
  BY DEF AtWall, WallTest, WallStep, Leaves
<1>3. t # 14
  <2> SUFFICES ASSUME t = 14 PROVE FALSE
    OBVIOUS
  <2> DEFINE open == {h \in Handles : fds[p][h] # Closed}
  <2>1. SysSocketpair(p)
    <3>1. s \in Nat
      BY DEF TypesInv
    <3>2. QED  BY <3>1, PairCalls
  <2>2. OpenFds(p) + 2 <= limit
    BY <2>1, SocketpairDoes
  <2>3. Pair \subseteq open
    BY <1>1 DEF Pair, Handles
  <2>4. open \subseteq Handles
    OBVIOUS
  <2>5. IsFiniteSet(open)
    BY <2>4, PairCard
  <2>6. Cardinality(open) \in Nat /\ Cardinality(Pair) <= Cardinality(open)
    BY <2>3, <2>5, FS_Subset, FS_CardinalityType
  <2>7. lost[p] \in Nat /\ limit \in Nat
    BY DEF TypesInv
  <2>8. OpenFds(p) = Cardinality(open) + lost[p]
    BY DEF OpenFds
  <2> HIDE DEF open
  <2>9. QED  BY <2>2, <2>6, <2>7, <2>8, PairSize
<1>4. ASSUME t = 13
      PROVE  \A h \in Pair : fds'[p][h] # Closed
  <2>1. CASE SysSocketpair(p)
    BY <2>1, SocketpairDoes DEF SocketOf, Closed
  <2>2. CASE SysGetpeername(p) /\ s = 2
    BY <1>1, <1>4, <2>2, GetpeernameDoes
  <2>3. QED  BY <1>4, <2>1, <2>2, PairCalls
<1>5. QED  BY <1>3, <1>4

\* The message does not arrive, and read() waits; or it is short.
LEMMA MessageWall ==
  ASSUME TypesInv, NEW p \in Procs, SysCall(p), ~EndProcess(p, "aborted"),
         NEW c \in {"send_drops", "recv_short"}, fault = c, Carries(p, c),
         test[p] \in 1..14, test[p] = 14 => step[p] <= 3
  PROVE  ~AtWall(test[p], step[p], c) /\ Leaves(p, c)
<1> DEFINE Fine(n) == IF c = "send_drops" THEN n = 0 ELSE n # Message
<1>1. Fine(fds[p]["sockfds[1]"].in)
  BY DEF Carries
<1>2. SUFFICES ~(test[p] = 14 /\ step[p] = 3) /\ Fine(fds'[p]["sockfds[1]"].in)
  BY DEF AtWall, WallTest, WallStep, Leaves
<1>3. ~SysRead(p)
  BY <1>1, ReadDoes DEF Message
<1>4. Fine(0)
  BY DEF Message
<1>5. CASE \A h \in Pair : fds'[p][h] = fds[p][h] /\ test[p] \in 1..11
  BY <1>1, <1>5 DEF Pair
<1>6. CASE SysSocketpair(p) /\ step[p] = 1
  BY <1>4, <1>6, SocketpairDoes DEF SocketOf, Pair
<1>7. CASE SysGetpeername(p) /\ test[p] = 13
  BY <1>1, <1>7, GetpeernameDoes
<1>8. CASE SysWrite(p) /\ step[p] = 2
  BY <1>8, WriteDoes DEF Message
<1>9. CASE SysClose(p) /\ test[p] = 12
  <2>1. \A h \in Pair : fds'[p][h] = Closed \/ fds'[p][h] = fds[p][h]
    BY <1>9, CloseDoes DEF Pair, Handles
  <2>2. QED  BY <1>1, <1>4, <1>9, <2>1 DEF Closed, Pair
<1>10. step[p] \in Nat
  BY DEF TypesInv
<1>11. QED  BY <1>3, <1>5, <1>6, <1>7, <1>8, <1>9, <1>10, PairCalls

\* The socket was closed by shutdown(): close() finds no descriptor.
LEMMA ShutdownClosesWall ==
  ASSUME TypesInv, NEW p \in Procs, SysCall(p), ~EndProcess(p, "aborted"),
         fault = "shutdown_closes", Carries(p, "shutdown_closes"),
         test[p] = 15 => step[p] <= 4
  PROVE  ~AtWall(test[p], step[p], "shutdown_closes") /\ Leaves(p, "shutdown_closes")
<1> DEFINE t == test[p]
           s == step[p]
<1>1. t = 15 /\ 2 < s => fds[p]["sockfds[0]"] = Closed
  BY DEF Carries
<1>2. SUFFICES ASSUME t = 15, 1 < s
               PROVE  s # 4 /\ fds'[p]["sockfds[0]"] = Closed
  BY DEF AtWall, WallTest, WallStep, Leaves
<1>3. s \in Nat
  BY DEF TypesInv
<1>4. ~SysClose(p)
  <2> SUFFICES ASSUME SysClose(p) PROVE FALSE
    OBVIOUS
  <2>1. s = 4 /\ Now(p).handle = "sockfds[0]"
    <3>1. Length(15) = 5 /\ 15 \notin SocketTestNos
      BY DEF Length, SocketTestNos, InetTests, UnixTests
    <3>2. \/ s = Length(t) - 1 /\ Now(p).handle = "sockfds[0]"
          \/ s = Length(t)
      BY <1>2, <3>1, CloseDoes
    <3>3. QED  BY <1>2, <1>3, <3>1, <3>2
  <2>2. fds[p][Now(p).handle] # Closed
    BY CloseDoes
  <2>3. QED  BY <1>1, <1>2, <2>1, <2>2
<1>5. SysShutdown(p) /\ s \in {2, 3}
  BY <1>2, <1>3, <1>4, PairCalls
<1>6. fds'[p]["sockfds[0]"] = Closed
  BY <1>1, <1>2, <1>5, ShutdownDoes DEF Handles
<1>7. QED  BY <1>5, <1>6

-----------------------------------------------------------------------------
\* No call of a process with a flaw gets it past the wall.
LEMMA NobodyGetsPast ==
  ASSUME TypesInv, NEW p \in Procs, SysCall(p), ~EndProcess(p, "aborted"),
         NEW c \in Flaws, Flawed(c), UpTo(test[p], step[p], c), Carries(p, c)
  PROVE  ~AtWall(test[p], step[p], c) /\ Leaves(p, c)
<1> DEFINE t == test[p]
           s == step[p]
<1>1. t \in 1..15 /\ s \in 1..6
  <2>1. t \in Tests /\ s \in 1..Length(t)
    BY DEF TypesInv
  <2>2. QED  BY <2>1, Lengths
<1>2. t <= WallTest(c) /\ (t = WallTest(c) => s <= WallStep(c))
  <2>1. WallTest(c) \in Nat
    BY DEF WallTest
  <2>2. QED  BY <1>1, <2>1 DEF UpTo
<1>3. CASE c = "bind_none"
  BY <1>1, <1>2, <1>3, BindNoneWall DEF WallTest, Flawed
<1>4. CASE c = "listen_unbinds"
  BY <1>1, <1>2, <1>4, ListenUnbindsWall DEF WallTest, WallStep, Flawed
<1>5. CASE c = "close_keeps"
  BY <1>1, <1>2, <1>5, CloseKeepsWall DEF WallTest, WallStep, Flawed
<1>6. CASE c = "few"
  BY <1>1, <1>2, <1>6, FewWall DEF WallTest, WallStep, Flawed
<1>7. CASE c = "bind_no_file"
  BY <1>7, BindNoFileWall DEF Flawed
<1>8. CASE c = "unlink_keeps"
  BY <1>2, <1>8, UnlinkKeepsWall DEF WallTest, WallStep, Flawed
<1>9. CASE c = "pair_unconnected"
  BY <1>1, <1>2, <1>9, UnconnectedWall DEF WallTest, Flawed
<1>10. CASE c \in {"send_drops", "recv_short"}
  <2>1. WallTest(c) = 14 /\ WallStep(c) = 3 /\ fault = c
    BY <1>10 DEF WallTest, WallStep, Flawed
  <2>2. QED  BY <1>1, <1>2, <1>10, <2>1, MessageWall
<1>11. CASE c = "shutdown_closes"
  BY <1>2, <1>11, ShutdownClosesWall DEF WallTest, WallStep, Flawed
<1>12. QED
  BY <1>3, <1>4, <1>5, <1>6, <1>7, <1>8, <1>9, <1>10, <1>11 DEF Flaws, UnseenStandalone

\* A step of p that takes nothing from the files leaves the others where they are.
LEMMA OthersWalled ==
  ASSUME TypesInv, NEW p \in Procs, Frame(p), NEW c \in Flaws, Flawed(c),
         NEW q \in Procs, q # p, Walled(q, c),
         c = "bind_no_file" /\ files = {} => files' = {},
         c = "unlink_keeps" => files \subseteq files'
  PROVE  Walled(q, c)'
<1>1. /\ fds'[q] = fds[q] /\ (q \in port' <=> q \in port) /\ build'[q] = build[q]
      /\ test'[q] = test[q] /\ step'[q] = step[q] /\ status'[q] = status[q]
  BY DEF Frame
<1>2. status[q] = "running" => UpTo(test[q], step[q], c)' /\ Carries(q, c)'
  <2> SUFFICES ASSUME UpTo(test[q], step[q], c), Carries(q, c)
               PROVE  UpTo(test[q], step[q], c)' /\ Carries(q, c)'
    BY DEF Walled
  <2>1. UpTo(test[q], step[q], c)'
    BY <1>1 DEF UpTo, WallTest, WallStep
  <2>2. CASE c = "unlink_keeps"
    BY <1>1, <2>2 DEF Carries
  <2>3. CASE c = "bind_no_file"
    BY <1>1, <2>3 DEF Carries
  <2>4. CASE c \notin {"unlink_keeps", "bind_no_file"}
    BY <1>1, <2>4 DEF Carries
  <2>5. QED  BY <2>1, <2>2, <2>3, <2>4
<1>3. QED  BY <1>1, <1>2 DEF Walled

LEMMA EndWalled ==
  ASSUME TypesInv, NEW p \in Procs, status[p] = "running",
         NEW how \in {"aborted", "killed"}, EndProcess(p, how),
         NEW c \in Flaws, Flawed(c), \A q \in Procs : Walled(q, c)
  PROVE  \A q \in Procs : Walled(q, c)'
<1>1. /\ status'[p] = how /\ files' = files
      /\ \A h \in Handles : fds'[p][h] = Closed
  BY DEF EndProcess, TypesInv
<1>2. c = "bind_no_file" => files = {}
  BY DEF Walled, Carries
<1>3. Walled(p, c)'
  BY <1>1, <1>2 DEF Walled
<1>4. Frame(p)
  BY EndStep
<1>5. QED  BY <1>1, <1>3, <1>4, OthersWalled

LEMMA CallWalled ==
  ASSUME TypesInv, NEW p \in Procs, SysCall(p),
         NEW c \in Flaws, Flawed(c), \A q \in Procs : Walled(q, c)
  PROVE  \A q \in Procs : Walled(q, c)'
<1>1. status[p] = "running"
  BY DEF SysCall, At, SysSocket, SysBind, SysListen, SysGetsockname, SysClose,
     SysUnlink, CleanUp, SysSocketpair, SysGetpeername, SysWrite, SysRead, SysShutdown
<1>2. CASE EndProcess(p, "aborted")
  BY <1>1, <1>2, EndWalled
<1>3. CASE ~EndProcess(p, "aborted")
  <2>1. GoOn(p) /\ Effect(p)
    BY <1>1, <1>3, CallEffects
  <2>2. Frame(p)
    BY <1>1, <2>1, GoOnStep
  <2>3. UpTo(test[p], step[p], c) /\ Carries(p, c)
    BY <1>1 DEF Walled
  <2>4. ~AtWall(test[p], step[p], c) /\ Leaves(p, c)
    BY <1>3, <2>3, NobodyGetsPast
  <2>5. /\ test[p] \in 1..15 /\ step[p] \in 1..6 /\ step[p] \in 1..Length(test[p])
        /\ status'[p] = "running" /\ UpTo(test'[p], step'[p], c)
        /\ \/ test'[p] = test[p] /\ step'[p] = step[p] + 1
           \/ test'[p] = test[p] + 1 /\ step'[p] = 1 /\ step[p] = Length(test[p])
    BY <1>1, <2>1, <2>3, <2>4, GetsOn
  <2>6. Carries(p, c)'
    <3>1. build'[p] = build[p]
      BY <2>1 DEF GoOn
    <3>2. QED  BY <2>4, <2>5, <3>1, LeftIsCarried
  <2>7. Walled(p, c)'
    <3>1. UpTo(test[p], step[p], c)'
      BY <2>5 DEF UpTo, WallTest, WallStep
    <3>2. QED  BY <2>5, <2>6, <3>1 DEF Walled
  <2>8. /\ c = "bind_no_file" /\ files = {} => files' = {}
        /\ c = "unlink_keeps" => files \subseteq files'
    <3>1. c \in {"bind_no_file", "unlink_keeps"} => fault = c
      BY DEF Flawed
    <3>2. QED  BY <1>3, <3>1, FilesAfter
  <2>9. QED  BY <2>2, <2>7, <2>8, OthersWalled
<1>4. QED  BY <1>2, <1>3

\* A process starts far from the wall, with nothing open.
LEMMA StartWalled ==
  ASSUME TypesInv, NEW p \in Procs, Start(p),
         NEW c \in Flaws, Flawed(c), \A q \in Procs : Walled(q, c)
  PROVE  \A q \in Procs : Walled(q, c)'
<1>1. /\ status[p] # "running" /\ status'[p] = "running"
      /\ test'[p] = 1 /\ step'[p] = 1
      /\ fds' = fds /\ port' = port /\ files' = files
      /\ \A q \in Procs \ {p} : /\ status'[q] = status[q] /\ test'[q] = test[q]
                                /\ step'[q] = step[q] /\ build'[q] = build[q]
  BY DEF Start, TypesInv, host
<1>2. /\ \A h \in Handles : fds[p][h] = Closed
      /\ c = "bind_no_file" => files = {}
  BY <1>1 DEF Walled
<1>3. Walled(p, c)'
  <2>1. UpTo(test[p], step[p], c)'
    BY <1>1 DEF UpTo, WallTest, WallStep
  <2>2. Carries(p, c)'
    BY <1>1, <1>2 DEF Carries, Handles, Pair, Closed, Message
  <2>3. QED  BY <1>1, <2>1, <2>2 DEF Walled
<1>4. ASSUME NEW q \in Procs, q # p
      PROVE  Walled(q, c)'
  <2>1. Walled(q, c)
    OBVIOUS
  <2>2. /\ UpTo(test[q], step[q], c) => UpTo(test[q], step[q], c)'
        /\ Carries(q, c) => Carries(q, c)'
    BY <1>1, <1>4 DEF UpTo, WallTest, WallStep, Carries
  <2>3. QED  BY <1>1, <1>4, <2>1, <2>2 DEF Walled
<1>5. QED  BY <1>3, <1>4

-----------------------------------------------------------------------------
\* The world does not change.
LEMMA WorldStays ==
  ASSUME TypesInv, [Next]_vars
  PROVE  UNCHANGED <<fault, standalone, limit>>
<1>1. ASSUME NEW p \in Procs, SysCall(p)
      PROVE  UNCHANGED <<fault, standalone, limit>>
  <2>1. status[p] = "running"
    BY <1>1 DEF SysCall, At, SysSocket, SysBind, SysListen, SysGetsockname, SysClose,
       SysUnlink, CleanUp, SysSocketpair, SysGetpeername, SysWrite, SysRead, SysShutdown
  <2>2. QED  BY <1>1, <2>1, CallEffects DEF GoOn, EndProcess, world
<1>2. ASSUME NEW p \in Procs, Start(p) \/ Kill(p)
      PROVE  UNCHANGED <<fault, standalone, limit>>
  BY <1>2 DEF Start, Kill, EndProcess, world
<1>3. ASSUME Stop \/ UNCHANGED vars
      PROVE  UNCHANGED <<fault, standalone, limit>>
  BY <1>3 DEF Stop, vars, world
<1>4. QED  BY <1>1, <1>2, <1>3 DEF Next

LEMMA WallsStand ==
  ASSUME TypesInv, WallInv, [Next]_vars
  PROVE  WallInv'
<1>1. \A c \in Flaws : Flawed(c)' => Flawed(c)
  BY WorldStays DEF Flawed
<1>2. ASSUME NEW c \in Flaws, Flawed(c)
      PROVE  \A q \in Procs : Walled(q, c)'
  <2>1. \A q \in Procs : Walled(q, c)
    BY <1>2 DEF WallInv
  <2>2. ASSUME NEW p \in Procs, SysCall(p) PROVE \A q \in Procs : Walled(q, c)'
    BY <1>2, <2>1, <2>2, CallWalled
  <2>3. ASSUME NEW p \in Procs, Start(p) PROVE \A q \in Procs : Walled(q, c)'
    BY <1>2, <2>1, <2>3, StartWalled
  <2>4. ASSUME NEW p \in Procs, Kill(p) PROVE \A q \in Procs : Walled(q, c)'
    <3>1. status[p] = "running" /\ EndProcess(p, "killed")
      BY <2>4 DEF Kill
    <3>2. QED  BY <1>2, <2>1, <3>1, EndWalled
  <2>5. ASSUME Stop \/ UNCHANGED vars PROVE \A q \in Procs : Walled(q, c)'
    <3>1. UNCHANGED <<fds, port, files, build, test, step, status>>
      BY <2>5 DEF Stop, vars, host, process
    <3>2. QED  BY <2>1, <3>1 DEF Walled, UpTo, WallTest, WallStep, Carries
  <2>6. QED  BY <2>2, <2>3, <2>4, <2>5 DEF Next
<1>3. Flaws' = Flaws /\ Procs' = Procs
  BY DEF Flaws, UnseenStandalone, Procs
<1>4. QED  BY <1>1, <1>2, <1>3 DEF WallInv

\* A process has room when it starts, and the steps of others take none of it.
LEMMA RoomStays ==
  ASSUME IInv, RoomInv, [Next]_vars
  PROVE  RoomInv'
<1> USE DEF IInv
<1>1. UNCHANGED <<fault, standalone, limit>> /\ limit \in Nat
  BY WorldStays DEF TypesInv
<1>2. ASSUME NEW q \in Procs, test'[q] = test[q], step'[q] = step[q],
             status'[q] = status[q]
      PROVE  Room(q)'
  <2>1. Room(q)
    BY DEF RoomInv
  <2>2. QED  BY <1>1, <1>2, <2>1 DEF Room, Leaks, Made, MadeAt, InetTests, UnixTests
<1>3. ASSUME NEW p \in Procs, SysCall(p), NEW q \in Procs
      PROVE  Room(q)'
  <2>1. CASE q = p
    BY <1>3, <2>1, CallRoom DEF RoomInv
  <2>2. CASE q # p
    <3>1. status[p] = "running"
      BY <1>3 DEF SysCall, At, SysSocket, SysBind, SysListen, SysGetsockname, SysClose,
       SysUnlink, CleanUp, SysSocketpair, SysGetpeername, SysWrite, SysRead, SysShutdown
    <3>2. Frame(p)
      BY <1>3, <3>1, CallEffects, EndStep, GoOnStep
    <3>3. QED  BY <1>2, <2>2, <3>2 DEF Frame
  <2>3. QED  BY <2>1, <2>2
<1>4. ASSUME NEW p \in Procs, Start(p), NEW q \in Procs
      PROVE  Room(q)'
  <2>1. CASE q = p
    <3>1. status'[p] = "running" /\ test'[p] = 1 /\ step'[p] = 1
      BY <1>4 DEF Start, TypesInv
    <3>2. MadeAt(test[p], step[p])' = 0
      BY <3>1 DEF MadeAt, InetTests
    <3>3. QED  BY <1>1, <2>1, <3>1, <3>2 DEF Room
  <2>2. CASE q # p
    <3>1. test'[q] = test[q] /\ step'[q] = step[q] /\ status'[q] = status[q]
      BY <1>4, <2>2 DEF Start, TypesInv
    <3>2. QED  BY <1>2, <3>1
  <2>3. QED  BY <2>1, <2>2
<1>5. ASSUME NEW p \in Procs, Kill(p), NEW q \in Procs
      PROVE  Room(q)'
  <2>1. CASE q = p
    <3>1. status'[p] = "killed"
      BY <1>5, EndOwn DEF Kill
    <3>2. QED  BY <2>1, <3>1 DEF Room
  <2>2. CASE q # p
    <3>1. Frame(p)
      BY <1>5, EndStep DEF Kill
    <3>2. QED  BY <1>2, <2>2, <3>1 DEF Frame
  <2>3. QED  BY <2>1, <2>2
<1>6. ASSUME Stop \/ UNCHANGED vars, NEW q \in Procs
      PROVE  Room(q)'
  BY <1>2, <1>6 DEF Stop, vars, process
<1>7. QED  BY <1>3, <1>4, <1>5, <1>6 DEF RoomInv, Next

\* For any fault and any table of descriptors, whatever the others do: with a
\* flaw no process gets past the call that shows it, and with a close() that
\* leaks none gets on without room for what it has left open.
THEOREM FlawsStop == Spec => [](IInv /\ RoomInv /\ WallInv)
<1>1. Init => RoomInv /\ WallInv
  <2> SUFFICES ASSUME Init PROVE RoomInv /\ WallInv
    OBVIOUS
  <2>1. \A p \in Procs : /\ status[p] = "idle"
                         /\ \A h \in Handles : fds[p][h] = Closed
    BY DEF Init
  <2>2. files = {}
    BY DEF Init
  <2>3. QED  BY <2>1, <2>2 DEF RoomInv, Room, WallInv, Walled
<1>2. IInv /\ RoomInv /\ WallInv /\ [Next]_vars => (RoomInv /\ WallInv)'
  BY RoomStays, WallsStand DEF IInv
<1>3. QED  BY <1>1, <1>2, InitIInv, NextIInv, PTL DEF Spec

\* The verdict of a process that runs alone (main.c of network-c) tells exactly
\* whether the library has no fault that the assertions of inet.c and unix.c
\* see, and descriptors enough.
THEOREM SuiteTells == Spec => []PassTells
<1>1. IInv /\ RoomInv /\ WallInv => PassTells
  <2> SUFFICES ASSUME IInv, RoomInv, WallInv,
                      status[1] \in {"ok", "aborted"}, neighbours[1] = {}
               PROVE  status[1] = "ok" <=> Enough /\ fault \in Passing
    BY DEF PassTells, Enough, Leaks, Passing
  <2>1. 1 \in Procs
    BY ConstantsAssumption DEF Procs
  <2>2. ASSUME status[1] = "ok"
        PROVE  Enough /\ fault \in Passing
    <3>1. \A c \in Flaws : ~Flawed(c)
      BY <2>1, <2>2 DEF WallInv, Walled
    <3>2. limit >= Needed
      <4>1. standalone \/ limit >= 4
        <5>1. ~Flawed("few")
          BY <3>1 DEF Flaws
        <5>2. limit \in Nat /\ standalone \in BOOLEAN
          BY DEF IInv, TypesInv
        <5>3. QED  BY <5>1, <5>2 DEF Flawed
      <4>2. QED  BY <4>1 DEF Needed, IInv, TypesInv
    <3>3. Leaks => limit >= Made
      BY <2>1, <2>2 DEF RoomInv, Room, IInv, TypesInv, Made
    <3>4. fault \in Passing
      <4>1. /\ fault \notin {"bind_none", "listen_unbinds", "close_keeps"}
            /\ fault \in UnseenStandalone => standalone
        <5>1. \A c \in {"bind_none", "listen_unbinds", "close_keeps"} :
                c \in Flaws /\ c # "few" /\ c \notin UnseenStandalone
          BY DEF Flaws, UnseenStandalone
        <5>2. \A c \in UnseenStandalone : c \in Flaws /\ c # "few"
          BY DEF Flaws, UnseenStandalone
        <5>3. \A c \in {"bind_none", "listen_unbinds", "close_keeps"} : fault # c
          BY <3>1, <5>1 DEF Flawed
        <5>4. \A c \in UnseenStandalone : fault = c => standalone
          BY <3>1, <5>2 DEF Flawed
        <5>5. QED  BY <5>3, <5>4
      <4>2. fault \in Faults \cup {"none"}
        BY DEF IInv, TypesInv
      <4>3. QED  BY <4>1, <4>2 DEF Faults, Passing, Unseen, UnseenStandalone
    <3>5. QED  BY <3>2, <3>3, <3>4 DEF Enough
  <2>3. ASSUME status[1] = "aborted", Enough, fault \in Passing
        PROVE  FALSE
    <3>1. Blamed(1)
      BY <2>1, <2>3 DEF IInv, ConformingInv
    <3>2. neighbours[1] # {}
      BY <2>3, <3>1 DEF Blamed
    <3>3. QED  BY <3>2
  <2>4. QED  BY <2>2, <2>3
<1>2. QED  BY <1>1, FlawsStop, PTL

=============================================================================
