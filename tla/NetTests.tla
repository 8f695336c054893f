------------------------------ MODULE NetTests ------------------------------
(***************************************************************************)
(* network-c, the tests of the socket calls: main() of src/network-c/main.c*)
(* runs the tests of inet.c and then, unless it is built for standalone    *)
(* mode, those of unix.c, one after the other in one process.              *)
(*                                                                         *)
(* All processes of the suite on one host use one port, and those of one   *)
(* build the same socket file: its name comes from rand() with a seed that *)
(* is fixed per build.  The file outlives the process, and close().  Any   *)
(* number of processes may run at once, be killed and be started again.    *)
(*                                                                         *)
(* The tests are sequences of calls; the actions are what the calls do in  *)
(* the library, which is outside the repository and has at most one fault, *)
(* and what the tests assert about them.                                   *)
(***************************************************************************)
EXTENDS Integers, Sequences, FiniteSets

CONSTANTS
  NumProcs,   \* processes of the suite on the host
  MaxStarts,  \* bound: how many are started on one host
  MaxLimit    \* bound: descriptors a process may have, as far as we look

ASSUME ConstantsAssumption ==
  NumProcs \in Nat \ {0} /\ MaxStarts \in Nat /\ MaxLimit \in Nat \ {0}

Procs == 1..NumProcs

(***************************************************************************)
(* One wrong behaviour each of a call.                                     *)
(***************************************************************************)
Faults == {
  "bind_none", "listen_none", "shutdown_none",
                      \* the call returns 0 and does nothing
  "bind_shared",      \* bind() to an address in use succeeds
  "bind_no_file",     \* bind() makes no socket file
  "listen_unbinds",   \* listen() forgets the address
  "close_keeps",      \* close() does not give back the address
  "close_leaks",      \* close() does not give back the descriptor
  "unlink_keeps",     \* unlink() of a socket file has no effect
  "pair_unconnected", \* socketpair() returns two sockets without a peer
  "peer_is_self",     \* getpeername() returns the socket's own name
  "send_drops",       \* what is sent does not arrive
  "recv_short",       \* the last byte is lost
  "shutdown_closes"}  \* shutdown() closes the descriptor

\* The names rand() makes of the two values of SEED.
SEED == {"debug", "release"}
Domains == {"AF_INET", "AF_UNIX"}
Handles == {"sockfd", "sockfds[0]", "sockfds[1]"}
Pair == {"sockfds[0]", "sockfds[1]"}

VARIABLES
  \* the world, which does not change
  fault,       \* "none" or one of Faults
  standalone,  \* built with __NANVIX_STANDALONE__
  limit,       \* descriptors a process may have for sockets
  \* the host
  port,        \* the processes with a socket that has the port
  files,       \* the socket files there are
  \* each process
  build,       \* the seed it was built with
  fds,         \* local variable -> socket, or Closed
  lost,        \* open descriptors no variable holds
  test, step,  \* the call to be made next
  status,      \* "idle", "running", "ok", or "aborted" or "killed" in a test
  \* history
  starts,      \* processes started so far
  neighbours   \* the builds of the processes that ran at the same time

world == <<fault, standalone, limit>>
host == <<port, files>>
process == <<build, fds, lost, test, step, status>>
vars == <<world, host, process, starts, neighbours>>

Closed == [role |-> "closed", name |-> "none", in |-> 0]
Roles == {"closed", "unbound", "bound", "listening", "connected", "shut"}
Names == {"none", "port"} \cup SEED
SocketOf(role) == [role |-> role, name |-> "none", in |-> 0]

-----------------------------------------------------------------------------
(***************************************************************************)
(* The tests.                                                              *)
(***************************************************************************)
Call(c, d, h) == [call |-> c, domain |-> d, handle |-> h]
Close(h) == Call("close", "none", h)

new_unbound_socket(d) == <<Call("socket", d, "sockfd")>>
new_bound_socket(d) == new_unbound_socket(d) \o <<Call("bind", d, "sockfd")>>
new_listening_socket(d) == new_bound_socket(d) \o <<Call("listen", d, "sockfd")>>
new_socket_pair == <<Call("socketpair", "AF_UNIX", "sockfds[0]")>>

\* Mutant: the socket file is left to the next test.
CloseAndLeave(d) == <<Close("sockfd")>>
\* What the tests of common.c end with.
CloseAndUnlink(d) ==
  <<Close("sockfd")>> \o IF d = "AF_UNIX" THEN <<Call("unlink", d, "none")>> ELSE <<>>

Getsockname(d) == <<Call("getsockname", d, "sockfd")>>

test_create_socket(d) == new_unbound_socket(d) \o <<Close("sockfd")>>
test_bind_socket(d) == new_bound_socket(d) \o CloseAndUnlink(d)
test_listen_socket(d) == new_listening_socket(d) \o CloseAndUnlink(d)
test_getsockname_bound_socket(d) ==
  new_bound_socket(d) \o Getsockname(d) \o CloseAndUnlink(d)
test_getsockname_listening_socket(d) ==
  new_listening_socket(d) \o Getsockname(d) \o CloseAndUnlink(d)

ClosePair == <<Close("sockfds[0]"), Close("sockfds[1]")>>
test_create_socket_pair == new_socket_pair \o ClosePair
\* Mutant: both sockets are closed.
test_getpeernameClosing ==
  new_socket_pair \o <<Call("getpeername", "AF_UNIX", "sockfds[0]")>> \o ClosePair
\* getsockname() and getpeername() of one end, and a comparison of the two, as
\* one call: each reads, and nothing comes in between.  The pair is never closed.
test_getpeername ==
  new_socket_pair \o <<Call("getpeername", "AF_UNIX", "sockfds[0]")>>
\* Mutant: the message is read where it was written.
test_send_recvSelf ==
  new_socket_pair \o <<Call("write", "AF_UNIX", "sockfds[0]"),
                       Call("read", "AF_UNIX", "sockfds[0]")>> \o ClosePair
test_send_recv ==
  new_socket_pair \o <<Call("write", "AF_UNIX", "sockfds[0]"),
                       Call("read", "AF_UNIX", "sockfds[1]")>> \o ClosePair
test_shutdown ==
  new_socket_pair \o <<Call("shutdown", "AF_UNIX", "sockfds[0]"),
                       Call("shutdown", "AF_UNIX", "sockfds[1]")>> \o ClosePair

\* Both lists begin alike.
SocketTests(d) ==
  <<test_create_socket(d), test_bind_socket(d), test_listen_socket(d),
    test_getsockname_bound_socket(d), test_getsockname_listening_socket(d)>>

test_inet_sockets == SocketTests("AF_INET")
\* Mutant: what an earlier run left is not removed.
test_unix_socketsUncleaned ==
  SocketTests("AF_UNIX")
    \o <<test_create_socket_pair, test_getpeername, test_send_recv, test_shutdown>>
test_unix_sockets ==
  <<<<Call("clean_up", "AF_UNIX", "none")>>>> \o SocketTests("AF_UNIX")
    \o <<test_create_socket_pair, test_getpeername, test_send_recv, test_shutdown>>

Suite == test_inet_sockets \o IF standalone THEN <<>> ELSE test_unix_sockets
\* Descriptors the suite has open at once: the pair of test_getpeername() and
\* that of the test after it.
Needed == IF standalone THEN 1 ELSE 4

Init ==
  /\ fault \in Faults \cup {"none"} /\ standalone \in BOOLEAN
  /\ limit \in 1..MaxLimit
  /\ port = {} /\ files = {}
  /\ build = [p \in Procs |-> "debug"]
  /\ fds = [p \in Procs |-> [h \in Handles |-> Closed]]
  /\ lost = [p \in Procs |-> 0]
  /\ test = [p \in Procs |-> 1] /\ step = [p \in Procs |-> 1]
  /\ status = [p \in Procs |-> "idle"]
  /\ starts = 0
  /\ neighbours = [p \in Procs |-> {}]

-----------------------------------------------------------------------------
(***************************************************************************)
(* A process: main() goes from call to call, a failed assertion ends it.   *)
(***************************************************************************)
Now(p) == Suite[test[p]][step[p]]
At(p, call) == status[p] = "running" /\ Now(p).call = call
Socket(p) == fds[p][Now(p).handle]
Other(h) == IF h = "sockfds[0]" THEN "sockfds[1]" ELSE "sockfds[0]"

OpenFds(p) == Cardinality({h \in Handles : fds[p][h] # Closed}) + lost[p]

\* What the host does with the sockets of a process that ends.
EndProcess(p, how) ==
  /\ status' = [status EXCEPT ![p] = how]
  /\ fds' = [fds EXCEPT ![p] = [h \in Handles |-> Closed]]
  /\ lost' = [lost EXCEPT ![p] = 0]
  /\ port' = port \ {p}
  /\ UNCHANGED <<world, files, build, test, step, starts, neighbours>>

\* The next call, or exit.
GoOn(p) ==
  LET calls == Len(Suite[test[p]])
      last == test[p] = Len(Suite) /\ step[p] = calls
  IN  /\ status' = [status EXCEPT ![p] = IF last THEN "ok" ELSE @]
      /\ step' = [step EXCEPT ![p] = IF last THEN @ ELSE (@ % calls) + 1]
      /\ test' = [test EXCEPT ![p] = IF last \/ step[p] < calls THEN @ ELSE @ + 1]
      /\ UNCHANGED <<world, build, starts, neighbours>>

\* assert(ok): the call has the effect, or the process aborts.
Assert(p, ok, effect) == \/ ok /\ effect /\ GoOn(p)
                         \/ ~ok /\ EndProcess(p, "aborted")

Set(p, h, s) == fds' = [fds EXCEPT ![p][h] = s]

-----------------------------------------------------------------------------
(***************************************************************************)
(* The library and the host.                                               *)
(***************************************************************************)
Addr(p) == IF Now(p).domain = "AF_INET" THEN "port" ELSE build[p]
InUse(p) == IF Now(p).domain = "AF_INET" THEN port # {} ELSE build[p] \in files

SysSocket(p) ==
  /\ At(p, "socket")
  /\ Assert(p, OpenFds(p) < limit,
            /\ Set(p, "sockfd", SocketOf("unbound"))
            /\ UNCHANGED <<lost, host>>)

SysBind(p) ==
  /\ At(p, "bind")
  /\ Assert(p, InUse(p) => fault \in {"bind_shared", "bind_none"},
       IF fault = "bind_none" THEN UNCHANGED <<fds, lost, host>>
       ELSE /\ Set(p, "sockfd", [Socket(p) EXCEPT !.role = "bound", !.name = Addr(p)])
            /\ IF Now(p).domain = "AF_INET"
               THEN port' = port \cup {p} /\ UNCHANGED files
               ELSE /\ files' = IF fault = "bind_no_file" THEN files
                                ELSE files \cup {build[p]}
                    /\ UNCHANGED port
            /\ UNCHANGED lost)

SysListen(p) ==
  /\ At(p, "listen")
  /\ Assert(p, TRUE,
       /\ Set(p, "sockfd",
              IF fault = "listen_none" THEN Socket(p)
              ELSE [Socket(p) EXCEPT !.role = "listening",
                      !.name = IF fault = "listen_unbinds" THEN "none" ELSE @])
       /\ UNCHANGED <<lost, host>>)

\* Length, family and data are compared with the address that was bound.
SysGetsockname(p) ==
  /\ At(p, "getsockname")
  /\ Assert(p, Socket(p).name = Addr(p), UNCHANGED <<fds, lost, host>>)

\* A socket file stays where it is.
SysClose(p) ==
  /\ At(p, "close")
  /\ Assert(p, Socket(p) # Closed,
       /\ Set(p, Now(p).handle, Closed)
       /\ lost' = [lost EXCEPT ![p] = IF fault = "close_leaks" THEN @ + 1 ELSE @]
       /\ port' = IF Socket(p).name = "port" /\ fault # "close_keeps"
                  THEN port \ {p} ELSE port
       /\ UNCHANGED files)

SysUnlink(p) ==
  /\ At(p, "unlink")
  /\ Assert(p, build[p] \in files,
       /\ files' = IF fault = "unlink_keeps" THEN files ELSE files \ {build[p]}
       /\ UNCHANGED <<fds, lost, port>>)

\* The first call of test_unix_sockets(); nobody looks at its result.
CleanUp(p) ==
  /\ At(p, "clean_up")
  /\ Assert(p, TRUE,
       /\ files' = IF fault = "unlink_keeps" THEN files ELSE files \ {build[p]}
       /\ UNCHANGED <<fds, lost, port>>)

\* The variables of an earlier pair are gone, its descriptors need not be.
SysSocketpair(p) ==
  /\ At(p, "socketpair")
  /\ LET role == IF fault = "pair_unconnected" THEN "unbound" ELSE "connected"
     IN  Assert(p, OpenFds(p) + 2 <= limit,
           /\ fds' = [fds EXCEPT ![p] = [h \in Handles |->
                        IF h \in Pair THEN SocketOf(role) ELSE @[h]]]
           /\ lost' = [lost EXCEPT ![p] =
                        @ + Cardinality({h \in Pair : fds[p][h] # Closed})]
           /\ UNCHANGED host)

\* The two names are compared: the sockets of a pair have none.
SysGetpeername(p) ==
  /\ At(p, "getpeername")
  /\ LET from == IF fault = "peer_is_self" THEN Now(p).handle
                 ELSE Other(Now(p).handle)
     IN  Assert(p, Socket(p).role = "connected" /\ fds[p][from].name = Socket(p).name,
                UNCHANGED <<fds, lost, host>>)

Message == 5  \* strlen("hello")
SysWrite(p) ==
  /\ At(p, "write")
  /\ Assert(p, Socket(p).role = "connected",
       /\ Set(p, Other(Now(p).handle),
              [fds[p][Other(Now(p).handle)] EXCEPT !.in =
                 IF fault = "send_drops" THEN 0
                 ELSE IF fault = "recv_short" THEN Message - 1 ELSE Message])
       /\ UNCHANGED <<lost, host>>)

\* Blocks while there is nothing to read.
SysRead(p) ==
  /\ At(p, "read")
  /\ Socket(p).in > 0
  /\ Assert(p, Socket(p).in = Message,
            Set(p, Now(p).handle, [Socket(p) EXCEPT !.in = 0]) /\ UNCHANGED <<lost, host>>)

SysShutdown(p) ==
  /\ At(p, "shutdown")
  /\ Assert(p, Socket(p).role = "connected",
       /\ Set(p, Now(p).handle,
              IF fault = "shutdown_none" THEN Socket(p)
              ELSE IF fault = "shutdown_closes" THEN Closed
              ELSE [Socket(p) EXCEPT !.role = "shut"])
       /\ UNCHANGED <<lost, host>>)

SysCall(p) ==
  \/ SysSocket(p) \/ SysBind(p) \/ SysListen(p) \/ SysGetsockname(p) \/ SysClose(p)
  \/ SysUnlink(p) \/ CleanUp(p) \/ SysSocketpair(p) \/ SysGetpeername(p)
  \/ SysWrite(p) \/ SysRead(p) \/ SysShutdown(p)

-----------------------------------------------------------------------------
\* A library with a fault, or a short table, gets one process, which is left
\* to itself.
Alone == fault # "none" \/ limit # Needed

Running == {p \in Procs : status[p] = "running"}

\* A process is started, for the first time or again, from either build; what
\* its predecessor had open at exit is closed.
Start(p) ==
  /\ status[p] # "running" /\ starts < MaxStarts
  /\ Alone => p = 1 /\ starts = 0
  /\ \E b \in SEED :
       /\ build' = [build EXCEPT ![p] = b]
       /\ neighbours' = [q \in Procs |->
            IF q = p THEN {build[r] : r \in Running}
            ELSE IF q \in Running THEN neighbours[q] \cup {b} ELSE neighbours[q]]
  /\ status' = [status EXCEPT ![p] = "running"]
  /\ test' = [test EXCEPT ![p] = 1] /\ step' = [step EXCEPT ![p] = 1]
  /\ lost' = [lost EXCEPT ![p] = 0]
  /\ starts' = starts + 1
  /\ UNCHANGED <<world, host, fds>>

Kill(p) == status[p] = "running" /\ ~Alone /\ EndProcess(p, "killed")

\* All have ended, or wait for what will not come.
Waiting(p) == At(p, "read") /\ Socket(p).in = 0
Stop == /\ \A p \in Procs : status[p] = "running" => Waiting(p)
        /\ UNCHANGED vars

Next == (\E p \in Procs : SysCall(p) \/ Start(p) \/ Kill(p)) \/ Stop

Spec == Init /\ [][Next]_vars

\* Every process makes its next call; only read() may block.
FairSpec == Spec /\ \A p \in Procs : WF_vars(SysCall(p))
-----------------------------------------------------------------------------
\* The library does what POSIX asks for and has descriptors enough.
Conforming == fault = "none" /\ limit >= Needed

\* What the suite does not see, built with all tests ...
Unseen == {"bind_shared", "listen_none", "shutdown_none", "peer_is_self"}
\* ... and what it does not see either with those of inet.c alone.
UnseenStandalone == {"bind_no_file", "unlink_keeps", "pair_unconnected",
  "send_drops", "recv_short", "shutdown_closes"}
\* The sockets it makes: so many must be left if none is given back.
Made == IF standalone THEN 5 ELSE 18

\* A process that runs alone passes exactly if the library has no fault the
\* assertions see, and room for 4 descriptors (1 in standalone mode): that
\* test_getpeername() closes nothing costs two (unix.c:36).
PassTells ==
  status[1] \in {"ok", "aborted"} /\ neighbours[1] = {} =>
    (status[1] = "ok" <=>
       /\ limit >= Needed
       /\ fault = "close_leaks" => limit >= Made
       /\ fault \in {"none", "close_leaks"} \cup Unseen
                      \cup IF standalone THEN UnseenStandalone ELSE {})

\* On a conforming library a process that has the host to itself while it
\* runs ends with "ok" (main.c:155) unless it is killed, whatever earlier
\* ones that were killed anywhere, or failed, left behind.
ConformingPasses ==
  \A p \in Procs : Conforming /\ status[p] = "running" ~>
                     \/ status[p] \in {"ok", "killed"}
                     \/ neighbours[p] # {}

\* A test that fails on a conforming library fails because of a process that
\* ran at the same time, at the address both use: the port of either build, or
\* the socket file of the same build, which is taken, or has been removed by
\* the other's clean-up.
FailsOnlyByNeighbour ==
  \A p \in Procs : Conforming /\ status[p] = "aborted" =>
    /\ Now(p).call \in {"bind", "unlink"}
    /\ IF Now(p).domain = "AF_INET" THEN neighbours[p] # {}
       ELSE build[p] \in neighbours[p]

\* Each test of a process that has the host to itself gives back what it took,
\* but for the two sockets of test_getpeername(): when the next one begins the
\* port is free, the descriptors are closed, and, once test_unix_sockets() has
\* cleaned up, the socket file is gone.
CleanBetween ==
  \A p \in Procs :
    Conforming /\ neighbours[p] = {} /\ status[p] = "running" /\ step[p] = 1 =>
      /\ p \notin port
      /\ OpenFds(p) = IF test[p] > Len(test_inet_sockets) + 8 THEN 2 ELSE 0
      /\ test[p] > Len(test_inet_sockets) + 1 => build[p] \notin files
=============================================================================
