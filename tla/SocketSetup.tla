----------------------------- MODULE SocketSetup -----------------------------
(***************************************************************************)
(* Common::createSocket(logger, socket_cfg) (src/macros.h): resolve the    *)
(* address, then, for the first addrinfo result, create the descriptor and *)
(* apply the options socket_cfg asks for, each system call checked by an   *)
(* ASSERT that ends the process when it fails.                             *)
(*                                                                         *)
(* One call of createSocket, for a configuration chosen in Init, is one    *)
(* behaviour; each system call is one step.  The kernel decides each       *)
(* call's result.  A call the kernel may refuse for reasons of its own     *)
(* (resources, permissions, a refused connection) fails                    *)
(* nondeterministically and sets envFailed.  listen() on a datagram socket *)
(* always fails (EOPNOTSUPP), and listen() on a stream socket that was     *)
(* never bound binds it to an ephemeral port, as POSIX says.               *)
(***************************************************************************)
EXTENDS Naturals

CONSTANTS
  Port,       \* socket_cfg.port_
  Ephemeral,  \* the port the kernel picks for a socket listen() auto-binds
  NoPort      \* the port of a socket that is not bound

\* The fields of SocketCfg that createSocket() reads (ip_ and iface_ only
\* feed getaddrinfo(), whose result is abstracted to success or failure).
Cfg == [udp : BOOLEAN, listening : BOOLEAN, timestamp : BOOLEAN]

VARIABLES
  cfg,        \* socket_cfg
  pc,         \* the next statement of createSocket()
  sock,       \* the descriptor socket_fd
  status,     \* "running", "returned" (socket_fd returned), "aborted" (an ASSERT failed)
  envFailed   \* some system call failed for a reason of the environment

vars == <<cfg, pc, sock, status, envFailed>>

Init ==
  /\ cfg \in Cfg
  /\ pc = "resolve"
  /\ sock = [open |-> FALSE, nonblock |-> FALSE, nodelay |-> FALSE, reuse |-> FALSE,
             timestamp |-> FALSE, listening |-> FALSE, port |-> NoPort, conn |-> "none"]
  /\ status = "running"
  /\ envFailed = FALSE

\* A failed ASSERT: the message goes to cerr and the process exits.
Abort(byEnv) ==
  /\ status' = "aborted"
  /\ envFailed' = (envFailed \/ byEnv)
  /\ UNCHANGED <<cfg, pc, sock>>

\* A statement that changes nothing goes on to the statement `to`.
Goto(to) == pc' = to /\ UNCHANGED <<cfg, sock, status, envFailed>>

\* A system call that succeeds: the descriptor becomes s, control goes on to `to`.
Done(s, to) == sock' = s /\ pc' = to /\ UNCHANGED <<cfg, status, envFailed>>

\* getaddrinfo(ip, port, &hints, &result); ASSERT(!rc).
Resolve ==
  /\ status = "running" /\ pc = "resolve"
  /\ Goto("socket") \/ Abort(TRUE)

\* socket_fd = socket(...) for the first result; ASSERT(socket_fd != -1).
CreateFd ==
  /\ status = "running" /\ pc = "socket"
  /\ Done([sock EXCEPT !.open = TRUE], "nonblock") \/ Abort(TRUE)

\* ASSERT(setNonBlocking(socket_fd)): fcntl F_GETFL, then F_SETFL with
\* O_NONBLOCK unless it is already set.
SetNonBlockingStep ==
  /\ status = "running" /\ pc = "nonblock"
  /\ Done([sock EXCEPT !.nonblock = TRUE], "nagle") \/ Abort(TRUE)

\* if(!is_udp_) ASSERT(disableNagle(socket_fd)): setsockopt TCP_NODELAY.
DisableNagleStep ==
  /\ status = "running" /\ pc = "nagle"
  /\ IF cfg.udp
       THEN Goto("connect")
       ELSE Done([sock EXCEPT !.nodelay = TRUE], "connect") \/ Abort(TRUE)

(***************************************************************************)
(* if(!is_listening_) ASSERT(connect(...) != 1, ...).  connect() returns 0 *)
(* or -1, never 1, so the ASSERT never fails: a non-blocking stream        *)
(* connect() returns -1 with EINPROGRESS, or -1 with an error such as      *)
(* ECONNREFUSED, and createSocket() goes on either way.                    *)
(***************************************************************************)
ConnectStep ==
  /\ status = "running" /\ pc = "connect"
  /\ IF cfg.listening
       THEN Goto("reuse")
       ELSE \/ Done([sock EXCEPT !.conn = "connected"], "reuse")
            \/ /\ ~cfg.udp
               /\ Done([sock EXCEPT !.conn = "inprogress"], "reuse")
            \/ /\ sock' = [sock EXCEPT !.conn = "refused"]
               /\ envFailed' = TRUE
               /\ pc' = "reuse"
               /\ UNCHANGED <<cfg, status>>

\* if(is_listening_) ASSERT(setsockopt(SO_REUSEADDR) == 0).
ReuseAddrStep ==
  /\ status = "running" /\ pc = "reuse"
  /\ IF cfg.listening
       THEN Done([sock EXCEPT !.reuse = TRUE], "listen") \/ Abort(TRUE)
       ELSE Goto("listen")

\* What listen() does to a stream socket: it listens, on an ephemeral port
\* if it was never bound.
Listened(s) ==
  [s EXCEPT !.listening = TRUE, !.port = IF @ = NoPort THEN Ephemeral ELSE @]

(***************************************************************************)
(* if(is_listening_): sockaddr_in addr{AF_INET, htons(port_), INADDR_ANY}  *)
(* is built, but never passed to bind(); ASSERT(listen(socket_fd,          *)
(* MaxTCPServerBacklog) == 0).  The test is on is_listening_ alone, so     *)
(* datagram sockets reach it too.  On a stream socket listen() may fail    *)
(* for reasons of the kernel (EADDRINUSE when it auto-binds, ENOBUFS).     *)
(***************************************************************************)
ListenStep ==
  /\ status = "running" /\ pc = "listen"
  /\ IF ~cfg.listening
       THEN Goto("listen2")
       ELSE IF cfg.udp
              THEN Abort(FALSE)
              ELSE Done(Listened(sock), "listen2") \/ Abort(TRUE)

\* if(!is_udp_ && is_listening_) ASSERT(listen(...) == 0) a second time; on
\* a stream socket that already listens it succeeds and changes nothing.
ListenAgainStep ==
  /\ status = "running" /\ pc = "listen2"
  /\ IF ~cfg.udp /\ cfg.listening
       THEN Done(Listened(sock), "timestamp")
       ELSE Goto("timestamp")

\* if(needs_so_timestamp_) ASSERT(setSOTimestamp(socket_fd)); then
\* return socket_fd.
TimestampStep ==
  /\ status = "running" /\ pc = "timestamp"
  /\ IF cfg.timestamp
       THEN \/ /\ sock' = [sock EXCEPT !.timestamp = TRUE]
               /\ status' = "returned"
               /\ UNCHANGED <<cfg, pc, envFailed>>
            \/ Abort(TRUE)
       ELSE /\ status' = "returned"
            /\ UNCHANGED <<cfg, pc, sock, envFailed>>

Next ==
  \/ Resolve \/ CreateFd \/ SetNonBlockingStep \/ DisableNagleStep
  \/ ConnectStep \/ ReuseAddrStep \/ ListenStep \/ ListenAgainStep
  \/ TimestampStep

Spec == Init /\ [][Next]_vars

-----------------------------------------------------------------------------

(***************************************************************************)
(* Spec 4.4 and 7: a descriptor createSocket() returns is open and         *)
(* non-blocking, has small-packet coalescing disabled if it is a stream    *)
(* socket, and has receive timestamps exactly when they were asked for --  *)
(* each option independently, whatever the kernel did to the others.       *)
(***************************************************************************)
ReturnedAsConfigured ==
  status = "returned" =>
    /\ sock.open /\ sock.nonblock
    /\ ~cfg.udp => sock.nodelay
    /\ sock.timestamp = cfg.timestamp
    /\ cfg.listening => sock.reuse /\ sock.listening

(***************************************************************************)
(* The comment above the connect() ASSERT (macros.h:432-433): "If the      *)
(* connect() call fails, the error is logged, and the program terminates"  *)
(* -- a client descriptor createSocket() returns is not one whose          *)
(* connect() failed.                                                       *)
(***************************************************************************)
ConnectFailureEnds ==
  status = "returned" /\ ~cfg.listening => sock.conn # "refused"

(***************************************************************************)
(* Spec 4.4: setup "binds+listens (server)": a listening descriptor        *)
(* createSocket() returns is bound to socket_cfg.port_.                    *)
(***************************************************************************)
ListenerBoundToPort ==
  status = "returned" /\ cfg.listening => sock.port = Port

(***************************************************************************)
(* Spec 4.4 and 7: createSocket() ends the process only when a mandatory   *)
(* system call fails; with every call succeeding it returns a descriptor,  *)
(* for each configuration -- including the datagram socket McastSocket     *)
(* opens to listen on a multicast group.                                   *)
(***************************************************************************)
AbortsOnlyOnFailure == status = "aborted" => envFailed

=============================================================================
