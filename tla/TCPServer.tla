------------------------------ MODULE TCPServer ------------------------------
(***************************************************************************)
(* Common::TCPServer (src/tcp_server.cpp, src/tcp_server.h): a listener    *)
(* socket and the accepted TCPSockets, multiplexed through one kqueue by a *)
(* single reactor thread that calls poll() and then sendAndRecv(), over    *)
(* and over.  Clients connect and send bytes concurrently with it.         *)
(*                                                                         *)
(* The kqueue is modelled by what the code asks of it: every registration  *)
(* is EVFILT_READ with EV_CLEAR, so a registered socket has at most one    *)
(* pending event, raised when a connection or bytes arrive for it and      *)
(* cleared when kevent() returns it.  EVFILT_WRITE is never registered and *)
(* poll() passes no changelist, so the EVFILT_WRITE and EV_ERROR branches  *)
(* of poll() are never taken and send_sockets_ stays empty.  A connection  *)
(* is identified with the TCPSocket accept() wraps it in; a TCPSocket's    *)
(* sendAndRecv() reads every byte the kernel holds for it (its buffer is   *)
(* 64 MiB).                                                                *)
(***************************************************************************)
EXTENDS Naturals, Sequences, FiniteSets, Functions

CONSTANTS
  Conns,        \* the client connections
  Listener,     \* listener_socket_
  MaxData,      \* bound on the bytes each client sends
  EnvMayFail    \* whether kevent() may refuse the listener's registration

ASSUME ServerAssumption ==
  /\ IsFiniteSet(Conns)
  /\ Listener \notin Conns
  /\ MaxData \in Nat
  /\ EnvMayFail \in BOOLEAN

Sockets == Conns \cup {Listener}

VARIABLES
  status,       \* "init" before listen(), "serving", or "aborted" by an ASSERT
  phase,        \* where the reactor is: "poll", "events", "accept", "recv"
  registered,   \* the sockets the kqueue watches
  evPending,    \* the sockets with a pending EVFILT_READ event
  evs,          \* the events the last kevent() returned, not yet handled
  haveNew,      \* have_new_connection
  backlog,      \* connections the kernel has queued on the listener
  accepted,     \* connections accept() has returned
  recvSet,      \* receive_sockets_, in order
  idx,          \* the position of the for_each of sendAndRecv() in receive_sockets_
  tickRecv,     \* the `recv` flag of sendAndRecv()
  sent,         \* bytes each client has sent
  kbuf,         \* bytes the kernel holds for each connection
  received,     \* bytes each TCPSocket has read
  queuedAtPoll  \* the backlog when the current poll() started

vars == <<status, phase, registered, evPending, evs, haveNew, backlog, accepted,
          recvSet, idx, tickRecv, sent, kbuf, received, queuedAtPoll>>

\* Bug variant of AddOnce: push_back without the find.
AddAlways(v, s) == Append(v, s)

\* find(v.begin(), v.end(), s) == v.end() ? push_back(s) : no change.
AddOnce(v, s) == IF s \in Range(v) THEN v ELSE Append(v, s)

\* An event is raised for s if the kqueue watches it.
Raise(s) == IF s \in registered THEN evPending \cup {s} ELSE evPending

Init ==
  /\ status = "init"
  /\ phase = "poll"
  /\ registered = {}
  /\ evPending = {}
  /\ evs = {}
  /\ haveNew = FALSE
  /\ backlog = {}
  /\ accepted = {}
  /\ recvSet = <<>>
  /\ idx = 1
  /\ tickRecv = FALSE
  /\ sent = [c \in Conns |-> 0]
  /\ kbuf = [c \in Conns |-> 0]
  /\ received = [c \in Conns |-> 0]
  /\ queuedAtPoll = {}

(***************************************************************************)
(* listen(iface, port): kqueue() (ASSERT >= 0), the listener's             *)
(* createSocket() (SocketSetup), then ASSERT(addToEpollList(&listener_)).  *)
(* addToEpollList returns kevent(...) != 1; kevent() returns 0 or -1 for   *)
(* a changelist with no eventlist, so the ASSERT passes whether the        *)
(* registration succeeded or not.                                          *)
(***************************************************************************)
Listen ==
  /\ status = "init"
  /\ \/ /\ status' = "serving"
        /\ registered' \in IF EnvMayFail THEN {{Listener}, {}} ELSE {{Listener}}
     \/ /\ status' = "aborted"
        /\ UNCHANGED registered
  /\ UNCHANGED <<phase, evPending, evs, haveNew, backlog, accepted, recvSet, idx,
                 tickRecv, sent, kbuf, received, queuedAtPoll>>

\* Bug variant of MaxEvents: the listener is not counted.
MaxEventsNoListener == Len(recvSet)

\* max_events = 1 + send_sockets_.size() + receive_sockets_.size();
\* send_sockets_ is always empty.
MaxEvents == 1 + Len(recvSet)

(***************************************************************************)
(* poll(): kevent(kqueue_fd_, nullptr, 0, events_, max_events, {0}).  The  *)
(* last parameter is a const struct timespec *, so {0} is a null timeout:  *)
(* kevent() blocks until an event is pending, then returns up to           *)
(* max_events of the pending events, which EV_CLEAR then clears; the       *)
(* others stay pending.  (A signal that interrupts the wait makes it      *)
(* return -1 and the tick do nothing; that is not modelled.)               *)
(***************************************************************************)
Poll ==
  /\ status = "serving" /\ phase = "poll"
  /\ evPending # {}
  /\ \E E \in SUBSET evPending :
       /\ Cardinality(E) = IF Cardinality(evPending) < MaxEvents
                             THEN Cardinality(evPending) ELSE MaxEvents
       /\ evs' = E
       /\ evPending' = evPending \ E
  /\ haveNew' = FALSE
  /\ queuedAtPoll' = backlog
  /\ phase' = "events"
  /\ UNCHANGED <<status, registered, backlog, accepted, recvSet, idx, tickRecv,
                 sent, kbuf, received>>

\* One iteration of the for loop over the events: the listener's read
\* event sets have_new_connection, another socket's read event adds it to
\* receive_sockets_.
HandleEvent ==
  /\ status = "serving" /\ phase = "events"
  /\ \E e \in evs :
       /\ evs' = evs \ {e}
       /\ IF e = Listener
            THEN haveNew' = TRUE /\ UNCHANGED recvSet
            ELSE recvSet' = AddOnce(recvSet, e) /\ UNCHANGED haveNew
  /\ UNCHANGED <<status, phase, registered, evPending, backlog, accepted, idx,
                 tickRecv, sent, kbuf, received, queuedAtPoll>>

\* The for loop ends.
EventsDone ==
  /\ status = "serving" /\ phase = "events"
  /\ evs = {}
  /\ phase' = "accept"
  /\ UNCHANGED <<status, registered, evPending, evs, haveNew, backlog, accepted,
                 recvSet, idx, tickRecv, sent, kbuf, received, queuedAtPoll>>

\* Bug variant of Accept: the new socket is left for a later read event to
\* add to receive_sockets_.
AcceptNoWatch ==
  /\ status = "serving" /\ phase = "accept" /\ haveNew
  /\ \E c \in backlog :
       /\ backlog' = backlog \ {c}
       /\ accepted' = accepted \cup {c}
       /\ registered' = registered \cup {c}
       /\ evPending' = IF kbuf[c] > 0 THEN evPending \cup {c} ELSE evPending
       /\ UNCHANGED <<status, recvSet>>
  /\ UNCHANGED <<phase, evs, haveNew, idx, tickRecv, sent, kbuf, received, queuedAtPoll>>

(***************************************************************************)
(* while(have_new_connection), an accept() that returns a connection: set  *)
(* it non-blocking and no-delay (ASSERT), wrap it in a new TCPSocket,      *)
(* register it with EV_ADD | EV_CLEAR (ASSERT != -1) -- the kqueue at once *)
(* reports bytes that arrived before -- and add it to receive_sockets_.    *)
(***************************************************************************)
Accept ==
  /\ status = "serving" /\ phase = "accept" /\ haveNew
  /\ \E c \in backlog :
       /\ backlog' = backlog \ {c}
       /\ accepted' = accepted \cup {c}
       /\ \/ /\ registered' = registered \cup {c}
             /\ evPending' = IF kbuf[c] > 0 THEN evPending \cup {c} ELSE evPending
             /\ recvSet' = AddOnce(recvSet, c)
             /\ UNCHANGED status
          \/ /\ status' = "aborted"
             /\ UNCHANGED <<registered, evPending, recvSet>>
  /\ UNCHANGED <<phase, evs, haveNew, idx, tickRecv, sent, kbuf, received, queuedAtPoll>>

\* accept() returns -1 (no connection pending), or have_new_connection is
\* false: poll() returns and the application calls sendAndRecv().
AcceptDone ==
  /\ status = "serving" /\ phase = "accept"
  /\ ~haveNew \/ backlog = {}
  /\ phase' = "recv"
  /\ idx' = 1
  /\ tickRecv' = FALSE
  /\ UNCHANGED <<status, registered, evPending, evs, haveNew, backlog, accepted,
                 recvSet, sent, kbuf, received, queuedAtPoll>>

\* Bug variant of SocketSendAndRecv: the read leaves the bytes in the kernel
\* (as a recv with MSG_PEEK would).
SocketSendAndRecvPeek ==
  /\ status = "serving" /\ phase = "recv"
  /\ idx <= Len(recvSet)
  /\ LET c == recvSet[idx]
     IN /\ received' = [received EXCEPT ![c] = @ + kbuf[c]]
        /\ tickRecv' = (tickRecv \/ kbuf[c] > 0)
  /\ idx' = idx + 1
  /\ UNCHANGED <<status, phase, registered, evPending, evs, haveNew, backlog,
                 accepted, recvSet, sent, kbuf, queuedAtPoll>>

\* One iteration of the first for_each of sendAndRecv(): recv |=
\* socket->sendAndRecv(), which reads every byte the kernel holds for it.
SocketSendAndRecv ==
  /\ status = "serving" /\ phase = "recv"
  /\ idx <= Len(recvSet)
  /\ LET c == recvSet[idx]
     IN /\ received' = [received EXCEPT ![c] = @ + kbuf[c]]
        /\ kbuf' = [kbuf EXCEPT ![c] = 0]
        /\ tickRecv' = (tickRecv \/ kbuf[c] > 0)
  /\ idx' = idx + 1
  /\ UNCHANGED <<status, phase, registered, evPending, evs, haveNew, backlog,
                 accepted, recvSet, sent, queuedAtPoll>>

\* Bug variant of TickEnd: the for_each stops one socket short.
TickEndEarly ==
  /\ status = "serving" /\ phase = "recv"
  /\ idx >= Len(recvSet)
  /\ phase' = "poll"
  /\ UNCHANGED <<status, registered, evPending, evs, haveNew, backlog, accepted,
                 recvSet, idx, tickRecv, sent, kbuf, received, queuedAtPoll>>

\* The for_each ends; if(recv) recv_finished_callback_(); the for_each over
\* send_sockets_ has nothing to do.  The reactor polls again.
TickEnd ==
  /\ status = "serving" /\ phase = "recv"
  /\ idx > Len(recvSet)
  /\ phase' = "poll"
  /\ UNCHANGED <<status, registered, evPending, evs, haveNew, backlog, accepted,
                 recvSet, idx, tickRecv, sent, kbuf, received, queuedAtPoll>>

\* A client connects: the kernel queues the connection on the listener.
ClientConnect(c) ==
  /\ status = "serving"
  /\ c \notin backlog \cup accepted
  /\ backlog' = backlog \cup {c}
  /\ evPending' = Raise(Listener)
  /\ UNCHANGED <<status, phase, registered, evs, haveNew, accepted, recvSet, idx,
                 tickRecv, sent, kbuf, received, queuedAtPoll>>

\* A connected client sends a byte.
ClientSend(c) ==
  /\ status = "serving"
  /\ c \in backlog \cup accepted
  /\ sent[c] < MaxData
  /\ sent' = [sent EXCEPT ![c] = @ + 1]
  /\ kbuf' = [kbuf EXCEPT ![c] = @ + 1]
  /\ evPending' = Raise(c)
  /\ UNCHANGED <<status, phase, registered, evs, haveNew, backlog, accepted,
                 recvSet, idx, tickRecv, received, queuedAtPoll>>

Reactor ==
  \/ Listen \/ Poll \/ HandleEvent \/ EventsDone \/ Accept \/ AcceptDone
  \/ SocketSendAndRecv \/ TickEnd

Clients == \E c \in Conns : ClientConnect(c) \/ ClientSend(c)

Next == Reactor \/ Clients

\* The reactor thread runs poll() and sendAndRecv() in a loop, and waits
\* only in kevent(), which Poll's guard models: a step of the reactor that
\* stays enabled is taken.  Its steps are weakly fair.
Spec == Init /\ [][Next]_vars /\ WF_vars(Reactor)

-----------------------------------------------------------------------------

TypeOK ==
  /\ status \in {"init", "serving", "aborted"}
  /\ phase \in {"poll", "events", "accept", "recv"}
  /\ registered \subseteq Sockets
  /\ evPending \subseteq registered
  /\ evs \subseteq Sockets
  /\ haveNew \in BOOLEAN
  /\ backlog \subseteq Conns /\ accepted \subseteq Conns
  /\ recvSet \in Seq(Conns)
  /\ idx \in 1 .. Cardinality(Conns) + 1
  /\ sent \in [Conns -> 0 .. MaxData]
  /\ kbuf \in [Conns -> 0 .. MaxData]
  /\ received \in [Conns -> 0 .. MaxData]

(***************************************************************************)
(* Spec 8 (Reactor): a connection the kernel has queued when poll() starts *)
(* is accepted and in receive_sockets_ when poll() returns -- it takes the *)
(* listener's event to be among the max_events kevent() returns, and the   *)
(* accept loop to drain the backlog.                                       *)
(***************************************************************************)
AcceptedBeforePollReturns ==
  phase = "recv" => queuedAtPoll \subseteq Range(recvSet)

Streams == INSTANCE ServerStreams WITH connected <- backlog \cup accepted

(***************************************************************************)
(* Spec 8: the server implements ServerStreams -- accept() returns each    *)
(* connection once, sendAndRecv() reads only connections accept() returned *)
(* and registered, and each read delivers exactly the bytes the client     *)
(* sent, none twice, whatever order kevent() reports the events in.        *)
(***************************************************************************)
StreamsRefinement == Streams!Spec

(***************************************************************************)
(* Every byte a client sends is eventually read by its TCPSocket, unless   *)
(* an ASSERT ends the process first, though EV_CLEAR reports a             *)
(* connection's bytes only once and kevent() returns a bounded number of   *)
(* events per poll().                                                      *)
(***************************************************************************)
EveryByteReceived ==
  \A c \in Conns : \A k \in 1 .. MaxData :
    (sent[c] >= k) ~> (received[c] >= k \/ status = "aborted")

=============================================================================
