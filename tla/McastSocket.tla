----------------------------- MODULE McastSocket -----------------------------
(***************************************************************************)
(* Common::McastSocket (src/unnamed/part_000, part_003): an outbound and   *)
(* an inbound buffer of McastBufferSize bytes, each with a high-water      *)
(* index, driven by one thread that calls send() to append bytes and       *)
(* sendAndRecv() once per tick.                                            *)
(*                                                                         *)
(* Bytes are numbered in the order send() appends them, so `wire`, the     *)
(* bytes the kernel accepted, shows any byte lost, sent twice or out of    *)
(* order.  The kernel is nondeterministic: a non-blocking ::send takes any *)
(* prefix of what it is offered (or fails, taking none), and recv returns  *)
(* any number of the bytes pending that fit.  recv_callback_ is the        *)
(* application's: it runs inside sendAndRecv(), consumes any prefix of     *)
(* the inbound bytes (moving the rest to the front, as the spec asks of    *)
(* it), and may itself call send().                                        *)
(*                                                                         *)
(* The descriptor is socket_fd_: -1 ("none") until init() has returned     *)
(* one and again after leave(); recv and ::send on -1 fail with EBADF.     *)
(* Datagrams of the group reach the socket only while it is a member.      *)
(***************************************************************************)
EXTENDS Naturals, Sequences

CONSTANTS
  BufSize,    \* McastBufferSize
  MaxLen,     \* the longest len a send() passes
  MaxBytes    \* bound on the bytes appended, and on the bytes that arrive

ASSUME BoundsAssumption ==
  BufSize \in Nat \ {0} /\ MaxLen \in Nat \ {0} /\ MaxBytes \in Nat

VARIABLES
  sendIdx,    \* next_send_valid_index_
  rcvIdx,     \* next_rcv_valid_index_
  appended,   \* bytes send() has appended so far
  wire,       \* the numbers of the bytes ::send has accepted, in order
  rxPending,  \* bytes the kernel holds for recv
  arrived,    \* bytes that have arrived from the network so far
  phase,      \* "idle", or where sendAndRecv() is: "callback", "send"
  status,     \* "running", or "BufferFull" once the ASSERT in send() fails
  overrun,    \* a memcpy of send() has written past the end of outbound_data_
  fd,         \* socket_fd_: "none" (-1) or "open"
  joined      \* the socket is a member of the multicast group

vars == <<sendIdx, rcvIdx, appended, wire, rxPending, arrived, phase, status, overrun,
          fd, joined>>

Init ==
  /\ sendIdx = 0
  /\ rcvIdx = 0
  /\ appended = 0
  /\ wire = <<>>
  /\ rxPending = 0
  /\ arrived = 0
  /\ phase = "idle"
  /\ status = "running"
  /\ overrun = FALSE
  /\ fd = "none"
  /\ joined = FALSE

(***************************************************************************)
(* send(data, len): memcpy to outbound_data_ + next_send_valid_index_,     *)
(* advance the index by len, then ASSERT it is below McastBufferSize.  The *)
(* copy happens before the check.  The application calls send() between    *)
(* ticks and from inside recv_callback_.                                   *)
(***************************************************************************)
Send(len) ==
  /\ status = "running"
  /\ phase \in {"idle", "callback"}
  /\ appended + len <= MaxBytes
  /\ overrun' = (overrun \/ sendIdx + len > BufSize)
  /\ sendIdx' = sendIdx + len
  /\ appended' = appended + len
  /\ status' = IF sendIdx + len < BufSize THEN "running" ELSE "BufferFull"
  /\ UNCHANGED <<rcvIdx, wire, rxPending, arrived, phase, fd, joined>>

(***************************************************************************)
(* init(), join() and leave(), which the application calls between ticks   *)
(* or from recv_callback_.  init() is socket_fd_ = createSocket(...) for a *)
(* datagram socket; SocketSetup models createSocket(), which returns an    *)
(* open descriptor or ends the process.  Nothing stops a second init():    *)
(* the old descriptor is overwritten, and with it its membership and the   *)
(* datagrams queued on it.                                                 *)
(***************************************************************************)
InitSocket ==
  /\ status = "running"
  /\ phase \in {"idle", "callback"}
  /\ fd' = "open"
  /\ joined' = FALSE
  /\ rxPending' = 0
  /\ UNCHANGED <<sendIdx, rcvIdx, appended, wire, arrived, phase, status, overrun>>

\* join(ip): Common::join(socket_fd_, ip), setsockopt(IP_ADD_MEMBERSHIP)
\* != -1.  It fails on -1, and may fail on an open descriptor (a bad group
\* address, or one already joined, which leaves the membership as it was).
Join ==
  /\ status = "running"
  /\ phase \in {"idle", "callback"}
  /\ \E ok \in BOOLEAN : joined' = (joined \/ (fd = "open" /\ ok))
  /\ UNCHANGED <<sendIdx, rcvIdx, appended, wire, rxPending, arrived, phase, status,
                 overrun, fd>>

\* leave(ip, port): close(socket_fd_); socket_fd_ = -1.  Closing drops the
\* membership and the datagrams the kernel held; the buffers and their
\* indices are left as they are.
Leave ==
  /\ status = "running"
  /\ phase \in {"idle", "callback"}
  /\ fd' = "none"
  /\ joined' = FALSE
  /\ rxPending' = 0
  /\ UNCHANGED <<sendIdx, rcvIdx, appended, wire, arrived, phase, status, overrun>>

\* The network delivers a datagram's byte to a socket that is a member.
Arrive ==
  /\ joined
  /\ arrived < MaxBytes
  /\ arrived' = arrived + 1
  /\ rxPending' = rxPending + 1
  /\ UNCHANGED <<sendIdx, rcvIdx, appended, wire, phase, status, overrun, fd, joined>>

\* Bug variant of Recv: the length passed to recv is not reduced by
\* next_rcv_valid_index_.
RecvUnbounded ==
  /\ status = "running"
  /\ phase = "idle"
  /\ \E n \in 0 .. rxPending :
       /\ n <= BufSize
       /\ rcvIdx' = rcvIdx + n
       /\ rxPending' = rxPending - n
       /\ phase' = IF n > 0 THEN "callback" ELSE "send"
  /\ UNCHANGED <<sendIdx, appended, wire, arrived, status, overrun, fd, joined>>

(***************************************************************************)
(* sendAndRecv(), first part: recv(socket_fd_, inbound_data_ +             *)
(* next_rcv_valid_index_, McastBufferSize - next_rcv_valid_index_) returns *)
(* n bytes; if n > 0 the index advances and recv_callback_(this) is        *)
(* called, else the send part follows.                                     *)
(***************************************************************************)
Recv ==
  /\ status = "running"
  /\ phase = "idle"
  /\ \E n \in 0 .. rxPending :
       /\ n <= BufSize - rcvIdx
       /\ rcvIdx' = rcvIdx + n
       /\ rxPending' = rxPending - n
       /\ phase' = IF n > 0 THEN "callback" ELSE "send"
  /\ UNCHANGED <<sendIdx, appended, wire, arrived, status, overrun, fd, joined>>

\* recv_callback_ returns, having consumed the first c inbound bytes.
CallbackReturn ==
  /\ status = "running"
  /\ phase = "callback"
  /\ \E c \in 0 .. rcvIdx : rcvIdx' = rcvIdx - c
  /\ phase' = "send"
  /\ UNCHANGED <<sendIdx, appended, wire, rxPending, arrived, status, overrun, fd, joined>>

\* The bytes the outbound buffer holds, by number.
Outbound == [i \in 1 .. sendIdx |-> appended - sendIdx + i]

\* Bug variant of SendPending: the index is reset only when everything
\* was sent.
SendPendingKeep ==
  /\ status = "running"
  /\ phase = "send"
  /\ \E k \in 0 .. sendIdx :
       /\ wire' = wire \o SubSeq(Outbound, 1, k)
       /\ sendIdx' = IF k = sendIdx THEN 0 ELSE sendIdx
  /\ phase' = "idle"
  /\ UNCHANGED <<rcvIdx, appended, rxPending, arrived, status, overrun, fd, joined>>

(***************************************************************************)
(* sendAndRecv(), second part: if next_send_valid_index_ > 0, one          *)
(* ::send(outbound_data_, next_send_valid_index_, MSG_DONTWAIT) that takes *)
(* the first k bytes (k = 0 for -1, always so on socket_fd_ = -1); then    *)
(* next_send_valid_index_ = 0 whatever k was.                              *)
(***************************************************************************)
SendPending ==
  /\ status = "running"
  /\ phase = "send"
  /\ \E k \in IF fd = "open" THEN 0 .. sendIdx ELSE {0} :
       wire' = wire \o SubSeq(Outbound, 1, k)
  /\ sendIdx' = 0
  /\ phase' = "idle"
  /\ UNCHANGED <<rcvIdx, appended, rxPending, arrived, status, overrun, fd, joined>>

Next ==
  \/ \E len \in 1 .. MaxLen : Send(len)
  \/ InitSocket \/ Join \/ Leave
  \/ Arrive \/ Recv \/ CallbackReturn \/ SendPending

Spec == Init /\ [][Next]_vars

-----------------------------------------------------------------------------

TypeOK ==
  /\ sendIdx \in 0 .. BufSize + MaxLen
  /\ rcvIdx \in 0 .. BufSize
  /\ appended \in 0 .. MaxBytes
  /\ wire \in Seq(1 .. MaxBytes)
  /\ rxPending \in 0 .. MaxBytes
  /\ phase \in {"idle", "callback", "send"}
  /\ status \in {"running", "BufferFull"}
  /\ overrun \in BOOLEAN
  /\ fd \in {"none", "open"}
  /\ joined \in BOOLEAN

(***************************************************************************)
(* The peer never receives a byte twice or out of order: whatever ::send   *)
(* accepts in one tick, the next tick's send starts after the bytes        *)
(* appended by then, including those recv_callback_ appended while the     *)
(* recv part ran.                                                          *)
(***************************************************************************)
NoDuplicateTransmission ==
  \A i, j \in 1 .. Len(wire) : i < j => wire[i] < wire[j]

Stream == INSTANCE OutboundStream WITH queued <- appended, flushed <- appended - sendIdx

(***************************************************************************)
(* Spec 4.4 and 9: the send path implements OutboundStream -- every byte   *)
(* send() appends is handed to ::send in exactly one sendAndRecv(), which  *)
(* puts a prefix of them on the wire and drops the rest, across leave(),   *)
(* init() and the sends of recv_callback_.                                 *)
(***************************************************************************)
OutboundRefinement == Stream!Spec

(***************************************************************************)
(* Spec 4.4: send() aborts if the appended length would exceed the buffer  *)
(* capacity -- so it never writes past the end of outbound_data_.          *)
(***************************************************************************)
NoOutOfBoundsWrite == ~overrun

=============================================================================
