---------------------------- MODULE ServerStreams ----------------------------
(***************************************************************************)
(* What TCPServer promises its clients (spec 8), with no kqueue, no event  *)
(* loop and no receive_sockets_: a client connects, the server accepts it  *)
(* once, the client sends bytes, and a read of an accepted connection      *)
(* delivers every byte its client has sent so far.  A connection that was *)
(* not accepted is never read, and no byte is read twice or invented.      *)
(***************************************************************************)
EXTENDS Naturals

CONSTANTS Conns, MaxData

VARIABLES
  connected,   \* connections the clients have opened
  accepted,    \* connections the server has accepted
  sent,        \* bytes each client has sent
  received     \* bytes the server has read from each connection

vars == <<connected, accepted, sent, received>>

Init ==
  /\ connected = {}
  /\ accepted = {}
  /\ sent = [c \in Conns |-> 0]
  /\ received = [c \in Conns |-> 0]

Connect(c) ==
  /\ c \notin connected
  /\ connected' = connected \cup {c}
  /\ UNCHANGED <<accepted, sent, received>>

Accept(c) ==
  /\ c \in connected \ accepted
  /\ accepted' = accepted \cup {c}
  /\ UNCHANGED <<connected, sent, received>>

Send(c) ==
  /\ c \in connected
  /\ sent[c] < MaxData
  /\ sent' = [sent EXCEPT ![c] = @ + 1]
  /\ UNCHANGED <<connected, accepted, received>>

\* A read of an accepted connection catches up with its client.
Deliver(c) ==
  /\ c \in accepted
  /\ received' = [received EXCEPT ![c] = sent[c]]
  /\ UNCHANGED <<connected, accepted, sent>>

Next == \E c \in Conns : Connect(c) \/ Accept(c) \/ Send(c) \/ Deliver(c)

Spec == Init /\ [][Next]_vars

=============================================================================
