--------------------------- MODULE TCPServerProofs ---------------------------
(***************************************************************************)
(* Proofs about TCPServer, for every set of clients and bound on the data, *)
(* when kevent() registers the listener (the run tcp_server_reg_fail shows *)
(* what happens when it does not).                                         *)
(*                                                                         *)
(* AcceptedBeforePollReturns rests on three facts, none of them visible in *)
(* the property: a connection queued after the last poll() started leaves *)
(* the listener's event pending (EV_CLEAR raises it again); one kevent()   *)
(* returns every pending event, because at most one per registered socket  *)
(* is pending and max_events counts the listener and every socket of      *)
(* receive_sockets_, which are exactly the accepted ones; and the accept   *)
(* loop runs until accept() finds the backlog empty.                       *)
(***************************************************************************)
EXTENDS TCPServer, FiniteSetTheorems, SequenceTheorems, TLAPS

PTypeOK ==
  /\ status \in {"init", "serving", "aborted"}
  /\ phase \in {"poll", "events", "accept", "recv"}
  /\ registered \subseteq Sockets
  /\ evPending \subseteq registered
  /\ evs \subseteq registered
  /\ haveNew \in BOOLEAN
  /\ backlog \subseteq Conns /\ accepted \subseteq Conns
  /\ queuedAtPoll \subseteq backlog \cup accepted
  /\ recvSet \in Seq(Conns)

\* How the kqueue, the backlog and receive_sockets_ stay in step.
Reactive ==
  /\ status = "init" => /\ phase = "poll" /\ evPending = {} /\ evs = {}
                        /\ backlog = {} /\ accepted = {} /\ recvSet = <<>>
                        /\ queuedAtPoll = {}
  /\ status # "serving" => phase \in {"poll", "accept"}
  /\ status = "serving" => /\ registered = accepted \cup {Listener}
                           /\ Range(recvSet) = accepted
  /\ phase # "events" => evs = {}
  \* A connection queued since poll() started keeps the listener's event pending.
  /\ backlog \ queuedAtPoll # {} => Listener \in evPending
  \* Between two polls, every connection queued at the last one was accepted.
  /\ phase \in {"poll", "recv"} => backlog \cap queuedAtPoll = {}
  \* While the events are handled, one still queued will be accepted.
  /\ phase \in {"events", "accept"} /\ backlog \cap queuedAtPoll # {}
       => haveNew \/ Listener \in evs

PInv == PTypeOK /\ Reactive

\* kevent() registers the listener.
RegistrationSucceeds == ~EnvMayFail

USE ServerAssumption

-----------------------------------------------------------------------------
(***************************************************************************)
(* receive_sockets_ as a set.                                              *)
(***************************************************************************)

LEMMA AddOnceRange ==
  ASSUME NEW v \in Seq(Conns), NEW s \in Conns
  PROVE  /\ AddOnce(v, s) \in Seq(Conns)
         /\ Range(AddOnce(v, s)) = Range(v) \cup {s}
<1>1. CASE s \in Range(v)
  BY <1>1 DEF AddOnce
<1>2. CASE s \notin Range(v)
  <2>1. /\ Append(v, s) \in Seq(Conns)
        /\ Len(Append(v, s)) = Len(v) + 1
        /\ \A i \in 1 .. Len(v) : Append(v, s)[i] = v[i]
        /\ Append(v, s)[Len(v) + 1] = s
    BY AppendProperties
  <2>. QED  BY <1>2, <2>1 DEF AddOnce, Range
<1>. QED  BY <1>1, <1>2

\* A sequence has no more distinct elements than positions.
LEMMA RangeCardinality ==
  ASSUME NEW v \in Seq(Conns)
  PROVE  IsFiniteSet(Range(v)) /\ Cardinality(Range(v)) <= Len(v)
<1>1. Range(v) \subseteq Conns
  BY DEF Range
<1>2. v \in Surjection(1 .. Len(v), Range(v))
  BY DEF Surjection, Range
<1>3. Cardinality(Range(v)) <= Len(v)
  BY <1>2, FS_SurjCardinalityBound DEF ExistsSurjection
<1>. QED  BY <1>1, <1>3, FS_Subset

\* kevent() returns every pending event: there are at most max_events.
LEMMA PollReturnsAll ==
  ASSUME PInv, status = "serving", NEW E \in SUBSET evPending,
         Cardinality(E) = IF Cardinality(evPending) < MaxEvents
                            THEN Cardinality(evPending) ELSE MaxEvents
  PROVE  E = evPending
<1>1. /\ recvSet \in Seq(Conns) /\ Range(recvSet) = accepted
      /\ registered = accepted \cup {Listener} /\ evPending \subseteq registered
  BY DEF PInv, PTypeOK, Reactive
<1>2. /\ IsFiniteSet(accepted) /\ Cardinality(accepted) \in Nat
      /\ Cardinality(accepted) <= Len(recvSet)
  BY <1>1, RangeCardinality, FS_CardinalityType
<1>3. IsFiniteSet(registered) /\ Cardinality(registered) <= Len(recvSet) + 1
  <2>1. Len(recvSet) \in Nat
    BY <1>1, LenProperties
  <2>2. IsFiniteSet(accepted \cup {Listener})
        /\ Cardinality(accepted \cup {Listener}) <= Cardinality(accepted) + 1
    <3>1. /\ IsFiniteSet(accepted \cup {Listener})
          /\ Cardinality(accepted \cup {Listener}) =
               IF Listener \in accepted THEN Cardinality(accepted) ELSE Cardinality(accepted) + 1
      BY <1>2, FS_AddElement
    <3>. QED  BY <1>2, <3>1
  <2>3. IsFiniteSet(registered) /\ Cardinality(registered) <= Cardinality(accepted) + 1
    BY <1>1, <2>2, Zenon
  <2>. QED  BY <1>2, <2>1, <2>3, FS_CardinalityType
<1>4. /\ IsFiniteSet(evPending) /\ Cardinality(evPending) \in Nat
      /\ Cardinality(evPending) <= MaxEvents
  BY <1>1, <1>3, FS_Subset, FS_CardinalityType DEF MaxEvents
<1>5. Cardinality(E) = Cardinality(evPending)
  BY <1>1, <1>4, LenProperties DEF MaxEvents
<1>. QED  BY <1>4, <1>5, FS_Subset

-----------------------------------------------------------------------------
(***************************************************************************)
(* PInv is inductive: one lemma per step of the reactor and the clients.   *)
(***************************************************************************)

LEMMA InitPInv == Init => PInv
<1>. SUFFICES ASSUME Init PROVE PInv
  OBVIOUS
<1>1. PTypeOK
  <2>1. haveNew \in BOOLEAN
    BY Zenon DEF Init
  <2>2. recvSet \in Seq(Conns)
    BY EmptySeq DEF Init
  <2>. QED  BY <2>1, <2>2 DEF Init, PTypeOK
<1>2. Reactive
  BY DEF Init, Reactive
<1>. QED  BY <1>1, <1>2 DEF PInv

\* listen(): the kqueue watches the listener, nothing is queued yet.
LEMMA ListenPInv == RegistrationSucceeds /\ PInv /\ Listen => PInv'
<1>. SUFFICES ASSUME RegistrationSucceeds, PInv, Listen PROVE PInv'
  OBVIOUS
<1>1. /\ status = "init" /\ phase = "poll" /\ evPending = {} /\ evs = {}
      /\ backlog = {} /\ accepted = {} /\ recvSet = <<>> /\ queuedAtPoll = {}
  BY DEF Listen, PInv, Reactive
<1>2. CASE status' = "serving"
  <2>1. registered' = {Listener} /\ Range(recvSet') = {}
    BY <1>1, <1>2 DEF Listen, Range, RegistrationSucceeds
  <2>. QED  BY <1>1, <2>1 DEF Listen, PInv, PTypeOK, Reactive, Sockets
<1>3. CASE status' = "aborted"
  BY <1>1, <1>3 DEF Listen, PInv, PTypeOK, Reactive
<1>. QED  BY <1>2, <1>3 DEF Listen

\* poll(): every pending event is returned, the listener's among them.
LEMMA PollPInv == PInv /\ Poll => PInv'
<1>. SUFFICES ASSUME PInv, Poll PROVE PInv'
  OBVIOUS
<1>1. PICK E \in SUBSET evPending :
        /\ Cardinality(E) = IF Cardinality(evPending) < MaxEvents
                              THEN Cardinality(evPending) ELSE MaxEvents
        /\ evs' = E
        /\ evPending' = evPending \ E
  BY DEF Poll
<1>2. evs' = evPending /\ evPending' = {}
  BY <1>1, PollReturnsAll DEF Poll
<1>3. backlog # {} => Listener \in evs'
  BY <1>2 DEF PInv, Reactive, Poll
<1>4. PTypeOK'
  BY <1>2 DEF PInv, PTypeOK, Poll
<1>5. Reactive'
  BY <1>2, <1>3 DEF PInv, Reactive, Poll
<1>. QED  BY <1>4, <1>5 DEF PInv

LEMMA HandleEventPInv == PInv /\ HandleEvent => PInv'
<1>. SUFFICES ASSUME PInv, HandleEvent PROVE PInv'
  OBVIOUS
<1>1. PICK e \in evs : /\ evs' = evs \ {e}
                       /\ IF e = Listener
                            THEN haveNew' = TRUE /\ UNCHANGED recvSet
                            ELSE recvSet' = AddOnce(recvSet, e) /\ UNCHANGED haveNew
  BY DEF HandleEvent
<1>2. CASE e = Listener
  BY <1>1, <1>2 DEF HandleEvent, PInv, PTypeOK, Reactive
<1>3. CASE e # Listener
  <2>1. e \in accepted /\ recvSet \in Seq(Conns) /\ Range(recvSet) = accepted
    BY <1>3 DEF HandleEvent, PInv, PTypeOK, Reactive
  <2>2. recvSet' = AddOnce(recvSet, e)
    BY <1>1, <1>3
  <2>3. recvSet' \in Seq(Conns) /\ Range(recvSet') = accepted
    <3>1. e \in Conns
      BY <2>1 DEF PInv, PTypeOK
    <3>2. /\ AddOnce(recvSet, e) \in Seq(Conns)
          /\ Range(AddOnce(recvSet, e)) = Range(recvSet) \cup {e}
      BY <2>1, <3>1, AddOnceRange
    <3>. QED  BY <2>1, <2>2, <3>2
  <2>. QED  BY <1>1, <1>3, <2>3 DEF HandleEvent, PInv, PTypeOK, Reactive
<1>. QED  BY <1>2, <1>3

LEMMA EventsDonePInv == PInv /\ EventsDone => PInv'
BY DEF EventsDone, PInv, PTypeOK, Reactive

\* The accept loop: the connection moves from the backlog to the kqueue and
\* to receive_sockets_, or a failed ASSERT ends the process.
LEMMA AcceptPInv == PInv /\ Accept => PInv'
<1>. SUFFICES ASSUME PInv, Accept PROVE PInv'
  OBVIOUS
<1>1. PICK c \in backlog :
        /\ backlog' = backlog \ {c}
        /\ accepted' = accepted \cup {c}
        /\ \/ /\ registered' = registered \cup {c}
              /\ evPending' = IF kbuf[c] > 0 THEN evPending \cup {c} ELSE evPending
              /\ recvSet' = AddOnce(recvSet, c)
              /\ UNCHANGED status
           \/ /\ status' = "aborted"
              /\ UNCHANGED <<registered, evPending, recvSet>>
  BY DEF Accept
<1>2. c \in Conns /\ recvSet \in Seq(Conns)
  BY DEF PInv, PTypeOK
<1>3. CASE status' = "serving"
  <2>1. /\ registered' = registered \cup {c}
        /\ evPending \subseteq evPending' /\ evPending' \subseteq registered'
        /\ recvSet' = AddOnce(recvSet, c)
    <3>1. /\ registered' = registered \cup {c}
          /\ evPending' = IF kbuf[c] > 0 THEN evPending \cup {c} ELSE evPending
          /\ recvSet' = AddOnce(recvSet, c)
      BY <1>1, <1>3
    <3>. QED  BY <3>1 DEF PInv, PTypeOK
  <2>2. recvSet' \in Seq(Conns) /\ Range(recvSet') = Range(recvSet) \cup {c}
    BY <1>2, <2>1, AddOnceRange
  <2>3. /\ status = "serving" /\ haveNew /\ haveNew' = haveNew
        /\ UNCHANGED <<phase, evs, queuedAtPoll>>
        /\ backlog' = backlog \ {c} /\ accepted' = accepted \cup {c}
    BY <1>1 DEF Accept
  <2>4. PTypeOK'
    <3>1. haveNew' \in BOOLEAN
      BY <2>3, Zenon DEF PInv, PTypeOK
    <3>2. registered' \subseteq Sockets /\ accepted' \subseteq Conns
      BY <1>2, <2>1, <2>3 DEF PInv, PTypeOK, Sockets
    <3>3. /\ status' \in {"init", "serving", "aborted"}
          /\ phase' \in {"poll", "events", "accept", "recv"}
          /\ evPending' \subseteq registered' /\ evs' \subseteq registered'
          /\ backlog' \subseteq Conns
          /\ queuedAtPoll' \subseteq backlog' \cup accepted'
      BY <1>3, <2>1, <2>3 DEF PInv, PTypeOK
    <3>. QED  BY <2>2, <3>1, <3>2, <3>3 DEF PTypeOK
  <2>5. Reactive'
    BY <1>3, <2>1, <2>2, <2>3 DEF PInv, PTypeOK, Reactive
  <2>. QED  BY <2>4, <2>5 DEF PInv
<1>4. CASE status' # "serving"
  BY <1>1, <1>4 DEF Accept, PInv, PTypeOK, Reactive
<1>. QED  BY <1>3, <1>4

\* The accept loop ends with the backlog empty or without the listener's
\* event, in which case nothing queued at poll() is left.
LEMMA AcceptDonePInv == PInv /\ AcceptDone => PInv'
BY DEF AcceptDone, PInv, PTypeOK, Reactive

LEMMA RecvPInv == PInv /\ (SocketSendAndRecv \/ TickEnd) => PInv'
BY DEF SocketSendAndRecv, TickEnd, PInv, PTypeOK, Reactive

\* A new connection raises the listener's event, which the kqueue watches.
LEMMA ClientConnectPInv ==
  ASSUME PInv, NEW c \in Conns, ClientConnect(c)
  PROVE  PInv'
<1>1. /\ Listener \in registered
      /\ evPending' = evPending \cup {Listener}
      /\ c \notin queuedAtPoll
  BY DEF ClientConnect, Raise, PInv, PTypeOK, Reactive
<1>. QED  BY <1>1 DEF ClientConnect, PInv, PTypeOK, Reactive, Sockets

LEMMA ClientSendPInv ==
  ASSUME PInv, NEW c \in Conns, ClientSend(c)
  PROVE  PInv'
<1>1. evPending \subseteq evPending' /\ evPending' \subseteq registered
  BY DEF ClientSend, Raise, PInv, PTypeOK
<1>. QED  BY <1>1 DEF ClientSend, PInv, PTypeOK, Reactive

LEMMA NextPInv == RegistrationSucceeds /\ PInv /\ [Next]_vars => PInv'
<1>. SUFFICES ASSUME RegistrationSucceeds, PInv, [Next]_vars PROVE PInv'
  OBVIOUS
<1>1. CASE UNCHANGED vars
  BY <1>1 DEF vars, PInv, PTypeOK, Reactive
<1>2. CASE Clients
  BY <1>2, ClientConnectPInv, ClientSendPInv DEF Clients
<1>. QED
  BY <1>1, <1>2, ListenPInv, PollPInv, HandleEventPInv, EventsDonePInv, AcceptPInv,
     AcceptDonePInv, RecvPInv DEF Next, Reactor

LEMMA PInvSpec ==
  ASSUME RegistrationSucceeds
  PROVE  Spec => []PInv
BY InitPInv, NextPInv, PTL DEF Spec

-----------------------------------------------------------------------------

(***************************************************************************)
(* For every set of clients, when kevent() registers the listener: every   *)
(* connection the kernel had queued when poll() started is accepted and in *)
(* receive_sockets_ by the time sendAndRecv() runs, however many sockets   *)
(* have events and whenever clients connect and send meanwhile.            *)
(***************************************************************************)
THEOREM AcceptedBeforePollReturnsThm ==
  ASSUME RegistrationSucceeds
  PROVE  Spec => []AcceptedBeforePollReturns
<1>1. PInv => AcceptedBeforePollReturns
  BY DEF PInv, PTypeOK, Reactive, AcceptedBeforePollReturns
<1>. QED  BY <1>1, PInvSpec, PTL

-----------------------------------------------------------------------------
(***************************************************************************)
(* TypeOK, whether or not kevent() registers the listener.  It is not      *)
(* inductive: the bound on idx rests on receive_sockets_ holding each      *)
(* socket at most once (the find before push_back), and the bounds on the  *)
(* byte counts on every byte sent being in the kernel or read.             *)
(***************************************************************************)

\* TypeOK, with idx bounded by the length of receive_sockets_ instead of by
\* the number of connections.
CoreType ==
  /\ status \in {"init", "serving", "aborted"}
  /\ phase \in {"poll", "events", "accept", "recv"}
  /\ registered \subseteq Sockets
  /\ evPending \subseteq registered
  /\ evs \subseteq Sockets
  /\ haveNew \in BOOLEAN
  /\ backlog \subseteq Conns /\ accepted \subseteq Conns
  /\ recvSet \in Seq(Conns)
  /\ idx \in Nat \ {0} /\ idx <= Len(recvSet) + 1
  /\ sent \in [Conns -> 0 .. MaxData]
  /\ kbuf \in [Conns -> 0 .. MaxData]
  /\ received \in [Conns -> 0 .. MaxData]

TInv ==
  /\ CoreType
  /\ status = "init" => evPending = {}
  /\ IsInjective(recvSet)
  /\ \A c \in Conns : received[c] + kbuf[c] = sent[c]

\* AddOnce keeps receive_sockets_ free of duplicates, and never shortens it.
LEMMA AddOnceInjective ==
  ASSUME NEW v \in Seq(Conns), IsInjective(v), NEW s \in Conns
  PROVE  /\ AddOnce(v, s) \in Seq(Conns)
         /\ IsInjective(AddOnce(v, s))
         /\ Len(AddOnce(v, s)) >= Len(v)
<1>1. CASE s \in Range(v)
  BY <1>1, LenProperties DEF AddOnce
<1>2. CASE s \notin Range(v)
  <2>1. /\ Append(v, s) \in Seq(Conns)
        /\ Len(Append(v, s)) = Len(v) + 1
        /\ \A i \in 1 .. Len(v) : Append(v, s)[i] = v[i]
        /\ Append(v, s)[Len(v) + 1] = s
        /\ Len(v) \in Nat
    BY AppendProperties, LenProperties
  <2>2. DOMAIN Append(v, s) = 1 .. Len(v) + 1 /\ DOMAIN v = 1 .. Len(v)
    BY <2>1, LenProperties
  <2>3. \A i \in 1 .. Len(v) : v[i] # s
    BY <1>2, <2>2 DEF Range
  <2>4. IsInjective(Append(v, s))
    BY <2>1, <2>2, <2>3 DEF IsInjective
  <2>. QED  BY <1>2, <2>1, <2>4 DEF AddOnce
<1>. QED  BY <1>1, <1>2

\* receive_sockets_ without duplicates has at most one entry per connection.
LEMMA InjectiveLenBound ==
  ASSUME NEW v \in Seq(Conns), IsInjective(v)
  PROVE  Len(v) <= Cardinality(Conns)
<1>1. Len(v) \in Nat /\ DOMAIN v = 1 .. Len(v)
  BY LenProperties
<1>2. v \in Injection(1 .. Len(v), Conns)
  BY <1>1 DEF Injection
<1>3. Cardinality(1 .. Len(v)) <= Cardinality(Conns)
  BY <1>2, FS_Injection
<1>. QED  BY <1>1, <1>3, FS_Interval

LEMMA TInvTypeOK == TInv => TypeOK
<1>. SUFFICES ASSUME TInv PROVE TypeOK
  OBVIOUS
<1>1. Len(recvSet) <= Cardinality(Conns)
  BY InjectiveLenBound DEF TInv, CoreType
<1>2. idx \in 1 .. Cardinality(Conns) + 1
  BY <1>1, LenProperties, FS_CardinalityType DEF TInv, CoreType
<1>. QED  BY <1>2 DEF TInv, CoreType, TypeOK

LEMMA InitTInv == Init => TInv
<1>. SUFFICES ASSUME Init PROVE TInv
  OBVIOUS
<1>1. haveNew \in BOOLEAN
  BY Zenon DEF Init
<1>2. recvSet \in Seq(Conns) /\ Len(recvSet) = 0 /\ IsInjective(recvSet)
  BY EmptySeq DEF Init, IsInjective
<1>. QED  BY <1>1, <1>2 DEF Init, TInv, CoreType, Sockets

\* The steps that touch neither receive_sockets_ nor the byte counts.
LEMMA KqueueTInv ==
  ASSUME TInv, Listen \/ Poll \/ EventsDone \/ TickEnd
  PROVE  TInv'
<1>1. UNCHANGED <<recvSet, idx, sent, kbuf, received, backlog, accepted>>
  BY DEF Listen, Poll, EventsDone, TickEnd
<1>2. haveNew' \in BOOLEAN
  BY Zenon DEF TInv, CoreType, Listen, Poll, EventsDone, TickEnd
<1>3. /\ status' \in {"serving", "aborted"}
      /\ phase' \in {"poll", "events", "accept", "recv"}
      /\ registered' \subseteq Sockets
      /\ evPending' \subseteq registered'
      /\ evs' \subseteq Sockets
  <2>1. CASE Listen
    <3>1. registered' \subseteq Sockets
      <4>1. CASE status' = "serving"
        BY <2>1, <4>1 DEF Listen, Sockets
      <4>2. CASE status' # "serving"
        BY <2>1, <4>2 DEF Listen, TInv, CoreType
      <4>. QED  BY <4>1, <4>2
    <3>. QED  BY <2>1, <3>1 DEF TInv, CoreType, Listen
  <2>2. CASE Poll
    BY <2>2 DEF TInv, CoreType, Poll
  <2>3. CASE EventsDone \/ TickEnd
    BY <2>3 DEF TInv, CoreType, EventsDone, TickEnd
  <2>. QED  BY <2>1, <2>2, <2>3
<1>. QED  BY <1>1, <1>2, <1>3 DEF TInv, CoreType

\* One event handled: a socket's read event adds it to receive_sockets_
\* once.
LEMMA HandleEventTInv == TInv /\ HandleEvent => TInv'
<1>. SUFFICES ASSUME TInv, HandleEvent PROVE TInv'
  OBVIOUS
<1>1. PICK e \in evs : /\ evs' = evs \ {e}
                       /\ IF e = Listener
                            THEN haveNew' = TRUE /\ UNCHANGED recvSet
                            ELSE recvSet' = AddOnce(recvSet, e) /\ UNCHANGED haveNew
  BY DEF HandleEvent
<1>2. /\ recvSet' \in Seq(Conns) /\ IsInjective(recvSet')
      /\ Len(recvSet') >= Len(recvSet)
  <2>1. CASE e = Listener
    BY <1>1, <2>1, LenProperties DEF TInv, CoreType
  <2>2. CASE e # Listener
    <3>1. e \in Conns /\ recvSet' = AddOnce(recvSet, e)
      BY <1>1, <2>2 DEF TInv, CoreType, Sockets
    <3>. QED  BY <3>1, AddOnceInjective DEF TInv, CoreType
  <2>. QED  BY <2>1, <2>2
<1>3. haveNew' \in BOOLEAN
  BY <1>1, Zenon DEF TInv, CoreType
<1>4. UNCHANGED <<status, phase, registered, evPending, backlog, accepted, idx, sent, kbuf,
                  received>>
  BY DEF HandleEvent
<1>5. idx' <= Len(recvSet') + 1
  BY <1>2, <1>4, LenProperties DEF TInv, CoreType
<1>. QED  BY <1>1, <1>2, <1>3, <1>4, <1>5 DEF TInv, CoreType

\* accept(): the new socket is registered and added to receive_sockets_
\* once, or a failed ASSERT ends the process.
LEMMA AcceptTInv == TInv /\ Accept => TInv'
<1>. SUFFICES ASSUME TInv, Accept PROVE TInv'
  OBVIOUS
<1>1. PICK c \in backlog :
        /\ backlog' = backlog \ {c}
        /\ accepted' = accepted \cup {c}
        /\ \/ /\ registered' = registered \cup {c}
              /\ evPending' = IF kbuf[c] > 0 THEN evPending \cup {c} ELSE evPending
              /\ recvSet' = AddOnce(recvSet, c)
              /\ UNCHANGED status
           \/ /\ status' = "aborted"
              /\ UNCHANGED <<registered, evPending, recvSet>>
  BY DEF Accept
<1>2. c \in Conns /\ status = "serving"
  BY DEF TInv, CoreType, Accept
<1>3. /\ recvSet' \in Seq(Conns) /\ IsInjective(recvSet')
      /\ Len(recvSet') >= Len(recvSet)
      /\ status' \in {"serving", "aborted"}
      /\ registered' \subseteq Sockets
      /\ evPending' \subseteq registered'
  <2>1. CASE /\ registered' = registered \cup {c}
             /\ evPending' = IF kbuf[c] > 0 THEN evPending \cup {c} ELSE evPending
             /\ recvSet' = AddOnce(recvSet, c)
             /\ UNCHANGED status
    BY <1>2, <2>1, AddOnceInjective DEF TInv, CoreType, Sockets
  <2>2. CASE /\ status' = "aborted"
             /\ UNCHANGED <<registered, evPending, recvSet>>
    BY <2>2, LenProperties DEF TInv, CoreType
  <2>. QED  BY <1>1, <2>1, <2>2
<1>4. /\ haveNew' = haveNew
      /\ UNCHANGED <<phase, evs, idx, sent, kbuf, received>>
  BY DEF Accept
<1>5. haveNew' \in BOOLEAN
  BY <1>4, Zenon DEF TInv, CoreType
<1>6. idx' <= Len(recvSet') + 1
  BY <1>3, <1>4, LenProperties DEF TInv, CoreType
<1>. QED  BY <1>1, <1>2, <1>3, <1>4, <1>5, <1>6 DEF TInv, CoreType

LEMMA AcceptDoneTInv == TInv /\ AcceptDone => TInv'
<1>. SUFFICES ASSUME TInv, AcceptDone PROVE TInv'
  OBVIOUS
<1>1. haveNew' \in BOOLEAN
  BY Zenon DEF TInv, CoreType, AcceptDone
<1>2. idx' = 1 /\ Len(recvSet') \in Nat
  BY LenProperties DEF TInv, CoreType, AcceptDone
<1>. QED  BY <1>1, <1>2 DEF TInv, CoreType, AcceptDone

\* One TCPSocket's sendAndRecv(): it reads what the kernel holds for it,
\* so what it has read stays within what its client sent.
LEMMA SocketSendAndRecvTInv == TInv /\ SocketSendAndRecv => TInv'
<1>. SUFFICES ASSUME TInv, SocketSendAndRecv PROVE TInv'
  OBVIOUS
<1>. DEFINE c == recvSet[idx]
<1>1. idx \in 1 .. Len(recvSet) /\ c \in Conns
  BY LenProperties DEF TInv, CoreType, SocketSendAndRecv
<1>2. /\ received' = [received EXCEPT ![c] = @ + kbuf[c]]
      /\ kbuf' = [kbuf EXCEPT ![c] = 0]
      /\ idx' = idx + 1
      /\ UNCHANGED <<status, phase, registered, evPending, evs, haveNew, backlog,
                     accepted, recvSet, sent>>
  BY DEF SocketSendAndRecv
<1>3. haveNew' \in BOOLEAN
  BY <1>2, Zenon DEF TInv, CoreType
<1>4. /\ received' \in [Conns -> 0 .. MaxData]
      /\ kbuf' \in [Conns -> 0 .. MaxData]
      /\ \A d \in Conns : received'[d] + kbuf'[d] = sent'[d]
  <2>1. /\ received \in [Conns -> 0 .. MaxData] /\ kbuf \in [Conns -> 0 .. MaxData]
        /\ sent \in [Conns -> 0 .. MaxData]
        /\ \A d \in Conns : received[d] + kbuf[d] = sent[d]
    BY DEF TInv, CoreType
  <2>2. received[c] + kbuf[c] \in 0 .. MaxData
    BY <1>1, <2>1
  <2>3. received' \in [Conns -> 0 .. MaxData] /\ kbuf' \in [Conns -> 0 .. MaxData]
    BY <1>1, <1>2, <2>1, <2>2
  <2>4. \A d \in Conns : received'[d] + kbuf'[d] = sent'[d]
    <3>. SUFFICES ASSUME NEW d \in Conns PROVE received'[d] + kbuf'[d] = sent'[d]
      OBVIOUS
    <3>1. CASE d = c
      BY <1>1, <1>2, <2>1, <3>1
    <3>2. CASE d # c
      BY <1>1, <1>2, <2>1, <3>2
    <3>. QED  BY <3>1, <3>2
  <2>. QED  BY <2>3, <2>4
<1>5. /\ recvSet' = recvSet /\ IsInjective(recvSet')
      /\ idx' \in Nat \ {0} /\ idx' <= Len(recvSet') + 1
  BY <1>1, <1>2 DEF TInv
<1>6. /\ status' \in {"init", "serving", "aborted"}
      /\ phase' \in {"poll", "events", "accept", "recv"}
      /\ registered' \subseteq Sockets
      /\ evPending' \subseteq registered'
      /\ evs' \subseteq Sockets
      /\ backlog' \subseteq Conns /\ accepted' \subseteq Conns
      /\ recvSet' \in Seq(Conns)
      /\ sent' \in [Conns -> 0 .. MaxData]
      /\ status' = "init" => evPending' = {}
  BY <1>2 DEF TInv, CoreType
<1>. QED  BY <1>3, <1>4, <1>5, <1>6 DEF TInv, CoreType

\* A client connects: the backlog grows and the listener's event is raised
\* if the kqueue watches it.
LEMMA ClientConnectTInv ==
  ASSUME TInv, NEW c \in Conns, ClientConnect(c)
  PROVE  TInv'
<1>1. haveNew' \in BOOLEAN
  BY Zenon DEF TInv, CoreType, ClientConnect
<1>. QED  BY <1>1 DEF TInv, CoreType, ClientConnect, Raise

\* A client sends a byte: the kernel holds it until the socket reads it.
LEMMA ClientSendTInv ==
  ASSUME TInv, NEW c \in Conns, ClientSend(c)
  PROVE  TInv'
<1>1. haveNew' \in BOOLEAN
  BY Zenon DEF TInv, CoreType, ClientSend
<1>2. /\ sent' \in [Conns -> 0 .. MaxData]
      /\ kbuf' \in [Conns -> 0 .. MaxData]
      /\ \A d \in Conns : received'[d] + kbuf'[d] = sent'[d]
  <2>1. /\ received \in [Conns -> 0 .. MaxData] /\ kbuf \in [Conns -> 0 .. MaxData]
        /\ sent \in [Conns -> 0 .. MaxData]
        /\ \A d \in Conns : received[d] + kbuf[d] = sent[d]
    BY DEF TInv, CoreType
  <2>2. /\ sent[c] < MaxData
        /\ sent' = [sent EXCEPT ![c] = @ + 1]
        /\ kbuf' = [kbuf EXCEPT ![c] = @ + 1]
        /\ received' = received
    BY DEF ClientSend
  <2>3. kbuf[c] + 1 \in 0 .. MaxData /\ sent[c] + 1 \in 0 .. MaxData
    BY <2>1, <2>2
  <2>. QED  BY <2>1, <2>2, <2>3
<1>. QED  BY <1>1, <1>2 DEF TInv, CoreType, ClientSend, Raise

LEMMA NextTInv == TInv /\ [Next]_vars => TInv'
<1>. SUFFICES ASSUME TInv, [Next]_vars PROVE TInv'
  OBVIOUS
<1>1. CASE UNCHANGED vars
  <2>1. haveNew' \in BOOLEAN
    BY <1>1, Zenon DEF TInv, CoreType, vars
  <2>. QED  BY <1>1, <2>1 DEF vars, TInv, CoreType
<1>2. CASE Clients
  BY <1>2, ClientConnectTInv, ClientSendTInv DEF Clients
<1>3. CASE Listen \/ Poll \/ EventsDone \/ TickEnd
  BY <1>3, KqueueTInv
<1>. QED
  BY <1>1, <1>2, <1>3, HandleEventTInv, AcceptTInv, AcceptDoneTInv, SocketSendAndRecvTInv
  DEF Next, Reactor

LEMMA TInvSpec == Spec => []TInv
BY InitTInv, NextTInv, PTL DEF Spec

(***************************************************************************)
(* For every finite set of clients and bound on the data, whether or not   *)
(* kevent() registers the listener: the kqueue watches only the listener   *)
(* and accepted sockets, the for_each of sendAndRecv() stays within        *)
(* receive_sockets_, which holds each connection at most once, and a       *)
(* TCPSocket never reads more than its client sent.                        *)
(***************************************************************************)
THEOREM TCPTypeCorrect == Spec => []TypeOK
BY TInvSpec, TInvTypeOK, PTL

-----------------------------------------------------------------------------
(***************************************************************************)
(* The server implements ServerStreams, with connected <- backlog \cup     *)
(* accepted, whether or not kevent() registers the listener.  accept() is *)
(* an abstract Accept, one TCPSocket's sendAndRecv() a Deliver, and the    *)
(* kqueue's and the event loop's steps are stutters.  Two facts are not    *)
(* in TInv: accept() never returns a connection it returned before (the    *)
(* backlog and the accepted sockets are disjoint), and receive_sockets_    *)
(* holds only accepted sockets -- a read event comes only from a socket    *)
(* the kqueue watches, and it watches only the listener and the sockets    *)
(* accept() registered.                                                    *)
(***************************************************************************)

AInv ==
  /\ backlog \cap accepted = {}
  /\ Range(recvSet) \subseteq accepted
  /\ evs \subseteq registered
  /\ registered \subseteq accepted \cup {Listener}
  /\ status = "init" => registered = {}

LEMMA InitAInv == Init => AInv
BY DEF Init, AInv, Range

\* The steps that change none of the sets AInv relates.
LEMMA QuietAInv ==
  ASSUME AInv,
         \/ EventsDone \/ AcceptDone \/ SocketSendAndRecv \/ TickEnd
         \/ \E c \in Conns : ClientSend(c)
         \/ UNCHANGED vars
  PROVE  AInv'
<1>1. UNCHANGED <<backlog, accepted, recvSet, evs, registered, status>>
  BY DEF EventsDone, AcceptDone, SocketSendAndRecv, TickEnd, ClientSend, vars
<1>. QED  BY <1>1 DEF AInv

LEMMA ListenAInv == AInv /\ Listen => AInv'
<1>. SUFFICES ASSUME AInv, Listen PROVE AInv'
  OBVIOUS
<1>1. evs = {} /\ evs' = {}
  BY DEF AInv, Listen
<1>2. registered' \subseteq {Listener} /\ status' # "init"
  BY DEF AInv, Listen
<1>. QED  BY <1>1, <1>2 DEF AInv, Listen

LEMMA PollAInv == TInv /\ AInv /\ Poll => AInv'
BY DEF TInv, CoreType, AInv, Poll

LEMMA HandleEventAInv == TInv /\ AInv /\ HandleEvent => AInv'
<1>. SUFFICES ASSUME TInv, AInv, HandleEvent PROVE AInv'
  OBVIOUS
<1>1. PICK e \in evs : /\ evs' = evs \ {e}
                       /\ IF e = Listener
                            THEN haveNew' = TRUE /\ UNCHANGED recvSet
                            ELSE recvSet' = AddOnce(recvSet, e) /\ UNCHANGED haveNew
  BY DEF HandleEvent
<1>2. Range(recvSet') \subseteq accepted
  <2>1. CASE e = Listener
    BY <1>1, <2>1 DEF AInv
  <2>2. CASE e # Listener
    <3>1. e \in accepted /\ e \in Conns
      BY <2>2 DEF AInv, TInv, CoreType
    <3>2. Range(recvSet') = Range(recvSet) \cup {e}
      BY <1>1, <2>2, <3>1, AddOnceRange DEF TInv, CoreType
    <3>. QED  BY <3>1, <3>2 DEF AInv
  <2>. QED  BY <2>1, <2>2
<1>. QED  BY <1>1, <1>2 DEF AInv, HandleEvent

\* accept() moves one connection from the backlog to the accepted sockets
\* and, unless an ASSERT fails, registers it and adds it to
\* receive_sockets_.
LEMMA AcceptAInv == TInv /\ AInv /\ Accept => AInv'
<1>. SUFFICES ASSUME TInv, AInv, Accept PROVE AInv'
  OBVIOUS
<1>1. PICK c \in backlog :
        /\ backlog' = backlog \ {c}
        /\ accepted' = accepted \cup {c}
        /\ \/ /\ registered' = registered \cup {c}
              /\ evPending' = IF kbuf[c] > 0 THEN evPending \cup {c} ELSE evPending
              /\ recvSet' = AddOnce(recvSet, c)
              /\ UNCHANGED status
           \/ /\ status' = "aborted"
              /\ UNCHANGED <<registered, evPending, recvSet>>
  BY DEF Accept
<1>2. c \in Conns /\ status = "serving" /\ UNCHANGED evs
  BY DEF TInv, CoreType, Accept
<1>3. backlog' \cap accepted' = {}
  BY <1>1 DEF AInv
<1>4. CASE /\ registered' = registered \cup {c}
           /\ recvSet' = AddOnce(recvSet, c)
           /\ UNCHANGED status
  <2>1. Range(recvSet') = Range(recvSet) \cup {c}
    BY <1>2, <1>4, AddOnceRange DEF TInv, CoreType
  <2>. QED  BY <1>1, <1>2, <1>3, <1>4, <2>1 DEF AInv
<1>5. CASE /\ status' = "aborted"
           /\ UNCHANGED <<registered, evPending, recvSet>>
  BY <1>1, <1>2, <1>3, <1>5 DEF AInv
<1>. QED  BY <1>1, <1>4, <1>5

LEMMA ClientConnectAInv ==
  ASSUME AInv, NEW c \in Conns, ClientConnect(c)
  PROVE  AInv'
BY DEF AInv, ClientConnect

LEMMA NextAInv == TInv /\ AInv /\ [Next]_vars => AInv'
<1>. SUFFICES ASSUME TInv, AInv, [Next]_vars PROVE AInv'
  OBVIOUS
<1>1. CASE EventsDone \/ AcceptDone \/ SocketSendAndRecv \/ TickEnd
           \/ (\E c \in Conns : ClientSend(c)) \/ UNCHANGED vars
  BY <1>1, QuietAInv
<1>2. CASE \E c \in Conns : ClientConnect(c)
  BY <1>2, ClientConnectAInv
<1>. QED
  BY <1>1, <1>2, ListenAInv, PollAInv, HandleEventAInv, AcceptAInv
  DEF Next, Reactor, Clients

LEMMA AInvSpec == Spec => [](TInv /\ AInv)
<1>1. Init => TInv /\ AInv
  BY InitTInv, InitAInv
<1>2. TInv /\ AInv /\ [Next]_vars => TInv' /\ AInv'
  BY NextTInv, NextAInv
<1>. QED  BY <1>1, <1>2, PTL DEF Spec

LEMMA InitStreams == Init => Streams!Init
BY DEF Init, Streams!Init

\* accept() returns a connection of the backlog it never returned before.
LEMMA AcceptStreams ==
  ASSUME TInv, AInv, Accept
  PROVE  \E c \in Conns : Streams!Accept(c)
<1>1. PICK c \in backlog : /\ backlog' = backlog \ {c}
                           /\ accepted' = accepted \cup {c}
  BY DEF Accept
<1>2. c \in Conns /\ c \notin accepted
  BY DEF TInv, CoreType, AInv
<1>3. backlog' \cup accepted' = backlog \cup accepted
  BY <1>1
<1>4. UNCHANGED <<sent, received>>
  BY DEF Accept
<1>. QED  BY <1>1, <1>2, <1>3, <1>4 DEF Streams!Accept

\* One TCPSocket's sendAndRecv() reads a socket of receive_sockets_, which
\* accept() returned, and what it reads makes up what its client sent.
LEMMA SocketSendAndRecvStreams ==
  ASSUME TInv, AInv, SocketSendAndRecv
  PROVE  \E c \in Conns : Streams!Deliver(c)
<1>. DEFINE c == recvSet[idx]
<1>1. idx \in 1 .. Len(recvSet)
  BY DEF TInv, CoreType, SocketSendAndRecv
<1>2. c \in accepted /\ c \in Conns
  BY <1>1 DEF TInv, CoreType, AInv, Range
<1>3. received' = [received EXCEPT ![c] = @ + kbuf[c]]
  BY DEF SocketSendAndRecv
<1>4. received[c] + kbuf[c] = sent[c]
  BY <1>2 DEF TInv
<1>5. received' = [received EXCEPT ![c] = sent[c]]
  BY <1>3, <1>4
<1>6. UNCHANGED <<backlog, accepted, sent>>
  BY DEF SocketSendAndRecv
<1>. QED  BY <1>2, <1>5, <1>6 DEF Streams!Deliver

LEMMA ClientConnectStreams ==
  ASSUME NEW c \in Conns, ClientConnect(c)
  PROVE  Streams!Connect(c)
BY DEF ClientConnect, Streams!Connect

LEMMA ClientSendStreams ==
  ASSUME NEW c \in Conns, ClientSend(c)
  PROVE  Streams!Send(c)
BY DEF ClientSend, Streams!Send

LEMMA NextStreams ==
  TInv /\ AInv /\ [Next]_vars => [Streams!Next]_Streams!vars
<1>. SUFFICES ASSUME TInv, AInv, [Next]_vars PROVE [Streams!Next]_Streams!vars
  OBVIOUS
<1>1. CASE Accept
  BY <1>1, AcceptStreams DEF Streams!Next
<1>2. CASE SocketSendAndRecv
  BY <1>2, SocketSendAndRecvStreams DEF Streams!Next
<1>3. CASE \E c \in Conns : ClientConnect(c)
  BY <1>3, ClientConnectStreams DEF Streams!Next
<1>4. CASE \E c \in Conns : ClientSend(c)
  BY <1>4, ClientSendStreams DEF Streams!Next
<1>5. CASE Listen \/ Poll \/ HandleEvent \/ EventsDone \/ AcceptDone \/ TickEnd
           \/ UNCHANGED vars
  <2>1. UNCHANGED <<backlog, accepted, sent, received>>
    BY <1>5 DEF Listen, Poll, HandleEvent, EventsDone, AcceptDone, TickEnd, vars
  <2>. QED  BY <2>1 DEF Streams!vars
<1>. QED  BY <1>1, <1>2, <1>3, <1>4, <1>5 DEF Next, Reactor, Clients

(***************************************************************************)
(* For every finite set of clients and bound on the data, whether or not   *)
(* kevent() registers the listener: accept() returns each connection once, *)
(* sendAndRecv() reads only sockets accept() returned, and each read       *)
(* brings what the server has of a connection up to exactly what its      *)
(* client sent -- no byte is lost, read twice or read from a socket that   *)
(* was never accepted, in whatever order kevent() reports the events.      *)
(***************************************************************************)
THEOREM StreamsRefinementThm == Spec => StreamsRefinement
<1>1. Spec => Streams!Init
  BY InitStreams, PTL DEF Spec
<1>2. [](TInv /\ AInv) /\ [][Next]_vars => [][Streams!Next]_Streams!vars
  BY NextStreams, PTL
<1>. QED  BY <1>1, <1>2, AInvSpec, PTL DEF Spec, StreamsRefinement, Streams!Spec

====
