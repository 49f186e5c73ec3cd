-------------------------- MODULE SocketSetupProofs --------------------------
(***************************************************************************)
(* Proofs about SocketSetup, for every configuration and every result the  *)
(* kernel gives each system call.                                          *)
(*                                                                         *)
(* ReturnedAsConfigured speaks only of the final state; it holds because   *)
(* each statement of createSocket() that sets an option is passed only by  *)
(* setting it or by ending the process, and no later statement clears it.  *)
(* Configured says so statement by statement: which options are set once   *)
(* control has reached pc.                                                 *)
(***************************************************************************)
EXTENDS SocketSetup, TLAPS

Label == {"resolve", "socket", "nonblock", "nagle", "connect", "reuse", "listen",
          "listen2", "timestamp"}

SockType ==
  [open : BOOLEAN, nonblock : BOOLEAN, nodelay : BOOLEAN, reuse : BOOLEAN,
   timestamp : BOOLEAN, listening : BOOLEAN, port : {Port, Ephemeral, NoPort},
   conn : {"none", "connected", "inprogress", "refused"}]

SetupTypeOK ==
  /\ cfg \in Cfg
  /\ pc \in Label
  /\ sock \in SockType
  /\ status \in {"running", "returned", "aborted"}
  /\ envFailed \in BOOLEAN

\* The options set once control has reached pc.
Configured ==
  /\ pc \in Label \ {"resolve", "socket"} => sock.open
  /\ pc \in Label \ {"resolve", "socket", "nonblock"} => sock.nonblock
  /\ pc \in {"connect", "reuse", "listen", "listen2", "timestamp"} /\ ~cfg.udp
       => sock.nodelay
  /\ pc \in {"listen", "listen2", "timestamp"} /\ cfg.listening => sock.reuse
  /\ pc \in {"listen2", "timestamp"} /\ cfg.listening => sock.listening
  /\ status = "returned" => pc = "timestamp" /\ sock.timestamp = cfg.timestamp
  /\ status # "returned" => ~sock.timestamp

SInv == SetupTypeOK /\ Configured

LEMMA InitSInv == Init => SInv
<1>. SUFFICES ASSUME Init PROVE SInv
  OBVIOUS
<1>1. sock \in SockType
  BY DEF Init, SockType
<1>2. SetupTypeOK
  BY <1>1 DEF Init, SetupTypeOK, Label
<1>3. Configured
  BY DEF Init, Configured, Label
<1>. QED  BY <1>2, <1>3 DEF SInv

\* A failed ASSERT changes neither pc nor the descriptor.
LEMMA AbortSInv ==
  ASSUME SInv, status = "running", NEW b \in BOOLEAN, Abort(b)
  PROVE  SInv'
<1>1. envFailed' \in BOOLEAN
  BY Zenon DEF SInv, SetupTypeOK, Abort
<1>2. UNCHANGED <<cfg, pc, sock>> /\ status' = "aborted"
  BY DEF Abort
<1>. QED  BY <1>1, <1>2 DEF SInv, SetupTypeOK, Configured

LEMMA ResolveSInv == SInv /\ Resolve => SInv'
BY AbortSInv DEF SInv, SetupTypeOK, Configured, Label, Resolve, Goto

LEMMA CreateFdSInv == SInv /\ CreateFd => SInv'
BY AbortSInv DEF SInv, SetupTypeOK, Configured, Label, SockType, CreateFd, Done

LEMMA SetNonBlockingSInv == SInv /\ SetNonBlockingStep => SInv'
BY AbortSInv DEF SInv, SetupTypeOK, Configured, Label, SockType, SetNonBlockingStep, Done

LEMMA DisableNagleSInv == SInv /\ DisableNagleStep => SInv'
BY AbortSInv DEF SInv, SetupTypeOK, Configured, Label, SockType, DisableNagleStep, Done,
                 Goto

LEMMA ConnectSInv == SInv /\ ConnectStep => SInv'
BY DEF SInv, SetupTypeOK, Configured, Label, SockType, ConnectStep, Done, Goto

LEMMA ReuseAddrSInv == SInv /\ ReuseAddrStep => SInv'
BY AbortSInv DEF SInv, SetupTypeOK, Configured, Label, SockType, ReuseAddrStep, Done, Goto

LEMMA ListenSInv == SInv /\ ListenStep => SInv'
BY AbortSInv
DEF SInv, SetupTypeOK, Configured, Label, SockType, ListenStep, Done, Goto, Listened

LEMMA ListenAgainSInv == SInv /\ ListenAgainStep => SInv'
BY DEF SInv, SetupTypeOK, Configured, Label, SockType, ListenAgainStep, Done, Goto, Listened

LEMMA TimestampSInv == SInv /\ TimestampStep => SInv'
BY AbortSInv DEF SInv, SetupTypeOK, Configured, Label, SockType, TimestampStep, Cfg

LEMMA NextSInv == SInv /\ [Next]_vars => SInv'
<1>. SUFFICES ASSUME SInv, [Next]_vars PROVE SInv'
  OBVIOUS
<1>1. CASE UNCHANGED vars
  BY <1>1 DEF vars, SInv, SetupTypeOK, Configured
<1>. QED
  BY <1>1, ResolveSInv, CreateFdSInv, SetNonBlockingSInv, DisableNagleSInv, ConnectSInv,
     ReuseAddrSInv, ListenSInv, ListenAgainSInv, TimestampSInv DEF Next

LEMMA SInvSpec == Spec => []SInv
BY InitSInv, NextSInv, PTL DEF Spec

-----------------------------------------------------------------------------

(***************************************************************************)
(* For every configuration and whatever the kernel answers: a descriptor   *)
(* createSocket() returns is open and non-blocking, has TCP_NODELAY if it  *)
(* is a stream socket, SO_REUSEADDR and a listen() if it listens, and      *)
(* SO_TIMESTAMP exactly when socket_cfg asks for it.                       *)
(***************************************************************************)
THEOREM ReturnedAsConfiguredThm == Spec => []ReturnedAsConfigured
<1>1. SInv => ReturnedAsConfigured
  BY DEF SInv, Configured, ReturnedAsConfigured, Label
<1>. QED  BY <1>1, SInvSpec, PTL

=============================================================================
