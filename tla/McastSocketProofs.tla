------------------------- MODULE McastSocketProofs -------------------------
(***************************************************************************)
(* Proofs about McastSocket, for every buffer size and bound.              *)
(*                                                                         *)
(* NoDuplicateTransmission is not inductive: that the next ::send starts   *)
(* after every byte already on the wire holds only because the bytes on    *)
(* the wire are all numbered at most appended - next_send_valid_index_,    *)
(* the number of the last byte before outbound_data_.  send() moves        *)
(* `appended` and the index together, and sendAndRecv()'s reset of the     *)
(* index to 0 comes after the bytes it sent, whose numbers are the highest *)
(* on the wire.  MInv adds this bound, and the bounds TypeOK rests on.     *)
(***************************************************************************)
EXTENDS McastSocket, SequenceTheorems, TLAPS

\* The number of the last byte appended before those outbound_data_ holds.
Flushed == appended - sendIdx

MInv ==
  /\ TypeOK
  /\ NoDuplicateTransmission
  /\ sendIdx <= appended
  /\ \A i \in 1 .. Len(wire) : wire[i] <= Flushed
  /\ status = "running" => sendIdx < BufSize
  /\ arrived \in 0 .. MaxBytes /\ rxPending <= arrived

USE BoundsAssumption

-----------------------------------------------------------------------------
(***************************************************************************)
(* Sequences of increasing byte numbers.                                   *)
(***************************************************************************)

\* The k bytes after byte b, in order.
Run(b, k) == [i \in 1 .. k |-> b + i]

\* The first k bytes of outbound_data_ are those after Flushed.
LEMMA OutboundPrefix ==
  ASSUME NEW k \in 0 .. sendIdx, sendIdx \in Nat, appended \in Int
  PROVE  SubSeq(Outbound, 1, k) = Run(Flushed, k)
<1>1. \A i \in 1 .. k : Outbound[i] \in Int
  BY DEF Outbound
<1>2. /\ SubSeq(Outbound, 1, k) \in Seq(Int)
      /\ Len(SubSeq(Outbound, 1, k)) = k
      /\ \A i \in 1 .. k : SubSeq(Outbound, 1, k)[i] = Outbound[i]
  <2>1. /\ SubSeq(Outbound, 1, k) \in Seq(Int)
        /\ Len(SubSeq(Outbound, 1, k)) = IF 1 <= k THEN k - 1 + 1 ELSE 0
        /\ \A i \in 1 .. k - 1 + 1 : SubSeq(Outbound, 1, k)[i] = Outbound[1 + i - 1]
    BY <1>1, SubSeqProperties
  <2>. QED  BY <2>1
<1>3. Run(Flushed, k) \in Seq(Int) /\ Len(Run(Flushed, k)) = k
  <2>1. Run(Flushed, k) \in [1 .. k -> Int]
    BY DEF Run, Flushed
  <2>2. Run(Flushed, k) \in Seq(Int)
    BY <2>1, SeqDef
  <2>. QED  BY <2>1, <2>2, LenProperties
<1>4. \A i \in 1 .. k : SubSeq(Outbound, 1, k)[i] = Run(Flushed, k)[i]
  BY <1>2 DEF Outbound, Run, Flushed
<1>. QED  BY <1>2, <1>3, <1>4, SeqEqual

\* Appending a run of bytes numbered above everything on the wire keeps the
\* wire increasing, and bounded by the last byte of the run.
LEMMA RunExtends ==
  ASSUME NEW w \in Seq(Int), NEW b \in Int, NEW k \in Nat,
         \A i \in 1 .. Len(w) : w[i] <= b,
         \A i, j \in 1 .. Len(w) : i < j => w[i] < w[j]
  PROVE  /\ w \o Run(b, k) \in Seq(Int)
         /\ Len(w \o Run(b, k)) = Len(w) + k
         /\ \A i \in 1 .. Len(w) + k :
              (w \o Run(b, k))[i] = IF i <= Len(w) THEN w[i] ELSE b + (i - Len(w))
         /\ \A i \in 1 .. Len(w) + k : (w \o Run(b, k))[i] <= b + k
         /\ \A i, j \in 1 .. Len(w) + k : i < j => (w \o Run(b, k))[i] < (w \o Run(b, k))[j]
<1>. DEFINE r == w \o Run(b, k)
<1>1. Run(b, k) \in Seq(Int) /\ Len(Run(b, k)) = k
  <2>1. Run(b, k) \in [1 .. k -> Int]
    BY DEF Run
  <2>. QED  BY <2>1, SeqDef, LenProperties
<1>2. /\ r \in Seq(Int)
      /\ Len(r) = Len(w) + k
      /\ \A i \in 1 .. Len(w) + k :
           r[i] = IF i <= Len(w) THEN w[i] ELSE Run(b, k)[i - Len(w)]
  BY <1>1, ConcatProperties
<1>3. \A i \in 1 .. Len(r) : r[i] = IF i <= Len(w) THEN w[i] ELSE b + (i - Len(w))
  BY <1>1, <1>2, LenProperties DEF Run
<1>4. \A i \in 1 .. Len(r) : r[i] <= b + k
  BY <1>2, <1>3, LenProperties
<1>5. \A i, j \in 1 .. Len(r) : i < j => r[i] < r[j]
  <2>. SUFFICES ASSUME NEW i \in 1 .. Len(r), NEW j \in 1 .. Len(r), i < j
                PROVE  r[i] < r[j]
    OBVIOUS
  <2>1. Len(w) \in Nat /\ Len(r) = Len(w) + k
    BY <1>2, LenProperties
  <2>2. CASE j <= Len(w)
    BY <2>1, <2>2, <1>3
  <2>3. CASE i <= Len(w) /\ j > Len(w)
    <3>1. r[i] = w[i] /\ w[i] <= b /\ r[j] = b + (j - Len(w))
      BY <2>1, <2>3, <1>3
    <3>. QED  BY <2>1, <2>3, <3>1
  <2>4. CASE i > Len(w)
    <3>1. r[i] = b + (i - Len(w)) /\ r[j] = b + (j - Len(w))
      BY <2>1, <2>4, <1>3
    <3>. QED  BY <2>1, <3>1
  <2>. QED  BY <2>1, <2>2, <2>3, <2>4
<1>. QED  BY <1>2, <1>3, <1>4, <1>5

-----------------------------------------------------------------------------
(***************************************************************************)
(* MInv is inductive.                                                      *)
(***************************************************************************)

LEMMA InitMInv == Init => MInv
<1> SUFFICES ASSUME Init PROVE MInv
  OBVIOUS
<1>1. overrun \in BOOLEAN /\ joined \in BOOLEAN
  BY Zenon DEF Init
<1>2. wire \in Seq(1 .. MaxBytes) /\ Len(wire) = 0
  BY EmptySeq DEF Init
<1>3. TypeOK
  BY <1>1, <1>2 DEF Init, TypeOK
<1>. QED  BY <1>2, <1>3 DEF Init, MInv, NoDuplicateTransmission, Flushed

\* send(data, len) moves appended and next_send_valid_index_ together.
LEMMA SendMInv ==
  ASSUME MInv, NEW len \in 1 .. MaxLen, Send(len)
  PROVE  MInv'
<1>1. /\ sendIdx \in 0 .. BufSize - 1
      /\ appended + len <= MaxBytes
      /\ sendIdx' = sendIdx + len /\ appended' = appended + len
      /\ Flushed' = Flushed
      /\ UNCHANGED <<rcvIdx, wire, rxPending, arrived, phase, fd, joined>>
  BY DEF MInv, TypeOK, Send, Flushed
<1>2. TypeOK'
  BY <1>1 DEF MInv, TypeOK, Send
<1>3. status' = "running" => sendIdx' < BufSize
  BY <1>1 DEF Send
<1>4. NoDuplicateTransmission'
  BY <1>1 DEF MInv, NoDuplicateTransmission
<1>5. \A i \in 1 .. Len(wire') : wire'[i] <= Flushed'
  BY <1>1 DEF MInv
<1>6. sendIdx' <= appended' /\ arrived' \in 0 .. MaxBytes /\ rxPending' <= arrived'
  BY <1>1 DEF MInv, TypeOK
<1>. QED  BY <1>2, <1>3, <1>4, <1>5, <1>6 DEF MInv

\* The second part of sendAndRecv(): the bytes ::send takes follow every
\* byte on the wire, and the reset of the index puts Flushed at the end of
\* what was appended, above them.
LEMMA SendPendingMInv ==
  ASSUME MInv, SendPending
  PROVE  MInv'
<1>1. PICK k \in (IF fd = "open" THEN 0 .. sendIdx ELSE {0}) :
             wire' = wire \o SubSeq(Outbound, 1, k)
  BY DEF SendPending
<1>2. /\ k \in 0 .. sendIdx
      /\ sendIdx \in Nat /\ appended \in 0 .. MaxBytes /\ sendIdx <= appended
      /\ wire \in Seq(Int)
      /\ \A i \in 1 .. Len(wire) : wire[i] <= Flushed
      /\ \A i, j \in 1 .. Len(wire) : i < j => wire[i] < wire[j]
  BY <1>1 DEF MInv, TypeOK, NoDuplicateTransmission
<1>3. wire' = wire \o Run(Flushed, k)
  <2>1. appended \in Int
    BY <1>2
  <2>2. SubSeq(Outbound, 1, k) = Run(Flushed, k)
    BY <1>2, <2>1, OutboundPrefix
  <2>. QED  BY <1>1, <2>2
<1>4. /\ wire' \in Seq(Int)
      /\ Len(wire') = Len(wire) + k
      /\ \A i \in 1 .. Len(wire) + k :
           wire'[i] = IF i <= Len(wire) THEN wire[i] ELSE Flushed + (i - Len(wire))
      /\ \A i \in 1 .. Len(wire) + k : wire'[i] <= Flushed + k
      /\ \A i, j \in 1 .. Len(wire) + k : i < j => wire'[i] < wire'[j]
  <2>1. Flushed \in Int /\ k \in Nat
    BY <1>2 DEF Flushed
  <2>2. /\ wire \o Run(Flushed, k) \in Seq(Int)
        /\ Len(wire \o Run(Flushed, k)) = Len(wire) + k
        /\ \A i \in 1 .. Len(wire) + k :
             (wire \o Run(Flushed, k))[i]
               = IF i <= Len(wire) THEN wire[i] ELSE Flushed + (i - Len(wire))
        /\ \A i \in 1 .. Len(wire) + k : (wire \o Run(Flushed, k))[i] <= Flushed + k
        /\ \A i, j \in 1 .. Len(wire) + k :
             i < j => (wire \o Run(Flushed, k))[i] < (wire \o Run(Flushed, k))[j]
    BY <1>2, <2>1, RunExtends
  <2>. QED  BY <1>3, <2>2
<1>5. /\ sendIdx' = 0 /\ appended' = appended
      /\ UNCHANGED <<rcvIdx, rxPending, arrived, status, overrun, fd, joined>>
      /\ phase' = "idle"
  BY DEF SendPending
<1>6. \A i \in 1 .. Len(wire') : wire'[i] \in 1 .. MaxBytes
  <2>. SUFFICES ASSUME NEW i \in 1 .. Len(wire') PROVE wire'[i] \in 1 .. MaxBytes
    OBVIOUS
  <2>1. CASE i <= Len(wire)
    <3>1. wire \in [1 .. Len(wire) -> 1 .. MaxBytes]
      BY LenProperties DEF MInv, TypeOK
    <3>2. i \in 1 .. Len(wire) + k /\ i <= Len(wire)
      BY <1>4, <2>1
    <3>3. wire'[i] = wire[i]
      BY <1>4, <3>2
    <3>. QED  BY <2>1, <3>1, <3>3
  <2>2. CASE i > Len(wire)
    <3>1. Len(wire) \in Nat /\ i \in Len(wire) + 1 .. Len(wire) + k
      BY <1>2, <1>4, <2>2, LenProperties
    <3>2. wire'[i] = Flushed + (i - Len(wire))
      BY <1>4, <3>1
    <3>3. Flushed \in 0 .. MaxBytes /\ Flushed + k <= appended
      BY <1>2 DEF Flushed
    <3>. QED  BY <1>2, <3>1, <3>2, <3>3
  <2>. QED  BY <2>1, <2>2, <1>4
<1>7. wire' \in Seq(1 .. MaxBytes)
  <2>1. wire' \in [1 .. Len(wire') -> 1 .. MaxBytes]
    BY <1>4, <1>6, LenProperties
  <2>2. Len(wire') \in Nat
    BY <1>4, LenProperties
  <2>. QED  BY <2>1, <2>2, SeqDef
<1>8. TypeOK'
  BY <1>5, <1>7 DEF MInv, TypeOK
<1>9. \A i \in 1 .. Len(wire') : wire'[i] <= Flushed'
  BY <1>2, <1>4, <1>5 DEF Flushed
<1>. QED  BY <1>4, <1>5, <1>8, <1>9, <1>2 DEF MInv, NoDuplicateTransmission

\* The other steps leave the outbound side alone.
LEMMA OtherMInv ==
  ASSUME MInv,
         \/ InitSocket \/ Join \/ Leave \/ Arrive \/ Recv \/ CallbackReturn
         \/ UNCHANGED vars
  PROVE  MInv'
<1>1. UNCHANGED <<sendIdx, appended, wire, status, overrun>>
  BY DEF InitSocket, Join, Leave, Arrive, Recv, CallbackReturn, vars
<1>2. /\ rcvIdx' \in 0 .. BufSize
      /\ arrived' \in 0 .. MaxBytes /\ rxPending' \in 0 .. arrived'
      /\ phase' \in {"idle", "callback", "send"}
      /\ fd' \in {"none", "open"} /\ joined' \in BOOLEAN
  <2>1. CASE InitSocket \/ Join \/ Leave
    <3>1. joined' \in BOOLEAN
      BY <2>1, Zenon DEF InitSocket, Join, Leave
    <3>. QED  BY <2>1, <3>1 DEF MInv, TypeOK, InitSocket, Join, Leave
  <2>2. CASE Arrive
    BY <2>2 DEF MInv, TypeOK, Arrive
  <2>3. CASE Recv
    BY <2>3 DEF MInv, TypeOK, Recv
  <2>4. CASE CallbackReturn
    BY <2>4 DEF MInv, TypeOK, CallbackReturn
  <2>5. CASE UNCHANGED vars
    BY <2>5 DEF MInv, TypeOK, vars
  <2>. QED  BY <2>1, <2>2, <2>3, <2>4, <2>5
<1>. QED  BY <1>1, <1>2 DEF MInv, TypeOK, NoDuplicateTransmission, Flushed

LEMMA NextMInv == MInv /\ [Next]_vars => MInv'
<1> SUFFICES ASSUME MInv, [Next]_vars PROVE MInv'
  OBVIOUS
<1>1. CASE \E len \in 1 .. MaxLen : Send(len)
  BY <1>1, SendMInv
<1>2. CASE SendPending
  BY <1>2, SendPendingMInv
<1>3. CASE InitSocket \/ Join \/ Leave \/ Arrive \/ Recv \/ CallbackReturn \/ UNCHANGED vars
  BY <1>3, OtherMInv
<1>. QED  BY <1>1, <1>2, <1>3 DEF Next

LEMMA MInvSpec == Spec => []MInv
BY InitMInv, NextMInv, PTL DEF Spec

-----------------------------------------------------------------------------

(***************************************************************************)
(* For every buffer size and bound: the peer never receives a byte twice   *)
(* or out of order, although sendAndRecv() resets next_send_valid_index_   *)
(* after a ::send that took only part of the buffer, recv_callback_ may    *)
(* call send() in the middle of a tick, and leave() and init() may come    *)
(* between any two of these.                                               *)
(***************************************************************************)
THEOREM NoDuplicateTransmissionThm == Spec => []NoDuplicateTransmission
BY MInvSpec, PTL DEF MInv

(***************************************************************************)
(* For every buffer size: recv() never writes past the end of              *)
(* inbound_data_, and the state of the socket stays well formed.           *)
(***************************************************************************)
THEOREM McastTypeCorrect == Spec => []TypeOK
BY MInvSpec, PTL DEF MInv

-----------------------------------------------------------------------------
(***************************************************************************)
(* The send path implements OutboundStream, with queued <- appended and    *)
(* flushed <- appended - next_send_valid_index_ (Flushed).  send() is a    *)
(* Queue step: it moves appended and the index together, so Flushed stays. *)
(* sendAndRecv()'s ::send is a Flush step: what it puts on the wire is     *)
(* Run(Flushed, k) (OutboundPrefix), and its reset of the index makes      *)
(* every queued byte flushed.  Every other step stutters.                  *)
(***************************************************************************)

LEMMA InitStream == Init => Stream!Init
BY DEF Init, Stream!Init

LEMMA SendStream ==
  ASSUME MInv, NEW len \in 1 .. MaxLen, Send(len)
  PROVE  Stream!Queue
<1>1. appended \in Int /\ sendIdx \in Int
  BY DEF MInv, TypeOK
<1>2. appended' > appended
  BY <1>1 DEF Send
<1>3. appended' - sendIdx' = appended - sendIdx
  BY <1>1 DEF Send
<1>4. wire' = wire
  BY DEF Send
<1>. QED  BY <1>2, <1>3, <1>4 DEF Stream!Queue

LEMMA SendPendingStream ==
  ASSUME MInv, SendPending
  PROVE  Stream!Flush
<1>1. sendIdx \in Nat /\ appended \in Int /\ sendIdx <= appended
  BY DEF MInv, TypeOK
<1>2. PICK k \in IF fd = "open" THEN 0 .. sendIdx ELSE {0} :
             wire' = wire \o SubSeq(Outbound, 1, k)
  BY DEF SendPending
<1>3. k \in 0 .. sendIdx
  BY <1>1, <1>2
<1>4. wire' = wire \o [i \in 1 .. k |-> (appended - sendIdx) + i]
  BY <1>1, <1>2, <1>3, OutboundPrefix DEF Run, Flushed
<1>5. k \in 0 .. appended - (appended - sendIdx)
  BY <1>1, <1>3
<1>6. appended' - sendIdx' = appended /\ appended' = appended
  BY <1>1 DEF SendPending
<1>. QED  BY <1>4, <1>5, <1>6 DEF Stream!Flush

LEMMA NextStream == MInv /\ [Next]_vars => [Stream!Next]_Stream!vars
<1> SUFFICES ASSUME MInv, [Next]_vars PROVE [Stream!Next]_Stream!vars
  OBVIOUS
<1>1. CASE \E len \in 1 .. MaxLen : Send(len)
  BY <1>1, SendStream DEF Stream!Next
<1>2. CASE SendPending
  BY <1>2, SendPendingStream DEF Stream!Next
<1>3. CASE InitSocket \/ Join \/ Leave \/ Arrive \/ Recv \/ CallbackReturn \/ UNCHANGED vars
  <2>1. UNCHANGED <<sendIdx, appended, wire>>
    BY <1>3 DEF InitSocket, Join, Leave, Arrive, Recv, CallbackReturn, vars
  <2>. QED  BY <2>1 DEF Stream!vars
<1>. QED  BY <1>1, <1>2, <1>3 DEF Next

(***************************************************************************)
(* For every buffer size and bound: each byte send() is given reaches      *)
(* ::send in exactly one sendAndRecv(), which puts a prefix of the bytes   *)
(* queued since the last one on the wire, in order, and drops the rest     *)
(* when the send is partial.                                               *)
(***************************************************************************)
THEOREM OutboundRefinementThm == Spec => OutboundRefinement
<1>1. Spec => []MInv
  BY MInvSpec
<1>2. Spec => Stream!Init
  BY InitStream DEF Spec
<1>3. []MInv /\ [][Next]_vars => [][Stream!Next]_Stream!vars
  BY NextStream, PTL
<1>. QED  BY <1>1, <1>2, <1>3, PTL DEF Spec, OutboundRefinement, Stream!Spec

====
