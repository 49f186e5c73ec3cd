--------------------------- MODULE LFQueueProofs ---------------------------
(***************************************************************************)
(* Proofs about LFQueue, for every Capacity and MaxPush.                   *)
(*                                                                         *)
(* QTypeOK and ReadsInOrder are not inductive: count stays within capacity  *)
(* only because writeIdx, readIdx and count agree, and the consumer reads  *)
(* the right value only because the unread slots, from readIdx on, hold    *)
(* the consecutive values after the last one it read.  IInv states these  *)
(* relations.                                                              *)
(***************************************************************************)
EXTENDS LFQueue, SequenceTheorems, TLAPS

\* Elements the consumer has read and released with updateReadIndex().
Done == Len(out) - (IF cpc = "update" THEN 1 ELSE 0)

\* TypeOK without the consumer's program counter, which the Logger extends
\* with the states of its flush loop around the for loop.
QTypeOK ==
  /\ store \in [Slot -> Value]
  /\ writeIdx \in Slot
  /\ readIdx \in Slot
  /\ count \in 0 .. Capacity
  /\ ppc \in {"idle", "written"}
  /\ nextPtr \in Slot
  /\ pushed \in 0 .. MaxPush
  /\ out \in Seq(Value)

\* IInv says nothing of cpc but which of its values hold `next`, so that
\* the Logger's proofs can use it unchanged.
IInv ==
  /\ QTypeOK
  /\ ReadsInOrder
  /\ cpc = "update" => Len(out) # 0
  /\ writeIdx = (readIdx + count) % Capacity
  /\ pushed = Done + count + InFlight
  /\ ppc = "written" => /\ count < Capacity
                       /\ store[writeIdx] = pushed
  /\ cpc \in {"read", "update"} => nextPtr = readIdx /\ count # 0
  /\ \A i \in 0 .. count - 1 : store[(readIdx + i) % Capacity] = Done + i + 1

-----------------------------------------------------------------------------
(***************************************************************************)
(* Arithmetic on the circular indices.  Every index the queue computes is  *)
(* a sum of two numbers below Capacity taken modulo Capacity.              *)
(***************************************************************************)

LEMMA ModSmall ==
  ASSUME NEW N \in Nat \ {0}, NEW x \in 0 .. N - 1
  PROVE  x % N = x
BY SMT

LEMMA ModOnce ==
  ASSUME NEW N \in Nat \ {0}, NEW x \in N .. 2 * N - 1
  PROVE  x % N = x - N
BY SMT

LEMMA ModRange ==
  ASSUME NEW N \in Nat \ {0}, NEW x \in Nat
  PROVE  x % N \in 0 .. N - 1
BY SMT

\* Advancing an index that has just been wrapped: the wrap can be deferred.
LEMMA ModAdd ==
  ASSUME NEW N \in Nat \ {0}, NEW a \in 0 .. N, NEW b \in 0 .. N - 1
  PROVE  ((a % N) + b) % N = (a + b) % N
<1>1. CASE a < N
  BY <1>1, ModSmall
<1>2. CASE a = N
  <2>1. a % N = 0
    BY <1>2, ModOnce
  <2>2. (a + b) % N = b
    BY <1>2, ModOnce
  <2>3. b % N = b
    BY ModSmall
  <2>. QED
    BY <2>1, <2>2, <2>3
<1>. QED
  BY <1>1, <1>2

\* Fewer than N steps from the same index reach different slots.
LEMMA ModInjective ==
  ASSUME NEW N \in Nat \ {0}, NEW r \in 0 .. N - 1,
         NEW i \in 0 .. N - 1, NEW j \in 0 .. N - 1, i # j
  PROVE  (r + i) % N # (r + j) % N
<1>1. CASE r + i < N /\ r + j < N
  BY <1>1
<1>2. CASE r + i < N /\ r + j >= N
  BY <1>2
<1>3. CASE r + i >= N /\ r + j < N
  BY <1>3
<1>4. CASE r + i >= N /\ r + j >= N
  BY <1>4
<1>. QED
  BY <1>1, <1>2, <1>3, <1>4

\* One step further round the circle.
LEMMA ModSucc ==
  ASSUME NEW N \in Nat \ {0}, NEW r \in 0 .. N - 1, NEW c \in 0 .. N - 1
  PROVE  (((r + c) % N) + 1) % N = (r + c + 1) % N
<1>1. CASE r + c < N
  BY <1>1, ModSmall
<1>2. CASE r + c >= N
  BY <1>2
<1>. QED
  BY <1>1, <1>2

-----------------------------------------------------------------------------

USE CapacityAssumption, MaxPushAssumption

LEMMA InitIInv == Init => IInv
<1> SUFFICES ASSUME Init PROVE IInv
  OBVIOUS
<1>1. QTypeOK
  BY DEF Init, QueueInit, QTypeOK, Slot, Value, Default
<1>2. ReadsInOrder
  BY DEF Init, ReadsInOrder
<1>3. writeIdx = (readIdx + count) % Capacity
  BY DEF Init, QueueInit
<1>4. pushed = Done + count + InFlight
  BY DEF Init, QueueInit, Done, InFlight
<1>. QED
  BY <1>1, <1>2, <1>3, <1>4 DEF Init, QueueInit, IInv


\* The two facts about the capacity every step below needs.
LEMMA SlotSum ==
  ASSUME NEW r \in Slot, NEW i \in 0 .. Capacity - 1
  PROVE  (r + i) % Capacity \in Slot
BY ModRange DEF Slot

LEMMA ProducerWriteIInv == IInv /\ ProducerWrite => IInv'
<1> SUFFICES ASSUME IInv, ProducerWrite PROVE IInv'
  OBVIOUS
<1>1. /\ QTypeOK
      /\ count \in 0 .. Capacity - 1
      /\ writeIdx = (readIdx + count) % Capacity
      /\ ppc = "idle"
      /\ pushed < MaxPush
      /\ store' = [store EXCEPT ![writeIdx] = pushed + 1]
  BY DEF IInv, QTypeOK, ProducerWrite
<1>2. QTypeOK'
  BY <1>1 DEF ProducerWrite, QTypeOK, Slot, Value
<1>3. \A i \in 0 .. count - 1 : store'[(readIdx + i) % Capacity] = store[(readIdx + i) % Capacity]
  <2> SUFFICES ASSUME NEW i \in 0 .. count - 1
               PROVE  store'[(readIdx + i) % Capacity] = store[(readIdx + i) % Capacity]
    OBVIOUS
  <2>1. readIdx \in Slot /\ i \in 0 .. Capacity - 1 /\ count \in 0 .. Capacity - 1 /\ i # count
    BY <1>1 DEF QTypeOK
  <2>2. (readIdx + i) % Capacity # writeIdx
    BY <2>1, <1>1, ModInjective DEF Slot
  <2>3. (readIdx + i) % Capacity \in Slot
    BY <2>1, SlotSum
  <2>. QED
    BY <1>1, <2>2, <2>3 DEF QTypeOK
<1>4. store'[writeIdx'] = pushed'
  BY <1>1 DEF ProducerWrite, QTypeOK
<1>. QED
  BY <1>1, <1>2, <1>3, <1>4 DEF IInv, ProducerWrite, ReadsInOrder, Done, InFlight

LEMMA UpdateWriteIndexIInv == IInv /\ UpdateWriteIndex => IInv'
<1> SUFFICES ASSUME IInv, UpdateWriteIndex PROVE IInv'
  OBVIOUS
<1>1. /\ QTypeOK
      /\ readIdx \in 0 .. Capacity - 1
      /\ count \in 0 .. Capacity - 1
      /\ writeIdx = (readIdx + count) % Capacity
      /\ store[writeIdx] = pushed
      /\ pushed = Done + count + 1
      /\ Done \in Nat
      /\ \A i \in 0 .. count - 1 : store[(readIdx + i) % Capacity] = Done + i + 1
  BY DEF IInv, QTypeOK, UpdateWriteIndex, InFlight, Slot, Done
<1>2. /\ store' = store
      /\ readIdx' = readIdx
      /\ count' = count + 1
      /\ writeIdx' = (writeIdx + 1) % Capacity
      /\ Done' = Done
  BY DEF UpdateWriteIndex, Done
<1>3. writeIdx' = (readIdx' + count') % Capacity
  <2>1. readIdx \in 0 .. Capacity - 1 /\ count \in 0 .. Capacity - 1
    BY <1>1
  <2>2. (((readIdx + count) % Capacity) + 1) % Capacity = (readIdx + count + 1) % Capacity
    BY <2>1, ModSucc
  <2>. QED
    BY <1>1, <1>2, <2>2
<1>4. QTypeOK'
  BY <1>1, ModRange DEF UpdateWriteIndex, QTypeOK, Slot
<1>5. \A i \in 0 .. count' - 1 : store'[(readIdx' + i) % Capacity] = Done' + i + 1
  <2>1. ASSUME NEW i \in 0 .. count' - 1
        PROVE  store'[(readIdx' + i) % Capacity] = Done' + i + 1
    <3>1. i \in 0 .. count
      BY <1>1, <1>2
    <3>2. store'[(readIdx' + i) % Capacity] = store[(readIdx + i) % Capacity]
      BY <1>2
    <3>3. CASE i < count
      <4>1. i \in 0 .. count - 1
        BY <1>1, <3>1, <3>3
      <4>2. store[(readIdx + i) % Capacity] = Done + i + 1
        BY <1>1, <4>1
      <4>. QED
        BY <1>2, <3>2, <4>2
    <3>4. CASE i = count
      <4>1. store[(readIdx + count) % Capacity] = pushed /\ pushed = Done + count + 1
        BY <1>1
      <4>. QED
        BY <1>2, <3>2, <3>4, <4>1
    <3>. QED
      BY <1>1, <3>1, <3>3, <3>4
  <2>. QED
    BY <2>1
<1>6. pushed' = Done' + count' + InFlight'
  BY <1>1, <1>2 DEF UpdateWriteIndex, InFlight
<1>7. /\ ReadsInOrder'
      /\ cpc' = "update" => Len(out') # 0
      /\ ppc' = "written" => count' < Capacity /\ store'[writeIdx'] = pushed'
      /\ cpc' \in {"read", "update"} => nextPtr' = readIdx' /\ count' # 0
  BY <1>1 DEF IInv, UpdateWriteIndex, ReadsInOrder
<1>. QED
  BY <1>3, <1>4, <1>5, <1>6, <1>7 DEF IInv

LEMMA GetNextToReadIInv == IInv /\ GetNextToRead => IInv'
BY DEF IInv, QTypeOK, GetNextToRead, NextToReadAvailable, ReadsInOrder, Done, InFlight

LEMMA ReadElementIInv == IInv /\ ReadElement => IInv'
<1> SUFFICES ASSUME IInv, ReadElement PROVE IInv'
  OBVIOUS
<1>1. /\ QTypeOK
      /\ ReadsInOrder
      /\ nextPtr = readIdx
      /\ count # 0
      /\ Done = Len(out)
      /\ Done' = Len(out)
      /\ \A i \in 0 .. count - 1 : store[(readIdx + i) % Capacity] = Done + i + 1
  BY DEF IInv, ReadElement, Done
<1>2. store[nextPtr] = Len(out) + 1
  <2>1. (readIdx + 0) % Capacity = readIdx
    BY <1>1, ModSmall DEF QTypeOK, Slot
  <2>2. 0 \in 0 .. count - 1
    BY <1>1 DEF QTypeOK
  <2>. QED
    BY <1>1, <2>1, <2>2
<1>3. ReadsInOrder'
  BY <1>1, <1>2 DEF ReadElement, ReadsInOrder
<1>4. QTypeOK'
  BY <1>1 DEF ReadElement, QTypeOK, Slot
<1>. QED
  BY <1>1, <1>3, <1>4 DEF IInv, ReadElement, InFlight

LEMMA UpdateReadIndexIInv == IInv /\ UpdateReadIndex => IInv'
<1> SUFFICES ASSUME IInv, UpdateReadIndex PROVE IInv'
  OBVIOUS
<1>1. /\ QTypeOK
      /\ readIdx \in 0 .. Capacity - 1
      /\ count \in 1 .. Capacity
      /\ writeIdx = (readIdx + count) % Capacity
      /\ Done \in Nat
      /\ \A i \in 0 .. count - 1 : store[(readIdx + i) % Capacity] = Done + i + 1
  BY DEF IInv, QTypeOK, UpdateReadIndex, Done, Slot
<1>2. /\ store' = store
      /\ writeIdx' = writeIdx
      /\ readIdx' = (readIdx + 1) % Capacity
      /\ count' = count - 1
      /\ Done' = Done + 1
  BY DEF UpdateReadIndex, Done
<1>3. writeIdx' = (readIdx' + count') % Capacity
  <2>1. readIdx + 1 \in 0 .. Capacity /\ count - 1 \in 0 .. Capacity - 1
    BY <1>1
  <2>2. (((readIdx + 1) % Capacity) + (count - 1)) % Capacity = ((readIdx + 1) + (count - 1)) % Capacity
    BY <2>1, ModAdd
  <2>. QED
    BY <1>1, <1>2, <2>2
<1>4. \A i \in 0 .. count' - 1 : store'[(readIdx' + i) % Capacity] = Done' + i + 1
  <2>1. ASSUME NEW i \in 0 .. count' - 1
        PROVE  store'[(readIdx' + i) % Capacity] = Done' + i + 1
    <3>0. readIdx + 1 \in 0 .. Capacity /\ i \in 0 .. Capacity - 1 /\ i + 1 \in 0 .. count - 1
      BY <1>1, <1>2
    <3>1. (((readIdx + 1) % Capacity) + i) % Capacity = ((readIdx + 1) + i) % Capacity
      BY <3>0, ModAdd
    <3>2. (readIdx + 1) + i = readIdx + (i + 1)
      BY <1>1, <3>0
    <3>3. store[(readIdx + (i + 1)) % Capacity] = Done + (i + 1) + 1
      BY <1>1, <3>0
    <3>. QED
      BY <1>1, <1>2, <3>1, <3>2, <3>3
  <2>. QED
    BY <2>1
<1>5. QTypeOK'
  BY <1>1, ModRange DEF UpdateReadIndex, QTypeOK, Slot
<1>6. pushed' = Done' + count' + InFlight'
  BY <1>1, <1>2 DEF IInv, UpdateReadIndex, InFlight
<1>7. /\ ReadsInOrder'
      /\ cpc' = "update" => Len(out') # 0
      /\ ppc' = "written" => count' < Capacity /\ store'[writeIdx'] = pushed'
  BY <1>1 DEF IInv, UpdateReadIndex, ReadsInOrder
<1>8. cpc' \in {"read", "update"} => nextPtr' = readIdx' /\ count' # 0
  BY DEF UpdateReadIndex
<1>. QED
  BY <1>3, <1>4, <1>5, <1>6, <1>7, <1>8 DEF IInv

LEMMA NextIInv == IInv /\ [Next]_vars => IInv'
<1> SUFFICES ASSUME IInv, [Next]_vars PROVE IInv'
  OBVIOUS
<1>1. CASE ProducerWrite
  BY <1>1, ProducerWriteIInv
<1>2. CASE UpdateWriteIndex
  BY <1>2, UpdateWriteIndexIInv
<1>3. CASE GetNextToRead
  BY <1>3, GetNextToReadIInv
<1>4. CASE ReadElement
  BY <1>4, ReadElementIInv
<1>5. CASE UpdateReadIndex
  BY <1>5, UpdateReadIndexIInv
<1>6. CASE GetNextToReadEmpty \/ UNCHANGED vars
  BY <1>6 DEF GetNextToReadEmpty, vars, IInv, QTypeOK, ReadsInOrder, Done, InFlight
<1>. QED
  BY <1>1, <1>2, <1>3, <1>4, <1>5, <1>6 DEF Next, Producer, Consumer

-----------------------------------------------------------------------------
LEMMA InitIInvSpec == Spec => []IInv
<1>1. Init => IInv
  BY InitIInv
<1>2. IInv /\ [Next]_vars => IInv'
  BY NextIInv
<1>. QED
  BY <1>1, <1>2, PTL DEF Spec

(***************************************************************************)
(* Type correctness of the queue for every capacity: the indices the       *)
(* producer and the consumer wrap in updateWriteIndex() and                *)
(* updateReadIndex() stay slots of store_, and num_elements_ never exceeds *)
(* store_.size().                                                          *)
(***************************************************************************)
THEOREM TypeCorrect == Spec => []TypeOK
<1>. DEFINE CpcOK == cpc \in {"peek", "read", "update"}
<1>1. Init => CpcOK
  BY DEF Init
<1>2. CpcOK /\ [Next]_vars => CpcOK'
  BY DEF Next, Producer, Consumer, ProducerWrite, UpdateWriteIndex, GetNextToRead,
         GetNextToReadEmpty, ReadElement, UpdateReadIndex, vars
<1>3. Spec => []CpcOK
  BY <1>1, <1>2, PTL DEF Spec
<1>4. IInv /\ CpcOK => TypeOK
  BY DEF IInv, QTypeOK, TypeOK
<1>. QED
  BY <1>3, <1>4, InitIInvSpec, PTL

(***************************************************************************)
(* FIFO for every capacity: the flushQueue() loop reads exactly the values *)
(* pushValue() published, each once and in order.                          *)
(***************************************************************************)
THEOREM FifoOrder == Spec => []ReadsInOrder
<1>1. IInv => ReadsInOrder
  BY DEF IInv
<1>. QED
  BY <1>1, InitIInvSpec, PTL

\* A slot the producer may write is never the one the consumer is reading.
LEMMA NoRaceStep == IInv /\ ProducerWrite => ~(cpc = "read" /\ nextPtr = writeIdx)
<1> SUFFICES ASSUME IInv, ProducerWrite, cpc = "read", nextPtr = writeIdx
             PROVE  FALSE
  OBVIOUS
<1>1. /\ readIdx \in 0 .. Capacity - 1
      /\ count \in 1 .. Capacity - 1
      /\ nextPtr = readIdx
      /\ writeIdx = (readIdx + count) % Capacity
  BY DEF IInv, QTypeOK, ProducerWrite, Slot
<1>2. (readIdx + 0) % Capacity # (readIdx + count) % Capacity
  BY <1>1, ModInjective
<1>3. (readIdx + 0) % Capacity = readIdx
  BY <1>1, ModSmall
<1>. QED
  BY <1>1, <1>2, <1>3

(***************************************************************************)
(* SPSC discipline for every capacity: pushValue() never copies into the   *)
(* slot that the flushQueue() loop holds in `next` and has not yet read,   *)
(* provided the producer keeps its contract of never pushing into a full   *)
(* queue.                                                                  *)
(***************************************************************************)
THEOREM NoDataRaceThm == Spec => NoDataRace
<1>1. IInv => [ProducerWrite => ~(cpc = "read" /\ nextPtr = writeIdx)]_vars
  BY NoRaceStep
<1>. QED
  BY <1>1, InitIInvSpec, PTL DEF NoDataRace

-----------------------------------------------------------------------------
(***************************************************************************)
(* Refinement of FifoQueue.  Each step of the two threads is a Send, a     *)
(* Receive or a stutter of the abstract queue AbsQueue: the slots from     *)
(* next_read_index_ on that hold published, unread elements.               *)
(***************************************************************************)

\* The n slots of st that follow slot r + k, as a sequence.
Window(st, r, k, n) == [i \in 1 .. n |-> st[(r + k + i - 1) % Capacity]]

LEMMA AbsQueueWindow == AbsQueue = Window(store, readIdx, Consumed, count - Consumed)
BY DEF AbsQueue, Window

LEMMA WindowSeq ==
  ASSUME NEW st \in [Slot -> Value], NEW r \in Slot, NEW k \in Nat, NEW n \in Nat,
         k + n <= Capacity
  PROVE  /\ Window(st, r, k, n) \in Seq(Value)
         /\ Len(Window(st, r, k, n)) = n
<1>1. \A i \in 1 .. n : st[(r + k + i - 1) % Capacity] \in Value
  <2>. SUFFICES ASSUME NEW i \in 1 .. n
                PROVE  st[(r + k + i - 1) % Capacity] \in Value
    OBVIOUS
  <2>1. k + i - 1 \in 0 .. Capacity - 1
    OBVIOUS
  <2>2. (r + k + i - 1) % Capacity \in Slot
    BY <2>1 DEF Slot
  <2>. QED  BY <2>2
<1>2. Window(st, r, k, n) \in [1 .. n -> Value]
  BY <1>1 DEF Window
<1>3. Window(st, r, k, n) \in Seq(Value)
  BY <1>2, SeqDef
<1>. QED  BY <1>2, <1>3, LenProperties

\* The facts of IInv every step below uses, with Consumed in place of cpc.
LEMMA IInvFacts ==
  ASSUME IInv
  PROVE  /\ store \in [Slot -> Value]
         /\ readIdx \in Slot /\ writeIdx \in Slot
         /\ count \in 0 .. Capacity /\ pushed \in 0 .. MaxPush
         /\ Consumed \in {0, 1} /\ Consumed <= count
         /\ InFlight \in {0, 1}
         /\ writeIdx = (readIdx + count) % Capacity
BY DEF IInv, QTypeOK, Consumed, InFlight

LEMMA InitRefined == Init => Fifo!Init
BY DEF Init, QueueInit, Fifo!Init, AbsQueue, Consumed, InFlight

\* A write into the slot at next_write_index_ changes no element of the
\* queue: that slot is the one after the last published element.
LEMMA ProducerWriteRefined ==
  ASSUME IInv, ProducerWrite
  PROVE  UNCHANGED Fifo!vars
<1>1. /\ readIdx \in 0 .. Capacity - 1
      /\ count \in 0 .. Capacity - 1
      /\ pushed \in 0 .. MaxPush - 1
      /\ Consumed \in {0, 1} /\ Consumed <= count
      /\ writeIdx = (readIdx + count) % Capacity
      /\ Consumed' = Consumed /\ InFlight = 0 /\ InFlight' = 1
  BY IInvFacts DEF ProducerWrite, Slot, Consumed, InFlight
<1>2. AbsQueue' = AbsQueue
  <2>. SUFFICES ASSUME NEW i \in 1 .. count - Consumed
                PROVE  store'[(readIdx + Consumed + i - 1) % Capacity]
                         = store[(readIdx + Consumed + i - 1) % Capacity]
    BY <1>1 DEF AbsQueue, ProducerWrite
  <2>1. (readIdx + (Consumed + i - 1)) % Capacity # (readIdx + count) % Capacity
    BY <1>1, ModInjective
  <2>2. (readIdx + (Consumed + i - 1)) % Capacity \in Slot
    <3>1. Consumed + i - 1 \in 0 .. Capacity - 1
      BY <1>1
    <3>. QED  BY <1>1, <3>1, SlotSum DEF Slot
  <2>. QED  BY <1>1, <2>1, <2>2 DEF ProducerWrite, IInv, QTypeOK
<1>3. (pushed - InFlight)' = pushed - InFlight /\ out' = out
  BY <1>1 DEF ProducerWrite
<1>. QED  BY <1>2, <1>3 DEF Fifo!vars

\* One more slot at the end of a window is an append.
LEMMA WindowAppend ==
  ASSUME NEW st \in [Slot -> Value], NEW r \in Slot, NEW k \in Nat, NEW n \in Nat,
         k + n + 1 <= Capacity
  PROVE  Window(st, r, k, n + 1) = Append(Window(st, r, k, n), st[(r + k + n) % Capacity])
<1>. DEFINE w == Window(st, r, k, n)
            w1 == Window(st, r, k, n + 1)
            x == st[(r + k + n) % Capacity]
<1>1. w \in Seq(Value) /\ Len(w) = n /\ w1 \in Seq(Value) /\ Len(w1) = n + 1
  BY WindowSeq
<1>2. x \in Value
  BY DEF Slot
<1>3. /\ Append(w, x) \in Seq(Value)
      /\ Len(Append(w, x)) = n + 1
      /\ \A i \in 1 .. n : Append(w, x)[i] = w[i]
      /\ Append(w, x)[n + 1] = x
  BY <1>1, <1>2, AppendProperties
<1>4. \A i \in 1 .. n + 1 : w1[i] = Append(w, x)[i]
  <2>. SUFFICES ASSUME NEW i \in 1 .. n + 1 PROVE w1[i] = Append(w, x)[i]
    OBVIOUS
  <2>1. CASE i <= n
    BY <1>3, <2>1 DEF Window
  <2>2. CASE i = n + 1
    <3>1. r + k + i - 1 = r + k + n
      BY <2>2
    <3>. QED  BY <1>3, <2>2, <3>1 DEF Window
  <2>3. i <= n \/ i = n + 1
    OBVIOUS
  <2>. QED  BY <2>1, <2>2, <2>3
<1>. QED  BY <1>1, <1>3, <1>4, SeqEqual

\* Dropping the first slot of a non-empty window is a Tail; that slot is its Head.
LEMMA WindowTail ==
  ASSUME NEW st \in [Slot -> Value], NEW r \in Slot, NEW k \in Nat, NEW n \in Nat \ {0},
         k + n <= Capacity
  PROVE  /\ Window(st, r, k, n) # <<>>
         /\ Head(Window(st, r, k, n)) = st[(r + k) % Capacity]
         /\ Window(st, r, k + 1, n - 1) = Tail(Window(st, r, k, n))
<1>. DEFINE w == Window(st, r, k, n)
            t == Window(st, r, k + 1, n - 1)
<1>1. w \in Seq(Value) /\ Len(w) = n /\ t \in Seq(Value) /\ Len(t) = n - 1
  BY WindowSeq
<1>2. w # <<>>
  BY <1>1
<1>3. /\ Tail(w) \in Seq(Value) /\ Len(Tail(w)) = n - 1
      /\ \A i \in 1 .. n - 1 : Tail(w)[i] = w[i + 1]
  BY <1>1, <1>2, HeadTailProperties
<1>4. Head(w) = st[(r + k) % Capacity]
  <2>1. w[1] = st[(r + k) % Capacity]
    BY DEF Window, Slot
  <2>. QED  BY <1>1, <1>2, <2>1
<1>5. \A i \in 1 .. n - 1 : t[i] = Tail(w)[i]
  <2>. SUFFICES ASSUME NEW i \in 1 .. n - 1 PROVE t[i] = Tail(w)[i]
    OBVIOUS
  <2>1. r + (k + 1) + i - 1 = r + k + (i + 1) - 1 /\ i + 1 \in 1 .. n
    BY DEF Slot
  <2>. QED  BY <1>3, <2>1 DEF Window
<1>. QED  BY <1>1, <1>2, <1>3, <1>4, <1>5, SeqEqual

\* updateWriteIndex() publishes the slot just written, holding `pushed`:
\* the abstract producer sends its next element.
LEMMA UpdateWriteIndexRefined ==
  ASSUME IInv, UpdateWriteIndex
  PROVE  Fifo!Send
<1>1. /\ store \in [Slot -> Value]
      /\ readIdx \in Slot
      /\ count \in 0 .. Capacity - 1
      /\ pushed \in 1 .. MaxPush
      /\ Consumed \in {0, 1} /\ Consumed <= count
      /\ store[(readIdx + count) % Capacity] = pushed
      /\ Consumed' = Consumed /\ InFlight = 1 /\ InFlight' = 0
  <2>1. pushed # 0
    BY DEF IInv, UpdateWriteIndex, Done, InFlight, QTypeOK
  <2>. QED  BY <2>1, IInvFacts DEF IInv, UpdateWriteIndex, Consumed, InFlight
<1>2. /\ AbsQueue = Window(store, readIdx, Consumed, count - Consumed)
      /\ AbsQueue' = Window(store, readIdx, Consumed, (count - Consumed) + 1)
  BY <1>1, AbsQueueWindow DEF AbsQueue, Window, UpdateWriteIndex
<1>3. AbsQueue' = Append(AbsQueue, pushed)
  <2>1. readIdx + Consumed + (count - Consumed) = readIdx + count
    BY <1>1 DEF Slot
  <2>. QED  BY <1>1, <1>2, <2>1, WindowAppend
<1>4. Len(AbsQueue) < Capacity
  BY <1>1, <1>2, WindowSeq
<1>. QED  BY <1>1, <1>3, <1>4 DEF Fifo!Send, UpdateWriteIndex

\* Copying *next out of the slot at next_read_index_ receives the oldest
\* published element.
LEMMA ReadElementRefined ==
  ASSUME IInv, ReadElement
  PROVE  Fifo!Receive
<1>1. /\ store \in [Slot -> Value]
      /\ readIdx \in Slot
      /\ count \in 1 .. Capacity
      /\ nextPtr = readIdx
      /\ Consumed = 0 /\ Consumed' = 1 /\ InFlight' = InFlight
  BY IInvFacts DEF IInv, ReadElement, Consumed, InFlight
<1>2. /\ AbsQueue = Window(store, readIdx, 0, count)
      /\ AbsQueue' = Window(store, readIdx, 0 + 1, count - 1)
  BY <1>1, AbsQueueWindow DEF AbsQueue, Window, ReadElement
<1>3. /\ AbsQueue # <<>>
      /\ Head(AbsQueue) = store[(readIdx + 0) % Capacity]
      /\ AbsQueue' = Tail(AbsQueue)
  <2>1. count \in Nat \ {0} /\ 0 \in Nat /\ 0 + count <= Capacity
    BY <1>1
  <2>. QED  BY <1>1, <1>2, <2>1, WindowTail
<1>4. (readIdx + 0) % Capacity = nextPtr
  BY <1>1, ModSmall DEF Slot
<1>. QED  BY <1>1, <1>3, <1>4 DEF Fifo!Receive, ReadElement

\* updateReadIndex() releases a slot already received: nothing changes in
\* the abstract queue, although next_read_index_ wraps.
LEMMA UpdateReadIndexRefined ==
  ASSUME IInv, UpdateReadIndex
  PROVE  UNCHANGED Fifo!vars
<1>1. /\ readIdx \in 0 .. Capacity - 1
      /\ count \in 1 .. Capacity
      /\ Consumed = 1 /\ Consumed' = 0 /\ InFlight' = InFlight
  BY IInvFacts DEF IInv, UpdateReadIndex, Slot, Consumed, InFlight
<1>2. AbsQueue' = AbsQueue
  <2>1. AbsQueue = [i \in 1 .. count - 1 |-> store[(readIdx + 1 + (i - 1)) % Capacity]]
    BY <1>1 DEF AbsQueue
  <2>2. AbsQueue' = [i \in 1 .. count - 1 |->
                       store[(((readIdx + 1) % Capacity) + (i - 1)) % Capacity]]
    BY <1>1 DEF AbsQueue, UpdateReadIndex
  <2>3. \A i \in 1 .. count - 1 :
          (((readIdx + 1) % Capacity) + (i - 1)) % Capacity
            = (readIdx + 1 + (i - 1)) % Capacity
    BY <1>1, ModAdd
  <2>. QED  BY <2>1, <2>2, <2>3
<1>. QED  BY <1>1, <1>2 DEF UpdateReadIndex, Fifo!vars

LEMMA NextRefined == IInv /\ [Next]_vars => [Fifo!Next]_Fifo!vars
<1> SUFFICES ASSUME IInv, [Next]_vars PROVE [Fifo!Next]_Fifo!vars
  OBVIOUS
<1>1. CASE ProducerWrite
  BY <1>1, ProducerWriteRefined
<1>2. CASE UpdateWriteIndex
  BY <1>2, UpdateWriteIndexRefined DEF Fifo!Next
<1>3. CASE GetNextToRead
  BY <1>3 DEF GetNextToRead, Fifo!vars, AbsQueue, Consumed, InFlight
<1>4. CASE ReadElement
  BY <1>4, ReadElementRefined DEF Fifo!Next
<1>5. CASE UpdateReadIndex
  BY <1>5, UpdateReadIndexRefined
<1>6. CASE GetNextToReadEmpty \/ UNCHANGED vars
  BY <1>6 DEF GetNextToReadEmpty, vars, Fifo!vars, AbsQueue, Consumed, InFlight
<1>. QED
  BY <1>1, <1>2, <1>3, <1>4, <1>5, <1>6 DEF Next, Producer, Consumer

(***************************************************************************)
(* LFQueue implements a bounded FIFO queue for every capacity: under every *)
(* interleaving of pushValue() and the flushQueue() loop, each step sends  *)
(* the next element, receives the oldest published one, or leaves the     *)
(* queue the two threads see unchanged.  (The fairness of FifoQueue is     *)
(* checked by TLC: FifoRefinement.)                                        *)
(***************************************************************************)
THEOREM Refinement == Spec => Fifo!SafeSpec
<1>1. Init => Fifo!Init
  BY InitRefined
<1>2. IInv /\ [Next]_vars => [Fifo!Next]_Fifo!vars
  BY NextRefined
<1>. QED
  BY <1>1, <1>2, InitIInvSpec, PTL DEF Spec, Fifo!SafeSpec

====
