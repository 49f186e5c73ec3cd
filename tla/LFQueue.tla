------------------------------ MODULE LFQueue ------------------------------
(***************************************************************************)
(* Common::LFQueue<T> (src/lf_queue.h): a fixed-size circular buffer       *)
(* shared by exactly one producer thread and one consumer thread, which    *)
(* synchronise only through the atomics next_write_index_,                 *)
(* next_read_index_ and num_elements_.                                     *)
(*                                                                         *)
(* The two threads are the queue's only client in the repository, the      *)
(* Logger (src/unnamed/part_004): the producer is pushValue(LogElement)    *)
(* (write the slot returned by getNextToWrite(), then updateWriteIndex()), *)
(* the consumer is the body of the for loop of flushQueue() (getNextToRead *)
(* and size(), read the element, updateReadIndex()).  The k-th element     *)
(* pushed carries the value k, so that the consumer's history `out` shows  *)
(* any loss, duplication or reordering.                                    *)
(*                                                                         *)
(* Granularity.  A thread's step is one access to shared state.            *)
(* next_write_index_ is read and written by the producer only and          *)
(* next_read_index_ by the consumer only, so the update of each is merged  *)
(* with the atomic update of num_elements_ that follows it in the same     *)
(* function.  The copy of an element into or out of a slot is not atomic;  *)
(* it is one step here, and NoDataRace states that it never overlaps an    *)
(* access of the other thread to the same slot.                            *)
(***************************************************************************)
EXTENDS Naturals, Sequences

CONSTANTS
  Capacity,   \* num_elems given to LFQueue(size_t num_elems): store_.size()
  MaxPush     \* bound on the number of elements the producer pushes

ASSUME CapacityAssumption == Capacity \in Nat \ {0}
ASSUME MaxPushAssumption == MaxPush \in Nat

VARIABLES
  store,      \* store_
  writeIdx,   \* next_write_index_
  readIdx,    \* next_read_index_
  count,      \* num_elements_
  ppc,        \* producer: "idle", or "written" (slot filled, index not yet updated)
  cpc,        \* consumer: "peek", "read" (holds next), "update" (element read)
  nextPtr,    \* the consumer's `next`: the slot getNextToRead() returned
  pushed,     \* number of elements the producer has started to push
  out         \* the values the consumer has read, in order (what it wrote to file_)

vars == <<store, writeIdx, readIdx, count, ppc, cpc, nextPtr, pushed, out>>

Slot == 0 .. Capacity - 1

\* T(): the value every slot holds after construction; pushed values are 1..MaxPush.
Default == 0

Value == 0 .. MaxPush

(***************************************************************************)
(* The queue's operations.                                                 *)
(***************************************************************************)

\* LFQueue(num_elems): store_(num_elems, T()), all three atomics 0.
QueueInit ==
  /\ store = [i \in Slot |-> Default]
  /\ writeIdx = 0
  /\ readIdx = 0
  /\ count = 0

\* Bug variants of NextToReadAvailable: the size() check dropped, and an
\* off-by-one that leaves the last element behind.
NextToReadAvailableUnchecked == TRUE

NextToReadAvailableOffByOne == count > 1

\* size() != 0: the condition under which getNextToRead() returns a slot
\* rather than nullptr.
NextToReadAvailable == count # 0

(***************************************************************************)
(* The producer: pushValue(const LogElement &), called by the single       *)
(* producer thread.  The caller's contract of the queue (no backpressure:  *)
(* the caller sizes the queue so that it never writes into a full one) is  *)
(* the conjunct count < Capacity of ProducerWrite.                         *)
(***************************************************************************)

\* Bug variant of ProducerWrite: a caller that writes into a full queue.
ProducerWriteNoFullCheck ==
  /\ ppc = "idle"
  /\ pushed < MaxPush
  /\ store' = [store EXCEPT ![writeIdx] = pushed + 1]
  /\ pushed' = pushed + 1
  /\ ppc' = "written"
  /\ UNCHANGED <<writeIdx, readIdx, count, cpc, nextPtr, out>>

\* *(queue_.getNextToWrite()) = log_element: copy the element into
\* store_[next_write_index_].
ProducerWrite ==
  /\ ppc = "idle"
  /\ pushed < MaxPush
  /\ count < Capacity
  /\ store' = [store EXCEPT ![writeIdx] = pushed + 1]
  /\ pushed' = pushed + 1
  /\ ppc' = "written"
  /\ UNCHANGED <<writeIdx, readIdx, count, cpc, nextPtr, out>>

\* Bug variant of UpdateWriteIndex: the index is not wrapped at store_.size().
UpdateWriteIndexNoWrap ==
  /\ ppc = "written"
  /\ writeIdx' = writeIdx + 1
  /\ count' = count + 1
  /\ ppc' = "idle"
  /\ UNCHANGED <<store, readIdx, cpc, nextPtr, pushed, out>>

\* queue_.updateWriteIndex(): advance next_write_index_ modulo store_.size(),
\* then num_elements_++.
UpdateWriteIndex ==
  /\ ppc = "written"
  /\ writeIdx' = (writeIdx + 1) % Capacity
  /\ count' = count + 1
  /\ ppc' = "idle"
  /\ UNCHANGED <<store, readIdx, cpc, nextPtr, pushed, out>>

(***************************************************************************)
(* The consumer: one iteration of the for loop of flushQueue().            *)
(***************************************************************************)

\* next = queue_.getNextToRead(); the loop condition queue_.size() && next
\* holds: next is &store_[next_read_index_].
GetNextToRead ==
  /\ cpc = "peek"
  /\ NextToReadAvailable
  /\ nextPtr' = readIdx
  /\ cpc' = "read"
  /\ UNCHANGED <<store, writeIdx, readIdx, count, ppc, pushed, out>>

\* getNextToRead() returns nullptr: the for loop ends, the consumer flushes
\* the file, sleeps and starts the loop again.  No state of the queue or of
\* the consumer changes.
GetNextToReadEmpty ==
  /\ cpc = "peek"
  /\ ~NextToReadAvailable
  /\ UNCHANGED vars

\* switch(next->type_) ... file_ << next->u_.x: read the element at next.
ReadElement ==
  /\ cpc = "read"
  /\ out' = Append(out, store[nextPtr])
  /\ cpc' = "update"
  /\ UNCHANGED <<store, writeIdx, readIdx, count, ppc, nextPtr, pushed>>

\* Bug variant of UpdateReadIndex: next_read_index_ is not advanced.
UpdateReadIndexNoAdvance ==
  /\ cpc = "update"
  /\ count # 0
  /\ count' = count - 1
  /\ cpc' = "peek"
  /\ UNCHANGED <<store, writeIdx, readIdx, ppc, nextPtr, pushed, out>>

\* queue_.updateReadIndex(): advance next_read_index_ modulo store_.size(),
\* ASSERT(num_elements_ != 0), num_elements_--.
UpdateReadIndex ==
  /\ cpc = "update"
  /\ count # 0
  /\ readIdx' = (readIdx + 1) % Capacity
  /\ count' = count - 1
  /\ cpc' = "peek"
  /\ UNCHANGED <<store, writeIdx, ppc, nextPtr, pushed, out>>

Init ==
  /\ QueueInit
  /\ ppc = "idle"
  /\ cpc = "peek"
  /\ nextPtr = 0
  /\ pushed = 0
  /\ out = <<>>

Producer == ProducerWrite \/ UpdateWriteIndex

Consumer == GetNextToRead \/ GetNextToReadEmpty \/ ReadElement \/ UpdateReadIndex

Next == Producer \/ Consumer

(***************************************************************************)
(* The consumer thread runs flushQueue() for as long as running_ is set,   *)
(* and running_ stays set while the queue is not empty (~Logger waits for  *)
(* size() == 0 before it clears it): its steps are weakly fair.  The       *)
(* producer is the application, which may stop pushing at any time, but   *)
(* once it has written a slot it goes on to updateWriteIndex(), the next   *)
(* statement of pushValue().                                               *)
(***************************************************************************)
Fairness == WF_vars(Consumer) /\ WF_vars(UpdateWriteIndex)

Spec == Init /\ [][Next]_vars /\ Fairness

-----------------------------------------------------------------------------
(***************************************************************************)
(* The queue the two threads see, as FifoQueue describes it.  An element   *)
(* is sent when updateWriteIndex() publishes it (a slot written but not    *)
(* yet published is not in the queue) and received when the consumer      *)
(* copies it out (it leaves the queue then, although num_elements_ is      *)
(* decremented only by the updateReadIndex() that follows).                *)
(***************************************************************************)

\* 1 while the producer has written a slot it has not yet published.
InFlight == IF ppc = "written" THEN 1 ELSE 0

\* 1 while the consumer has read the slot at next_read_index_ and not yet
\* released it.
Consumed == IF cpc = "update" THEN 1 ELSE 0

\* The published, unread elements, oldest first.
AbsQueue ==
  [i \in 1 .. count - Consumed |-> store[(readIdx + Consumed + i - 1) % Capacity]]

Fifo == INSTANCE FifoQueue WITH queue <- AbsQueue, sent <- pushed - InFlight, received <- out

-----------------------------------------------------------------------------

TypeOK ==
  /\ store \in [Slot -> Value]
  /\ writeIdx \in Slot
  /\ readIdx \in Slot
  /\ count \in 0 .. Capacity
  /\ ppc \in {"idle", "written"}
  /\ cpc \in {"peek", "read", "update"}
  /\ nextPtr \in Slot
  /\ pushed \in 0 .. MaxPush
  /\ out \in Seq(Value)

(***************************************************************************)
(* FIFO (spec 8, RingBuffer): the sequence the consumer reads is exactly   *)
(* a prefix of the sequence the producer pushed, 1, 2, 3, ...: no element  *)
(* is lost, read twice, read before it was written, or read out of order.  *)
(* Breaking it needs the two index/count updates of pushValue and of the   *)
(* flushQueue loop to disagree after the indices wrap around.              *)
(***************************************************************************)
ReadsInOrder == out = [i \in 1 .. Len(out) |-> i]

(***************************************************************************)
(* No data race on a slot (spec 5, SPSC discipline): the producer never    *)
(* copies an element into the slot the consumer's `next` points at while  *)
(* the consumer has not yet read it.                                       *)
(***************************************************************************)
NoDataRace == [][ProducerWrite => ~(cpc = "read" /\ nextPtr = writeIdx)]_vars

(***************************************************************************)
(* Every element pushed is eventually read by the flush loop (spec 4.3:    *)
(* the consumer drains everything available).                              *)
(***************************************************************************)
EveryPushRead == \A k \in 1 .. MaxPush : (pushed >= k) ~> (Len(out) >= k)

(***************************************************************************)
(* LFQueue implements a bounded FIFO queue (spec 4.2): every step of       *)
(* pushValue() and of the flushQueue() loop either sends the next element, *)
(* receives the oldest one, or leaves the queue as it was, and the         *)
(* consumer keeps receiving while elements are published -- whatever the  *)
(* interleaving of the two threads and the wrap-around of the indices.     *)
(***************************************************************************)
FifoRefinement == Fifo!Spec

=============================================================================
