---------------------------- MODULE LoggerProofs ----------------------------
(***************************************************************************)
(* Proofs about Logger, for every queue size and number of pushes.         *)
(*                                                                         *)
(* ShutdownLosesNothing is far from inductive: that the file holds every   *)
(* element once ~Logger() has closed it rests on the queue's own invariant *)
(* (LFQueueProofs' IInv, which holds here unchanged because the queue's    *)
(* steps are LFQueue's) and on how the destructor and the flush loop meet: *)
(* running_ is cleared only once the queue is empty and no push is under   *)
(* way, so the queue stays empty after it, and the thread joined has left  *)
(* its loop, after the last flush or with the close still to write out.    *)
(***************************************************************************)
EXTENDS Logger, SequenceTheorems, TLAPS

LQ == INSTANCE LFQueueProofs

\* How the application thread and the flush loop are placed with respect
\* to each other.
Shutdown ==
  /\ running <=> lpc \in {"logging", "draining"}
  /\ lpc # "logging" => ppc = "idle"
  /\ lpc \in {"joining", "closed"} => count = 0
  /\ cpc = "exited" => lpc \in {"joining", "closed"}
  /\ lpc = "closed" => cpc = "exited" /\ disk = out

LInv == TypeOK /\ LQ!IInv /\ Shutdown

USE CapacityAssumption, MaxPushAssumption

LEMMA InitLInv == Init => LInv
<1> SUFFICES ASSUME Init PROVE LInv
  OBVIOUS
<1>1. TypeOK
  BY DEF Init, Q!QueueInit, TypeOK, Q!Slot, Q!Value, Q!Default
<1>2. LQ!IInv
  BY <1>1 DEF Init, Q!QueueInit, LQ!IInv, LQ!QTypeOK, TypeOK, LQ!ReadsInOrder, LQ!Done,
              LQ!InFlight
<1>3. Shutdown
  BY DEF Init, Shutdown
<1>. QED  BY <1>1, <1>2, <1>3 DEF LInv

\* The queue's steps, taken by the Logger through Q, are the steps
\* LFQueueProofs reasons about.
LEMMA SameQueueSteps ==
  /\ Q!ProducerWrite = LQ!ProducerWrite
  /\ Q!UpdateWriteIndex = LQ!UpdateWriteIndex
  /\ Q!GetNextToRead = LQ!GetNextToRead
  /\ Q!ReadElement = LQ!ReadElement
  /\ Q!UpdateReadIndex = LQ!UpdateReadIndex
BY DEF Q!ProducerWrite, LQ!ProducerWrite, Q!UpdateWriteIndex, LQ!UpdateWriteIndex,
       Q!GetNextToRead, LQ!GetNextToRead, Q!NextToReadAvailable, LQ!NextToReadAvailable,
       Q!ReadElement, LQ!ReadElement, Q!UpdateReadIndex, LQ!UpdateReadIndex

\* pushValue(): the queue invariant is LFQueue's; the destructor has not
\* started, so Shutdown says nothing new.
LEMMA PushLInv ==
  ASSUME LInv, Push
  PROVE  LInv'
<1>1. LQ!IInv'
  BY SameQueueSteps, LQ!ProducerWriteIInv, LQ!UpdateWriteIndexIInv DEF LInv, Push
<1>2. TypeOK'
  BY <1>1 DEF LInv, Push, TypeOK, LQ!IInv, LQ!QTypeOK, Q!Slot, LQ!Slot, Q!Value, LQ!Value,
             Q!ProducerWrite, Q!UpdateWriteIndex
<1>3. Shutdown'
  BY DEF LInv, Push, Shutdown, Q!ProducerWrite, Q!UpdateWriteIndex
<1>. QED  BY <1>1, <1>2, <1>3 DEF LInv

\* Steps of the destructor: the queue does not move.
LEMMA ApplicationLInv ==
  ASSUME LInv, Destroy \/ DrainWait \/ StopRunning \/ JoinAndClose
  PROVE  LInv'
<1>1. UNCHANGED queueVars
  BY DEF Destroy, DrainWait, StopRunning, JoinAndClose, vars
<1>2. LQ!IInv'
  BY <1>1 DEF LInv, queueVars, LQ!IInv, LQ!QTypeOK, LQ!ReadsInOrder, LQ!Done, LQ!InFlight
<1>3. TypeOK' /\ Shutdown'
  <2>1. CASE Destroy
    BY <1>1, <2>1 DEF LInv, queueVars, TypeOK, Shutdown, Destroy
  <2>2. CASE DrainWait
    BY <1>1, <2>2 DEF LInv, queueVars, TypeOK, Shutdown, DrainWait, vars
  <2>3. CASE StopRunning
    <3>1. TypeOK'
      BY <1>1, <2>3 DEF LInv, queueVars, TypeOK, StopRunning
    <3>3. Shutdown'
      BY <1>1, <2>3 DEF LInv, queueVars, Shutdown, StopRunning
    <3>. QED  BY <3>1, <3>3
  <2>4. CASE JoinAndClose
    BY <1>1, <2>4 DEF LInv, queueVars, TypeOK, Shutdown, JoinAndClose
  <2>. QED  BY <2>1, <2>2, <2>3, <2>4
<1>. QED  BY <1>2, <1>3 DEF LInv

\* One iteration of the for loop, LFQueue's consumer.  Once running_ is
\* cleared the queue is empty, so the iteration cannot start then.
LEMMA DrainLInv ==
  ASSUME LInv, Drain
  PROVE  LInv'
<1>1. LQ!IInv'
  BY SameQueueSteps, LQ!GetNextToReadIInv, LQ!ReadElementIInv, LQ!UpdateReadIndexIInv
  DEF LInv, Drain
<1>2. lpc \in {"logging", "draining"}
  <2>1. cpc \in {"peek", "read", "update"} /\ count # 0
    BY DEF LInv, Drain, LQ!IInv, Q!GetNextToRead, Q!NextToReadAvailable, Q!ReadElement,
           Q!UpdateReadIndex
  <2>. QED  BY <2>1 DEF LInv, Shutdown, TypeOK
<1>3. TypeOK'
  BY <1>1 DEF LInv, Drain, TypeOK, LQ!IInv, LQ!QTypeOK, Q!Slot, LQ!Slot, Q!Value, LQ!Value,
             Q!GetNextToRead, Q!ReadElement, Q!UpdateReadIndex
<1>4. Shutdown'
  BY <1>2 DEF LInv, Drain, Shutdown, Q!GetNextToRead, Q!ReadElement, Q!UpdateReadIndex
<1>. QED  BY <1>1, <1>3, <1>4 DEF LInv

\* The rest of flushQueue(): the test of running_, the end of the for loop,
\* the flush and the sleep move only cpc, and never to or from a state
\* that holds `next`.
LEMMA LoopLInv ==
  ASSUME LInv, CheckRunning \/ LoopEnd \/ FlushAndSleep
  PROVE  LInv'
<1>1. /\ UNCHANGED <<store, writeIdx, readIdx, count, ppc, nextPtr, pushed, out>>
      /\ cpc \notin {"read", "update"} /\ cpc' \notin {"read", "update"}
  BY DEF CheckRunning, LoopEnd, FlushAndSleep
<1>2. LQ!IInv'
  BY <1>1 DEF LInv, LQ!IInv, LQ!QTypeOK, LQ!ReadsInOrder, LQ!Done, LQ!InFlight
<1>3. TypeOK'
  BY <1>1 DEF LInv, TypeOK, CheckRunning, LoopEnd, FlushAndSleep
<1>4. Shutdown'
  BY <1>1 DEF LInv, Shutdown, TypeOK, CheckRunning, LoopEnd, FlushAndSleep
<1>. QED  BY <1>2, <1>3, <1>4 DEF LInv

LEMMA NextLInv == LInv /\ [Next]_vars => LInv'
<1> SUFFICES ASSUME LInv, [Next]_vars PROVE LInv'
  OBVIOUS
<1>1. CASE Push
  BY <1>1, PushLInv
<1>2. CASE Destroy \/ DrainWait \/ StopRunning \/ JoinAndClose
  BY <1>2, ApplicationLInv
<1>3. CASE Drain
  BY <1>3, DrainLInv
<1>4. CASE CheckRunning \/ LoopEnd \/ FlushAndSleep
  BY <1>4, LoopLInv
<1>5. CASE UNCHANGED vars
  BY <1>5 DEF vars, queueVars, LInv, TypeOK, Shutdown, LQ!IInv, LQ!QTypeOK, LQ!ReadsInOrder,
             LQ!Done, LQ!InFlight
<1>. QED
  BY <1>1, <1>2, <1>3, <1>4, <1>5 DEF Next, Application, LoggerThread

LEMMA LInvSpec == Spec => []LInv
BY InitLInv, NextLInv, PTL DEF Spec

-----------------------------------------------------------------------------

(***************************************************************************)
(* The Logger's state stays well formed for every queue size, whatever the *)
(* interleaving of pushValue(), ~Logger() and the flushQueue() loop.       *)
(***************************************************************************)
THEOREM LoggerTypeCorrect == Spec => []TypeOK
BY LInvSpec, PTL DEF LInv

(***************************************************************************)
(* Orderly shutdown for every queue size and number of pushes: once        *)
(* ~Logger() has closed the file, the file holds every element pushValue() *)
(* pushed, once each and in push order, wherever the logger thread was in *)
(* its loop when the destructor cleared running_.                          *)
(***************************************************************************)
THEOREM NothingLostOnShutdown == Spec => []ShutdownLosesNothing
<1>1. LInv => ShutdownLosesNothing
  <2>. SUFFICES ASSUME LInv, lpc = "closed" PROVE disk = [i \in 1 .. pushed |-> i]
    BY DEF ShutdownLosesNothing
  <2>1. /\ disk = out /\ cpc = "exited" /\ count = 0 /\ ppc = "idle"
    BY DEF LInv, Shutdown
  <2>2. /\ out = [i \in 1 .. Len(out) |-> i]
        /\ pushed = LQ!Done + count + LQ!InFlight
    BY DEF LInv, LQ!IInv, LQ!ReadsInOrder
  <2>3. pushed = Len(out)
    BY <2>1, <2>2 DEF LQ!Done, LQ!InFlight
  <2>. QED  BY <2>1, <2>2, <2>3
<1>. QED  BY <1>1, LInvSpec, PTL


-----------------------------------------------------------------------------
(***************************************************************************)
(* The Logger implements LogFile, with logged <- pushed - InFlight (the    *)
(* elements updateWriteIndex() has published), written <- out and closed  *)
(* <- lpc = "closed".  updateWriteIndex() is a Log, reading an element     *)
(* into file_ a Write, file_.flush() a Sync and the join and file_.close() *)
(* the Close; every other step stutters.  The Write takes the element      *)
(* numbered Len(out) + 1 because the queue hands elements out in order     *)
(* (LQ!IInv, ReadsInOrder after the step); the Close finds every published *)
(* element written because Shutdown empties the queue before running_ is  *)
(* cleared and the joined thread has left its loop.                        *)
(***************************************************************************)

LEMMA InitFile == Init => File!Init
BY DEF Init, File!Init, Q!InFlight

\* pushValue(): copying the element changes nothing LogFile sees; publishing
\* it is a Log.
LEMMA PushFile ==
  ASSUME LInv, Push
  PROVE  [File!Next]_File!vars
<1>1. pushed \in Nat /\ lpc = "logging" /\ UNCHANGED <<out, disk, lpc>>
  BY DEF LInv, TypeOK, Push, Q!ProducerWrite, Q!UpdateWriteIndex
<1>2. CASE Q!ProducerWrite
  <2>1. pushed' - Q!InFlight' = pushed - Q!InFlight
    BY <1>1, <1>2 DEF Q!ProducerWrite, Q!InFlight
  <2>. QED  BY <1>1, <2>1 DEF File!vars
<1>3. CASE Q!UpdateWriteIndex
  <2>1. pushed' - Q!InFlight' = (pushed - Q!InFlight) + 1
    BY <1>1, <1>3 DEF LInv, LQ!IInv, LQ!Done, Q!UpdateWriteIndex, Q!InFlight
  <2>. QED  BY <1>1, <2>1 DEF File!Next, File!Log
<1>. QED  BY <1>2, <1>3 DEF Push

\* One iteration of the for loop: only reading the element into file_ is
\* seen, and it writes the next element in order.
LEMMA DrainFile ==
  ASSUME LInv, Drain
  PROVE  [File!Next]_File!vars
<1>1. UNCHANGED <<pushed, ppc, disk, lpc>>
  BY DEF Drain, Q!GetNextToRead, Q!ReadElement, Q!UpdateReadIndex
<1>2. CASE Q!GetNextToRead \/ Q!UpdateReadIndex
  <2>1. out' = out
    BY <1>2 DEF Q!GetNextToRead, Q!UpdateReadIndex
  <2>. QED  BY <1>1, <2>1 DEF File!vars, Q!InFlight
<1>3. CASE Q!ReadElement
  <2>1. /\ out \in Seq(Q!Value) /\ pushed \in Nat
        /\ count \in Nat /\ count # 0 /\ LQ!Done = Len(out)
        /\ pushed = LQ!Done + count + LQ!InFlight
    BY <1>3 DEF LInv, TypeOK, LQ!IInv, LQ!Done, Q!ReadElement
  <2>2. Len(out) < pushed - Q!InFlight
    BY <2>1 DEF LQ!InFlight, Q!InFlight
  <2>3. out' = Append(out, store[nextPtr])
    BY <1>3 DEF Q!ReadElement
  <2>4. out' = [i \in 1 .. Len(out') |-> i]
    BY <1>3, DrainLInv DEF LInv, LQ!IInv, LQ!ReadsInOrder
  <2>5. store[nextPtr] = Len(out) + 1
    <3>1. Len(out') = Len(out) + 1 /\ out'[Len(out) + 1] = store[nextPtr]
      BY <2>1, <2>3, AppendProperties
    <3>. QED  BY <2>1, <2>4, <3>1
  <2>6. out' = Append(out, Len(out) + 1)
    BY <2>3, <2>5
  <2>7. pushed' - Q!InFlight' = pushed - Q!InFlight
    BY <1>1 DEF Q!InFlight
  <2>. QED  BY <1>1, <2>2, <2>6, <2>7 DEF File!Next, File!Write
<1>. QED  BY <1>2, <1>3 DEF Drain

\* The rest of flushQueue(): file_.flush() is a Sync.
LEMMA LoopFile ==
  ASSUME CheckRunning \/ LoopEnd \/ FlushAndSleep
  PROVE  [File!Next]_File!vars
<1>1. UNCHANGED <<pushed, ppc, out, lpc>>
  BY DEF CheckRunning, LoopEnd, FlushAndSleep
<1>2. CASE CheckRunning \/ LoopEnd
  BY <1>1, <1>2 DEF CheckRunning, LoopEnd, File!vars, Q!InFlight
<1>3. CASE FlushAndSleep
  BY <1>1, <1>3 DEF FlushAndSleep, File!Next, File!Sync, Q!InFlight
<1>. QED  BY <1>2, <1>3

\* ~Logger(): only the join and file_.close() are seen, and they find
\* every published element written.
LEMMA ApplicationFile ==
  ASSUME LInv, Destroy \/ DrainWait \/ StopRunning \/ JoinAndClose
  PROVE  [File!Next]_File!vars
<1>1. UNCHANGED <<pushed, ppc, out>>
  BY DEF Destroy, DrainWait, StopRunning, JoinAndClose, vars, queueVars
<1>2. CASE Destroy \/ DrainWait \/ StopRunning
  <2>1. UNCHANGED disk /\ lpc # "closed" /\ lpc' # "closed"
    BY <1>2 DEF Destroy, DrainWait, StopRunning, vars
  <2>. QED  BY <1>1, <2>1 DEF File!vars, Q!InFlight
<1>3. CASE JoinAndClose
  <2>1. /\ lpc = "joining" /\ lpc' = "closed" /\ disk' = out
        /\ cpc = "exited"
    BY <1>3 DEF JoinAndClose
  <2>2. /\ ppc = "idle" /\ count = 0
        /\ pushed = LQ!Done + count + LQ!InFlight
        /\ out \in Seq(Q!Value)
    BY <2>1 DEF LInv, Shutdown, LQ!IInv, TypeOK
  <2>3. Len(out) = pushed - Q!InFlight
    BY <2>1, <2>2 DEF LQ!Done, LQ!InFlight, Q!InFlight
  <2>. QED  BY <1>1, <2>1, <2>3 DEF File!Next, File!Close, Q!InFlight
<1>. QED  BY <1>2, <1>3

LEMMA NextFile == LInv /\ [Next]_vars => [File!Next]_File!vars
<1> SUFFICES ASSUME LInv, [Next]_vars PROVE [File!Next]_File!vars
  OBVIOUS
<1>1. CASE UNCHANGED vars
  BY <1>1 DEF vars, queueVars, File!vars, Q!InFlight
<1>. QED
  BY <1>1, PushFile, DrainFile, LoopFile, ApplicationFile DEF Next, Application, LoggerThread

(***************************************************************************)
(* For every queue size and number of pushes, the Logger implements        *)
(* LogFile: each element pushValue() publishes reaches file_ once and in   *)
(* push order, the file on disk is always a prefix of what was published,  *)
(* and ~Logger() closes the file only once every published element is     *)
(* written, whatever the interleaving of the two threads.                  *)
(***************************************************************************)
THEOREM FileRefinementThm == Spec => FileRefinement
<1>1. Spec => File!Init
  BY InitFile, PTL DEF Spec
<1>2. []LInv /\ [][Next]_vars => [][File!Next]_File!vars
  BY NextFile, PTL
<1>. QED  BY <1>1, <1>2, LInvSpec, PTL DEF Spec, FileRefinement, File!Spec

====
