------------------------------- MODULE Logger -------------------------------
(***************************************************************************)
(* Common::Logger (src/unnamed/part_004): an LFQueue<LogElement> between   *)
(* the application thread, which pushes elements and finally destroys the  *)
(* Logger, and the logger thread, which runs flushQueue() while running_   *)
(* is set.                                                                 *)
(*                                                                         *)
(* The queue's steps are those of LFQueue, taken through INSTANCE.  The    *)
(* logger thread adds to them the test of running_, the end of the for     *)
(* loop and the file_.flush() + sleep that follow it; the application      *)
(* thread adds the destructor: wait until size() is 0, clear running_,     *)
(* join the logger thread, close the file.  `out` is what the logger       *)
(* thread has written into file_'s buffer and `disk` what has reached the  *)
(* file.                                                                   *)
(***************************************************************************)
EXTENDS Naturals, Sequences

CONSTANTS Capacity, MaxPush

ASSUME CapacityAssumption == Capacity \in Nat \ {0}
ASSUME MaxPushAssumption == MaxPush \in Nat

VARIABLES
  store, writeIdx, readIdx, count, ppc, cpc, nextPtr, pushed, out,
  running,    \* running_
  lpc,        \* application thread: "logging", "draining" (in ~Logger's wait
              \* loop), "joining" (running_ cleared), "closed" (file_ closed)
  disk        \* the contents of the log file on disk

Q == INSTANCE LFQueue

queueVars == <<store, writeIdx, readIdx, count, ppc, cpc, nextPtr, pushed, out>>

vars == <<queueVars, running, lpc, disk>>

\* Logger(file_name): the queue is constructed, file_ opened, running_ set,
\* and the thread started at the top of flushQueue().
Init ==
  /\ Q!QueueInit
  /\ ppc = "idle"
  /\ cpc = "check"
  /\ nextPtr = 0
  /\ pushed = 0
  /\ out = <<>>
  /\ running = TRUE
  /\ lpc = "logging"
  /\ disk = <<>>

(***************************************************************************)
(* The application thread.                                                 *)
(***************************************************************************)

\* pushValue(const LogElement &), either of its two statements.
Push ==
  /\ lpc = "logging"
  /\ Q!ProducerWrite \/ Q!UpdateWriteIndex
  /\ UNCHANGED <<running, lpc, disk>>

\* ~Logger() is entered between two calls of pushValue().
Destroy ==
  /\ lpc = "logging"
  /\ ppc = "idle"
  /\ lpc' = "draining"
  /\ UNCHANGED <<queueVars, running, disk>>

\* while(queue_.size()) sleep_for(1s): one test that finds the queue not
\* empty.  Nothing changes.
DrainWait ==
  /\ lpc = "draining"
  /\ count # 0
  /\ UNCHANGED vars

\* Bug variant of StopRunning: running_ cleared without waiting for the
\* queue to drain.
StopRunningEarly ==
  /\ lpc = "draining"
  /\ running' = FALSE
  /\ lpc' = "joining"
  /\ UNCHANGED <<queueVars, disk>>

\* The wait loop finds size() == 0; running_ = false.
StopRunning ==
  /\ lpc = "draining"
  /\ count = 0
  /\ running' = FALSE
  /\ lpc' = "joining"
  /\ UNCHANGED <<queueVars, disk>>

\* logger_thread_->join() returns once flushQueue() has returned;
\* file_.close() writes what file_ still buffers.
JoinAndClose ==
  /\ lpc = "joining"
  /\ cpc = "exited"
  /\ lpc' = "closed"
  /\ disk' = out
  /\ UNCHANGED <<queueVars, running>>

(***************************************************************************)
(* The logger thread: flushQueue().                                        *)
(***************************************************************************)

\* Bug variant of CheckRunning: the loop never looks at running_.
CheckRunningForever ==
  /\ cpc = "check"
  /\ cpc' = "peek"
  /\ UNCHANGED <<store, writeIdx, readIdx, count, ppc, nextPtr, pushed, out, running, lpc, disk>>

\* while(running_): enter the body, or return from flushQueue().
CheckRunning ==
  /\ cpc = "check"
  /\ cpc' = IF running THEN "peek" ELSE "exited"
  /\ UNCHANGED <<store, writeIdx, readIdx, count, ppc, nextPtr, pushed, out, running, lpc, disk>>

\* One iteration of the for loop: getNextToRead(), read *next into file_,
\* updateReadIndex().
Drain ==
  /\ Q!GetNextToRead \/ Q!ReadElement \/ Q!UpdateReadIndex
  /\ UNCHANGED <<running, lpc, disk>>

\* getNextToRead() returns nullptr: the for loop ends.
LoopEnd ==
  /\ cpc = "peek"
  /\ ~Q!NextToReadAvailable
  /\ cpc' = "flush"
  /\ UNCHANGED <<store, writeIdx, readIdx, count, ppc, nextPtr, pushed, out, running, lpc, disk>>

\* file_.flush(); sleep_for(10ms); back to the test of running_.
FlushAndSleep ==
  /\ cpc = "flush"
  /\ disk' = out
  /\ cpc' = "check"
  /\ UNCHANGED <<store, writeIdx, readIdx, count, ppc, nextPtr, pushed, out, running, lpc>>

Application == Push \/ Destroy \/ DrainWait \/ StopRunning \/ JoinAndClose

LoggerThread == CheckRunning \/ Drain \/ LoopEnd \/ FlushAndSleep

Next == Application \/ LoggerThread

(***************************************************************************)
(* The logger thread is never stopped before running_ is cleared, and its  *)
(* only wait is a 10 ms sleep: its steps are weakly fair.  The application *)
(* may stop pushing and never destroy the Logger, but once in ~Logger() it *)
(* runs to the end of it (its waits are sleeps and a join), and a push it  *)
(* has started reaches updateWriteIndex().                                 *)
(***************************************************************************)
Fairness ==
  /\ WF_vars(LoggerThread)
  /\ WF_vars(Q!UpdateWriteIndex /\ UNCHANGED <<running, lpc, disk>>)
  /\ WF_vars(StopRunning)
  /\ WF_vars(JoinAndClose)

Spec == Init /\ [][Next]_vars /\ Fairness

-----------------------------------------------------------------------------

TypeOK ==
  /\ store \in [Q!Slot -> Q!Value]
  /\ writeIdx \in Q!Slot
  /\ readIdx \in Q!Slot
  /\ count \in 0 .. Capacity
  /\ ppc \in {"idle", "written"}
  /\ cpc \in {"check", "peek", "read", "update", "flush", "exited"}
  /\ nextPtr \in Q!Slot
  /\ pushed \in 0 .. MaxPush
  /\ out \in Seq(Q!Value)
  /\ running \in BOOLEAN
  /\ lpc \in {"logging", "draining", "joining", "closed"}
  /\ disk \in Seq(Q!Value)

File == INSTANCE LogFile WITH logged <- pushed - Q!InFlight, written <- out,
                              closed <- (lpc = "closed")

(***************************************************************************)
(* Spec 4.3 and 8: the Logger implements LogFile -- each element           *)
(* pushValue() publishes reaches the file's buffer once and in push        *)
(* order, file_.flush() and file_.close() write out only that buffer, and  *)
(* ~Logger() closes the file only once every published element is         *)
(* written, wherever the logger thread was when running_ was cleared.      *)
(***************************************************************************)
FileRefinement == File!Spec

(***************************************************************************)
(* Spec 4.3 and 8, orderly shutdown: once ~Logger() has closed the file,   *)
(* the file holds every element pushValue() pushed, exactly once and in    *)
(* push order -- although the logger thread may be anywhere in its loop    *)
(* when the destructor clears running_.                                    *)
(***************************************************************************)
ShutdownLosesNothing ==
  lpc = "closed" => disk = [i \in 1 .. pushed |-> i]

(***************************************************************************)
(* ~Logger() returns: the wait for the queue to drain and the join of the  *)
(* logger thread both end.                                                 *)
(***************************************************************************)
ShutdownCompletes == (lpc = "draining") ~> (lpc = "closed")

=============================================================================
