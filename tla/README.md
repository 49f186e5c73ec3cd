# Formal models of jdakrofi/Sockets

This directory holds TLA+ models of the low-latency networking library in
`src/`, TLC configurations that check them on small instances, and TLAPS
proofs of the main safety properties of the lock-free queue, the memory pool,
the Logger, the multicast socket, `createSocket()` and the TCP server. The
lock-free queue, the Logger, the multicast send path and the TCP server are
also shown to implement abstract specifications.
`PROJECT.json` lists:

- every component;
- every run, with the properties it checks;
- the mutants that show each property can fail;
- the source lines each definition models (`map`);
- the findings;
- the hazards;
- the theorems.

## 1. The system

| Part | Source | What it does |
|---|---|---|
| `LFQueue<T>` | `src/lf_queue.h` | A ring buffer of `num_elems` slots, shared by one producer thread and one consumer thread. They synchronise only through the atomics `next_write_index_`, `next_read_index_` and `num_elements_`. There is no full check: the caller must size the queue so that it never fills. |
| `MemPool<T>` | `src/unnamed/part_001` | A vector of `ObjectBlock{T, is_free_}`. `allocate()` hands out the block at `next_free_index_`, then scans forward circularly to the next free block, and ASSERTs "out of space" when the scan comes back to its start. `deallocate()` ASSERTs that the pointer is in range and the block is in use, then frees it. |
| `Logger` | `src/unnamed/part_004` | It owns an `LFQueue<LogElement>` and a background thread running `flushQueue()`, which copies queued elements into `file_` while `running_` is set. `log(fmt, args...)` pushes the format one character at a time, with `%` replaced by the next argument and `%%` by a literal `%`. It calls `FATAL` on extra or missing arguments. `~Logger()` waits for the queue to drain, clears `running_`, joins the thread and closes the file. |
| Socket utilities | `src/macros.h` | `ASSERT` and `FATAL`, which print and `exit()`. `SocketCfg`. The option setters. `createSocket()`, which resolves the address, creates the descriptor and applies the options the configuration asks for, ASSERTing each call. |
| `McastSocket` | `src/unnamed/part_000`, `part_003` | A UDP socket with a 64 MiB outbound buffer and a 64 MiB inbound buffer. `send()` appends bytes to the outbound buffer. `sendAndRecv()` receives into the inbound buffer, calls `recv_callback_`, and then sends the outbound buffer in one non-blocking `::send`. |
| `TCPServer` | `src/tcp_server.cpp`, `tcp_server.h` | A listener socket and the accepted `TCPSocket`s, multiplexed through one kqueue. `poll()` collects read events, sets `have_new_connection` for the listener, and accepts connections in a loop. `sendAndRecv()` calls each receive socket's `sendAndRecv()`, then `recv_finished_callback_`. |
| `TCPSocket` | `src/tcp_socket.h` | Declaration only. `tcp_socket.cpp` is not in the repository. |
| Thread utilities | `src/unnamed/part_002` | macOS shims for `cpu_set_t` and thread affinity. |
| Time utilities | `src/time_utils.h` | The clock as nanoseconds or as a string. |

How the parts interact:

- The Logger is the only client of the LFQueue. The application thread is the producer; the Logger thread is the consumer.
- `TCPServer` and `McastSocket` log through a `Logger`.
- `McastSocket::init` and `TCPSocket::connect` create their descriptors with `createSocket()`.
- `TCPServer::listen` opens its listener through `TCPSocket::connect(..., true)`.
- The application calls `poll()` and `sendAndRecv()` (TCP) or `sendAndRecv()` (multicast) in a loop on one thread.

Several files contain typos that stop them compiling as written:

- `atomix` and `next_read_index` in `lf_queue.h`;
- `next_free_index`, `is_free` and `MemePool` in part_001;
- `recv | =` in `tcp_server.cpp:26`.

The models follow the evident intent: the names the surrounding code declares, and the `|=` operator.

## 2. Modules and how they correspond to the code

**`LFQueue`**
- State: `store_`, the three indices, and the program counter and `next` pointer of each thread. `pushed` and `out` record the producer's and the consumer's history.
- One step is one access to shared state:
  - `ProducerWrite` is `*getNextToWrite() = e`;
  - `UpdateWriteIndex`;
  - `GetNextToRead` and `GetNextToReadEmpty` are the for-loop test of `flushQueue()`;
  - `ReadElement` is the switch that copies `*next` into the file;
  - `UpdateReadIndex`.
- Each index is written by one thread only, so each index update is merged with the `num_elements_` update that follows it.
- The k-th element pushed carries the value k, so `out` shows any loss, duplication or reordering.
- Owner's contract: the producer never writes into a full queue (`count < Capacity`). The code leaves this to the caller.
- `AbsQueue` is the ring read as a sequence: the `count` published slots from `readIdx`, then the slot `ProducerWrite` filled if the producer has not yet published it. `InFlight` (0 or 1) counts that slot.

**`FifoQueue`**
- What `LFQueue` promises its two threads: a bounded FIFO queue with `Send` (while fewer than `Capacity` elements are queued) and `Receive` (the oldest one). Nothing about slots or indices.
- `LFQueue` implements it under the mapping `queue <- AbsQueue`, `sent <- pushed - InFlight`, `received <- out`. `ProducerWrite`, `GetNextToRead` and `UpdateReadIndex` are stutters of the abstract queue. `UpdateWriteIndex` is a `Send`, and `ReadElement` is a `Receive`.

**`MemPool`**
- State: `is_free_` per block, `next_free_index_`, the handle each holder holds, and `status`: running or the ASSERT that ended the process.
- `FreeOffsets` and `LeastOffset` give the distance the scan of `updateNextFreeIndex()` walks.
- Actions: `Allocate`, `AllocateOutOfSpace` (the last free block, where the scan's ASSERT fires), `Deallocate`, and `DeallocateInvalid` (a foreign pointer or a double free).

**`Logger`**
- Takes the queue's steps through `INSTANCE LFQueue`.
- Adds the rest of `flushQueue()`:
  - `CheckRunning` tests `while(running_)`;
  - `Drain` is one for-loop iteration;
  - `LoopEnd` is the loop ending when `getNextToRead()` returns null;
  - `FlushAndSleep` is `file_.flush()` and the sleep.
- Adds the destructor:
  - `Destroy` enters it;
  - `DrainWait` is one `while(queue_.size())` test;
  - `StopRunning` is `running_ = false`;
  - `JoinAndClose` is the join and `file_.close()`.
- `out` is what the thread wrote into `file_`'s buffer; `disk` is what reached the file.

**`LogFile`**
- What the `Logger` promises the application, with no queue and no thread. `Log` hands over the next element. `Write` appends the oldest element not yet written to the file's buffer. `Sync` makes the file on disk what the buffer holds. `Close` happens only once every element handed over is written, and nothing is logged after it.
- `Logger` implements it under `logged <- pushed - InFlight` (the elements `updateWriteIndex()` has published), `written <- out`, `closed <- lpc = "closed"` (`FileRefinement`). `UpdateWriteIndex` is a `Log`, `ReadElement` a `Write`, `FlushAndSleep` a `Sync`, and `JoinAndClose` the `Close`. Every other step is a stutter.

**`LogFormat`**
- `LogArgs`, `LogNoArgs` and `Log` are the two `log()` overloads, written as recursive operators over formats from `{"%", "c"}*`, where `"c"` is any other character.
- The arguments are distinct model values.
- The result is the sequence of elements pushed and the FATAL, if any.
- The reference (`Tokens`, `Expected`) reads spec 4.3 as a tokenizer.

**`McastSocket`**
- State: both indices, the bytes appended, the bytes the kernel accepted (`wire`), the bytes pending at the receiver, `phase` within `sendAndRecv()`, `status`, and `overrun` (a write past the buffer).
- Actions:
  - `Send(len)` is `send()`: memcpy, advance the index, then the ASSERT;
  - `Recv` is the `recv` into the remaining space;
  - `CallbackReturn`: the callback consumes a prefix of the inbound buffer, and may call `send()` first;
  - `SendPending` is the `::send` of any prefix followed by the reset. With no open descriptor, `::send` fails and sends nothing, but the reset still happens;
  - `Arrive` is the network. It delivers only once the socket has joined the group;
  - `InitSocket` is `init()`: a new descriptor from `createSocket()`. The buffers' indices are kept;
  - `Join` is `join()`: an `IP_ADD_MEMBERSHIP` that the kernel may refuse, and whose result the code ignores;
  - `Leave` is `leave()`: `close()` of the descriptor, with `socket_fd_ = -1`. The buffers' indices are kept.
- `fd` and `joined` are the descriptor and the group membership.

**`OutboundStream`**
- What the send path of `McastSocket` does to the bytes `send()` is given, with no buffer and no index: `queued` bytes given, `flushed` bytes handed to the kernel, and the `wire`.
- `Queue` is `send()`. `Flush` puts the first k of the bytes after `flushed` on the wire, and counts all of them as flushed. The loss of a partial send is part of this specification.
- `McastSocket` implements it under `queued <- appended`, `flushed <- appended - sendIdx` (`OutboundRefinement`). `Send` is a `Queue`, `SendPending` a `Flush`, and every other step is a stutter.

**`ServerStreams`**
- What `TCPServer` promises its clients, with no kqueue and no event loop: `Connect`, `Accept` (of a connected, not yet accepted connection), `Send`, and `Deliver`, which brings what the server has read of an accepted connection up to what its client sent.
- `TCPServer` implements it under `connected <- backlog \cup accepted` (`StreamsRefinement`). `ClientConnect` is a `Connect`, `Accept` (either branch) an `Accept`, `ClientSend` a `Send`, and `SocketSendAndRecv` a `Deliver`. The kqueue's and the event loop's steps are stutters.

**`SocketSetup`**
- One behaviour is one call of `createSocket()` for a configuration chosen in `Init` (udp / listening / timestamp). Each system call is one step, in the order of the code.
- The kernel may refuse the calls it can refuse; that sets `envFailed`.
- `connect()` of a client socket may succeed, be in progress (a non-blocking stream socket), or fail (`sock.conn = "refused"`). The ASSERT never fires, so the step goes on either way.
- `listen()` on a datagram socket always fails (EOPNOTSUPP). On a stream socket it may fail for reasons of the kernel, and the ASSERT ends the process.
- `listen()` on an unbound stream socket auto-binds it to an ephemeral port (POSIX).

**`TCPServer`**
- The kqueue is modelled by what the code asks of it. Every registration is `EVFILT_READ | EV_CLEAR`, so a registered socket has at most one pending event. The event is raised by a connection or by bytes, and cleared when `kevent()` returns it. At most `max_events` events are returned per call.
- Actions:
  - `Listen`;
  - `Poll` is the `kevent` call, which blocks until an event is pending;
  - `HandleEvent` is one iteration of the event loop;
  - `EventsDone`;
  - `Accept` is one successful `accept()`, including its registration;
  - `AcceptDone` is `accept()` returning -1, or `have_new_connection` being false;
  - `SocketSendAndRecv` is one iteration of the `for_each` of `sendAndRecv()`;
  - `TickEnd`.
- `ClientConnect` and `ClientSend` are the clients.
- `EV_CLEAR` reports each readiness once, so bytes that arrive before a socket is registered raise no event. `EveryByteReceived` still holds, because every tick's `sendAndRecv()` reads every socket in `receive_sockets_`, the one just accepted included, whether or not it has an event.
- `EVFILT_WRITE` is never registered and `poll()` passes no changelist, so the `EVFILT_WRITE` and `EV_ERROR` branches are unreachable and `send_sockets_` stays empty. The model keeps them out for that reason.

ASSERT and FATAL end the process: an aborted state has no successor. That is why the configurations of the modules with ASSERTs say `CHECK_DEADLOCK FALSE`. The Logger's configuration says it too, because its behaviour ends when `~Logger()` returns.

## 3. Runs

| Run | Expect | What it shows |
|---|---|---|
| `lfqueue_spsc` | pass | Under every interleaving, the consumer reads 1..n in order exactly once (`ReadsInOrder`). The producer never writes the slot the consumer is reading (`NoDataRace`, an action property). Every push is eventually read (`EveryPushRead`). The queue implements `FifoQueue`, fairness included (`FifoRefinement`). Capacity 3, 9 pushes: enough to wrap the ring three times and fill it. |
| `mempool` | pass | The cursor always rests on a free block (`NextFreeIsFree`), and no block is held twice (`ExclusiveOwnership`), over all allocate/deallocate sequences of 5 holders on a pool of 5. Holder symmetry is used. |
| `mempool_last_slot` | violation | **Finding.** Allocating the last free block ends the process. The scan of `updateNextFreeIndex()` runs after the block is marked used, finds nothing free, and ASSERTs (part_001:50-51). |
| `logger_shutdown` | pass | Once `~Logger()` has closed the file, the file holds every element in push order (`ShutdownLosesNothing`), and the destructor always returns (`ShutdownCompletes`). At every step the Logger implements `LogFile` (`FileRefinement`). Capacity 3, 5 pushes. |
| `log_format` | pass | For every format up to 5 characters and 0-3 arguments, `log()` pushes the format with its placeholders filled, or ends in the right FATAL (`LogMatchesSpec`). |
| `mcast_socket` | pass | Nothing reaches the wire twice or out of order, even when the callback appends during `sendAndRecv()`, and across `leave()` and a new `init()` (`NoDuplicateTransmission`). `recv` never writes past the inbound buffer (`TypeOK`). The send path implements `OutboundStream` (`OutboundRefinement`): every byte is handed to `::send` exactly once, and a partial send drops the rest of that tick's bytes. Buffer of 4 bytes, sends of 1-3, 6 bytes each way. |
| `mcast_send_overrun` | violation | **Finding.** `send(2); send(3)` on a 4-byte buffer (the shortest trace; TLC with several workers may print a longer one such as `send(1); send(1); send(3)`): the memcpy writes past the end before the ASSERT (part_000:39-41). |
| `socket_setup_connect_refused` | violation | **Finding.** A client socket whose `connect()` failed is returned: the ASSERT tests `connect(...) != 1`, and `connect()` returns 0 or -1 (macros.h:435). The comment above it (macros.h:432-433) says a failed `connect()` ends the program (`ConnectFailureEnds`). |
| `socket_setup_unbound` | violation | **Finding.** No `bind()`: a listening TCP socket is on an ephemeral port, not on `port_` (macros.h:455). |
| `socket_setup_udp_listen` | violation | **Finding.** A listening UDP configuration (`McastSocket::init(..., true)`) calls `listen()`, which fails, and the ASSERT ends the process (macros.h:454-456). |
| `tcp_server` | pass | Every connection queued when a `poll()` starts is in `receive_sockets_` when that `poll()` returns (`AcceptedBeforePollReturns`). Every byte a client sends is eventually read unless the process aborted (`EveryByteReceived`). The server implements `ServerStreams` (`StreamsRefinement`): each connection is accepted once, only accepted sockets are read, and each read is exact. Two clients, 2 bytes each. |
| `tcp_server_reg_fail` | violation | **Finding.** If kqueue refuses the listener, `addToEpollList()` still returns true (`kevent(...) != 1`), and the ASSERT at tcp_server.cpp:18 does not fire. No event ever comes for a connecting client, so the reactor waits in `kevent()` forever while the client's bytes wait unread: `EveryByteReceived` fails as a liveness property (tcp_server.cpp:8, 18). |

Each property of a passing run has a mutant in `PROJECT.json`: a plausible bug in the mapped code that TLC then catches. Examples:

- the write index not wrapped;
- the read index not advanced;
- the MemPool scan skipped;
- `running_` cleared before the queue drains;
- the `%%` escape forgotten;
- the outbound index kept after a partial send;
- a new socket not put in `receive_sockets_`.

### Bounds

Each bound is the smallest that makes the interesting case happen:

- the queue wraps and fills;
- the pool reaches its last block;
- sends straddle the buffer end (2+3 > 4);
- the multicast callback appends while bytes are outstanding;
- two TCP clients compete for `max_events`, which starts at 1;
- formats contain `%%`, placeholders and a trailing `%`.

### Fairness

- **Logger.** The logger thread only ever waits in a 10 ms sleep, so it is weakly fair. The application may stop pushing and never destroy the Logger. Once it is inside `~Logger()`, it runs on: it only sleeps and joins. A push it has begun completes its `updateWriteIndex()`.
- **LFQueue.** The same reasoning gives weak fairness for the consumer and for `updateWriteIndex`.
- **TCPServer.** `poll()` passes `{0}` as the `timespec*` of `kevent()` (tcp_server.cpp:39), which is a null pointer, not a zero timeout, so `kevent()` blocks until an event is pending. `Poll` models that wait by its guard `evPending # {}`. The reactor's steps are weakly fair: WF makes a thread take a step that stays enabled, and a blocked `kevent()` is not enabled. Clients get no fairness: they may stop.
- **FifoQueue.** The abstract `Receive` is weakly fair. The consumer's weak fairness implies it.
- **McastSocket, SocketSetup, MemPool.** Only safety is checked, and no fairness is assumed.

## 4. Proofs

`LFQueueProofs` proves, for every `Capacity` in `Nat \ {0}` and every `MaxPush` in `Nat`:

- `TypeCorrect`: `Spec => []TypeOK`;
- `FifoOrder`: `Spec => []ReadsInOrder`;
- `NoDataRaceThm`: `Spec => NoDataRace`, the action property checked by `lfqueue_spsc`.

None of these invariants is inductive by itself. The strengthening `IInv` ties the ring to the histories:

- `count` is the number of elements pushed and published but not yet read (`InFlight`);
- `writeIdx = (readIdx + count) % Capacity`;
- the i-th slot after `readIdx` holds the value `Len(out) + i + 1` (`Done` counts the consumed ones);
- while the producer is between its two steps, the slot at `writeIdx` holds `pushed`;
- the consumer's `next` is `readIdx`.

With `IInv`, a `ProducerWrite` only ever writes the slot at `writeIdx`, which is not among the `count` slots in flight. Because `count < Capacity`, the slot the consumer holds is one of them. This is `NoRaceStep`, and it gives `NoDataRace`.

A read takes the value `Len(out) + 1`, which is what `ReadsInOrder` needs. The modular-arithmetic lemmas (`ModAdd`, `ModInjective`, `ModSucc`, ...) carry the index reasoning.

The proof has one lemma per action and one step per conjunct the action disturbs. `InitIInvSpec` combines them by PTL.

`LFQueueProofs` also proves `Refinement`: `Spec => Fifo!SafeSpec`. This is the safety part of what `FifoRefinement` checks.
- `InitRefined`: the initial state maps to the abstract initial state.
- `NextRefined`: under `IInv`, every step maps to a `Send`, a `Receive` or a stutter (`ProducerWriteRefined`, `UpdateWriteIndexRefined`, `ReadElementRefined`, ...).
- `Window(st, r, k, n)` is the sequence of `n` slots from `r + k`. `AbsQueue` is such a window (`AbsQueueWindow`). `WindowAppend` and `WindowTail` show that publishing a slot appends to the window and that advancing `readIdx` takes its tail. Together with the `IInv` facts, this gives the abstract `Append` and `Tail`.
- `TypeOK` includes the consumer's program counter, which `Logger` replaces. `IInv` therefore uses `QTypeOK`, the type invariant of the queue alone, so that `LoggerProofs` can reuse it.

`LoggerProofs` proves, for every `Capacity` and `MaxPush` (`CapacityAssumption`, `MaxPushAssumption` in `Logger`):

- `LoggerTypeCorrect`: `Spec => []TypeOK`;
- `NothingLostOnShutdown`: `Spec => []ShutdownLosesNothing`.

The Logger's queue steps are `LFQueue`'s (`SameQueueSteps`). The lemmas of `LFQueueProofs`, taken through `INSTANCE`, therefore show that `LQ!IInv` is preserved. `Shutdown` adds how the destructor and the flush loop are placed:

- `running_` is set exactly while the destructor has not cleared it;
- once the destructor has started, no push is under way;
- once `running_` is cleared, the queue is empty;
- the thread has exited only after `running_` is cleared;
- once the file is closed, `disk = out`.

The queue is empty when `running_` is cleared, so no `Drain` can happen after that. With `ReadsInOrder`, `out` is then `1..pushed`.

`LoggerProofs` also proves `FileRefinementThm`: `Spec => FileRefinement`, under the same `LInv`. This is stronger than `NothingLostOnShutdown`: it holds at every step, not only after the close. Each step lemma maps one kind of step:

- `PushFile`: `ProducerWrite` raises `pushed` and `InFlight` together, so it is a stutter. `UpdateWriteIndex` publishes, so it is a `Log`.
- `DrainFile`: `ReadElement` appends `Len(out) + 1`, because `ReadsInOrder` holds after the step. The queue is not empty, so `Len(out) < pushed - InFlight` follows from `LQ!IInv`'s count `pushed = Done + count + InFlight`.
- `LoopFile`: `FlushAndSleep` is a `Sync`.
- `ApplicationFile`: the `Close` finds every published element written. `Shutdown` gives `count = 0` and no push under way once `running_` is cleared, and the joined thread is outside its loop.

`McastSocketProofs` proves, for every buffer size and bound (`BoundsAssumption`):

- `NoDuplicateTransmissionThm`: `Spec => []NoDuplicateTransmission`;
- `McastTypeCorrect`: `Spec => []TypeOK`. `recv` never writes past the inbound buffer, and the indices stay in range while the process runs.

`MInv` adds these facts:

- `sendIdx <= appended`;
- every byte on the wire is at most `Flushed = appended - sendIdx`, the number of bytes already handed to `::send`;
- a running process has `sendIdx < BufSize`;
- `rxPending <= arrived`.

The outbound buffer always holds the bytes `Flushed + 1 .. appended` (`OutboundPrefix`). A `::send` of k bytes therefore appends `Flushed + 1 .. Flushed + k` to the wire (`RunExtends`), which keeps the wire strictly increasing.

`OutboundRefinementThm`: `Spec => OutboundRefinement`, by the same argument. The initial state maps to `Stream!Init` (`InitStream`). A `Send` moves `appended` and `sendIdx` by the same length, so `Flushed` is unchanged and the step is a `Queue` (`SendStream`). A `SendPending` of k bytes appends `Run(Flushed, k)` (`OutboundPrefix`) and resets `sendIdx`, so `Flushed` becomes `appended`: a `Flush` (`SendPendingStream`). The other steps leave `appended`, `sendIdx` and `wire` alone. The step lemma `NextStream` needs `MInv` for `sendIdx <= appended`, which bounds k by the bytes not yet flushed.

`SocketSetupProofs` proves `ReturnedAsConfiguredThm`: `Spec => []ReturnedAsConfigured`, for every configuration and every answer of the kernel. `ReturnedAsConfigured` covers the options `createSocket()` sets. It says nothing about `connect()`. That part is the finding of `socket_setup_connect_refused`, so no run checks `ReturnedAsConfigured` on its own.
- `Configured` lists, for each statement of `createSocket()`, the options set once control has reached it.
- A statement that sets an option is passed only by setting it or by a failed ASSERT, and nothing later clears the option.

`TCPServerProofs` proves `AcceptedBeforePollReturnsThm`: `Spec => []AcceptedBeforePollReturns`.
- It holds for every finite set of clients, under the assumption `RegistrationSucceeds`: kevent() registers the listener. Without that assumption the property still holds, but only vacuously: no listener event is ever pending, so a `poll()` with a connection queued never returns. The run `tcp_server_reg_fail` shows what goes wrong instead, which is a liveness failure (`EveryByteReceived`).
- `Reactive` is the inductive part:
  - while serving, the kqueue watches exactly the listener and the accepted sockets, and these are the elements of `receive_sockets_`;
  - a connection queued since the last `poll()` keeps the listener's event pending;
  - between two polls, every connection queued at the last one has been accepted;
  - while the events are handled, a connection still queued implies that the listener's event is in hand or that `have_new_connection` is set.
- `PollReturnsAll` is the counting step. At most one event per registered socket is pending. `max_events = 1 + |receive_sockets_|` is at least the number of registered sockets (`RangeCardinality`). So one `kevent()` returns every pending event, and the listener's event with them.

`TCPServerProofs` also proves `TCPTypeCorrect`: `Spec => []TypeOK`, for every finite set of clients and with no assumption on the kernel. `TypeOK` is not inductive. `idx <= Len(receive_sockets_) + 1` is kept only because `receive_sockets_` never grows beyond the set of connections. The bound on `received` holds only because each connection's bytes are either in the kernel buffer or read. The strengthening `TInv` adds:

- `receive_sockets_` has no duplicates (`IsInjective`). `AddOnce` preserves this (`AddOnceInjective`), so its length is at most the number of connections (`InjectiveLenBound`);
- `received[c] + kbuf[c] = sent[c]` for every connection;
- before `listen()`, no event is pending.

`TCPServerProofs` also proves `StreamsRefinementThm`: `Spec => StreamsRefinement`, for every finite set of clients, whether or not kevent() registers the listener. `TInv` gives `received[c] + kbuf[c] = sent[c]`, so a read is exactly a `Deliver`. The strengthening `AInv` adds what the abstract guards need:

- the backlog and the accepted sockets are disjoint, so `accept()` never returns a connection twice;
- `receive_sockets_` holds only accepted sockets. A read event comes only from a socket the kqueue watches (`evs \subseteq registered`), and it watches only the listener and the sockets `accept()` registered;
- before `listen()`, nothing is registered.

`AInv` is inductive together with `TInv` (`NextAInv`). The step lemmas `AcceptStreams`, `SocketSendAndRecvStreams`, `ClientConnectStreams` and `ClientSendStreams` map the four visible steps.

`MemPoolProofs` proves, for every `PoolSize` in `Nat \ {0}` and every set of holders:

- `PoolTypeCorrect`: `Spec => []TypeOK`;
- `CursorOnFreeBlock`: `Spec => []NextFreeIsFree`. The "Expected free ObjectBlock" ASSERT never fails.
- `OwnershipExclusive`: `Spec => []ExclusiveOwnership`.

The inductive invariant is the conjunction of the three, because each needs the others:

- `Allocate` can move the cursor onto a free block only if the blocks handed out are marked used. The scan's target is free: `ScanStopsAtFree`, from `LeastOffsetIn`, which takes the least offset from the well-foundedness of `<` on `Nat`.
- The block `Allocate` hands out is held by no one, because the cursor rests on a free block and held blocks are used.
- `Deallocate` frees a block only its holder holds.

### Only model-checked

- **Liveness** (`EveryPushRead`, `ShutdownCompletes`, `EveryByteReceived`, and the fairness part of `FifoRefinement`). TLAPS cannot reason about fairness and ENABLED here.
- **`LogMatchesSpec`.** It compares two recursive definitions over every format string. A proof would be an induction over the format's characters, and the provers cannot instantiate the library's induction theorems. Writing the operators as recursive functions would not help. The model is also written with RECURSIVE operators, which take the SMT backend away from any module that reaches them. TLC checks it for every format of up to 5 characters.

## 5. Not modelled

- **Thread utilities** (part_002) and **time utilities.** OS shims and formatting, with no shared state.
  - One observation without a model: `pthread_setaffinity_np` loops to `8 * cpu_size`, and `CPU_SET` shifts an `int`, so cores at 32 and above are out of reach.
- **`getIfaceIP`, `SocketCfg::toString`, the `pushValue` overloads.** Formatting and conversion. Each overload pushes one element per value or character, which `Emit` models.
- **`TCPSocket::connect` / `send` / `sendAndRecv`.** The source is not in the repository. The server model takes `sendAndRecv()` to read everything the kernel holds.
- **Closing connections and the 1024-entry `events_` array.** Listed as hazards without a covering property: the code has no close path, and the array needs more than a thousand connections.
- **Whether the loss of a partial multicast send is wanted.** `sendAndRecv()` resets `next_send_valid_index_` after one `::send`, whatever that call accepted. Spec section 9 leaves this open for the implementer. `OutboundStream` states the loss exactly, and `OutboundRefinement` shows the code loses nothing else, but no property says the loss is wrong.
- **The full-queue overwrite of `LFQueue`.** The model takes the caller's sizing contract as a guard.

## 6. Plan for later work

1. TCP connection close and EOF, once the `TCPSocket` behaviour is pinned down by the spec. The `TCPSocket` send path (partial writes, as for `McastSocket`).
2. The inbound side of `McastSocket`: datagram truncation and a full inbound buffer that starves the callback.
3. A model of the Logger with several producer threads, to show the single-producer contract of `LFQueue` being broken (see the hazards).
