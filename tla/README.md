# Formal models of cpp-msgpack-rpc

TLA+ models of cpp-msgpack-rpc, a C++ library of clients and servers for
MessagePack-RPC over TCP and Unix-domain sockets: its concurrent core, the path of a
call from arguments to result, the memory that carries it, and the life of a server
from its configuration to its end. The modules are translated from the source files
named in `PROJECT.json` (`map`), checked by TLC on small instances, and proved with
TLAPS for every value of the constants: every invariant of the passing runs is a theorem.

## 1. The system

The library runs on asio. A `GeneralExecutor` owns a number of *transport contexts*
and *callback contexts*, each run by one thread (one of each by default). Sockets
and timers belong to a context; whatever is posted to a context runs in its thread,
in order. Everything else is shared memory between these threads and the threads of
the user.

| component | state | operations | talks to |
|---|---|---|---|
| `Connection` (transport/connection.h) | state machine, socket, parser buffer, callbacks | `start`, `async_send`, `async_close`; handlers `async_read_next`, `process_read_bytes`, `async_send_in_thread`, `on_sent`, `close_in_thread` | calls `on_received_`, `on_sent_`, `on_closed_` of its owner |
| `BackgroundTaskStateMachine` | `INIT`, `STARTING`, `PROCESSING`, `STOPPED` | start, started, stop requested, stopped | used by `Connection`, `Acceptor` |
| `ServerConnection` | queue of responses, `is_sending_`, mutex | `on_received`, `on_request`, `on_notification`, `send_next_if_exists`, `on_sent` | posts requests to callback contexts, sends through `Connection` |
| `Acceptor`, `ConnectionList` | state machine, socket of the next accept, list of weak references under a mutex | `start`, `stop`, `on_accept`, `append`, `remove`, `async_close_all` | creates connections, which remove themselves |
| `ServerImpl`, `StopSignalHandler` | acceptors, executor | `start`, `stop`, `run_until_signal` | starts and stops everything; told of exceptions by the executor |
| `ClientConnector`, `ReconnectionTimer` | `connection_`, mutex, `is_stopped_`, retry timer | `start`, `stop`, `on_connection`, `on_connection_failure`, `on_connection_closed` | `async_connect`, `Connection`, callbacks of `ClientImpl` |
| `MessageSender`, `SentMessageQueue` | queue of messages, `is_sending_` | `send`, `send_next`, `handle_sent_message`, `handle_disconnection` | reads the connection of `ClientConnector` |
| `CallList`, `Call`, `CallFutureImpl`, `RequestIDGenerator` | pending calls by ID, timers, results, condition variables | `create`, `handle`, `on_timeout`, `get_result`, `get_result_within` | called by the user, the transport thread and callback threads |
| `ClientImpl` | the parts above, executor | `start`, `stop`, `async_call`, `notify` | connects the callbacks |
| `GeneralExecutor`, `Timer` | contexts, work guards, threads, the exception | `start`, `stop`, `context`, `run_in_thread`, `interrupt_threads` | run all handlers; an exception in a handler stops all contexts |
| `MultiBackendConnector`, connectors, `BackendList` | list of URIs, position, backends | `async_connect`, `resolve`, `on_connect` | one success or one failure per call |
| `MessageParser`, `MessageSerializer` | parser buffer | `prepare_buffer`, `consumed`, `try_parse`, `serialize_*` | used by `Connection`, clients, methods |
| `MethodProcessor`, `FunctionalMethod` | table of methods | `append`, `call`, `notify` | called by `ServerConnection` |
| `SerializationBuffer`, `SerializedMessage`, `SharedObject` | blocks with reference counts | write, release, copy, move, destroy | shared by all threads |
| `URI`, addresses | values | parse, format | builders, connectors, logs |
| builders, configuration | settings | `connect_to`, `listen_to`, `build`, `parse` | create clients and servers |
| logging | sinks | write | output only |

What is hard in this code, and what makes each part correct:

* **Connection.** The read, the write and the close of one socket end in handlers
  that run in an order nobody controls. Correct means: one chain of reads (they share
  a buffer), messages in order in both directions as long as the owner lets no writes
  overlap, no exception without a cause, and the owner learns of every stop, once.
* **ServerConnection.** Several callback threads and the transport thread hand over
  the duty to send through `is_sending_`, which is cleared outside of the mutex.
  Correct means: writes never overlap, responses leave in order, no wake-up is lost,
  each request is answered once.
* **ClientConnector.** `stop()` races with every callback. Correct means: exactly one
  effort to be connected until `stop()`, none after it, no connection left open.
* **MessageSender.** `send_next()` reads three shared values before it takes
  `is_sending_`. Correct means: one message in flight, none lost, none stuck.
* **CallList.** Responses, duplicates and timeouts race, IDs wrap around. Correct
  means: each future gets its own result once, and every waiter returns.
* **Connecting.** An attempt ends in a callback, in an exception of this library or in
  any other exception, each with its own path. Correct means: one chain of attempts per
  call, every URI tried before a failure is reported, and `stop()` ends it.
* **Server.** Handlers, references and locks decide when a connection is destroyed and
  by whom, and when a thread has no work left. Correct means: an acceptor always has an
  accept under way, contexts outlive their users, `stop()` returns, and an exception
  reaches the application.
* **Messages and methods.** Messages arrive in pieces and are executed by several
  threads. Correct means: a remote call ends as the local call would.
* **Shared memory.** The last of several threads frees a block. Correct means: exactly
  when nothing owns it.

`PROJECT.json` lists these hazards with the lines where they bite and the properties
that cover them.

## 2. Modules

| module | models | state and actions |
|---|---|---|
| `Connection` | transport/connection.h, background_task_state_machine.h, the socket and the peer | one action per handler; `tasks` is the queue of handlers that are ready in the context of the socket |
| `ServerConnection` | servers/server_connection.h | composes `Connection` (instance `Conn`); `pc` gives the position of each thread in its handler |
| `Responder` | what a server promises on a connection | abstract specification that `ServerConnection` implements |
| `ClientConnector` | clients/impl/client_connector.h, reconnection_timer.h | callbacks split at `is_stopped_` and at `connection_mutex_`; `tpc` and `spc` are the positions of the transport thread and of `stop()` |
| `MessageSender` | clients/impl/message_sender.h, sent_message_queue.h, the callbacks of client_impl.h | composes `ClientConnector` (instance `Connector`); every access of `send_next()` to shared state is a step |
| `CallList` | clients/impl/call_list.h, call.h, call_promise.h.h, call_future_impl.h, request_id_generator.h | `create()` in steps, handlers of responses and timers, waiting threads |
| `Common` | common/status_code.h, status.h, msgpack_rpc_exception.h | how functions end: a value, or the code of a failure |
| `Backends`, `Addresses` | transport/backend_list.h, create_default_backend_list.h; addresses/ | operators; the text of a URI is a sequence of tokens |
| `Connecting` | transport/async_connect.h, the connectors of both protocols, the builder of clients | extends `ClientConnector`: `here` is the URI the running thread is at, `attempts` what is outstanding; every step is a step of `ClientConnector` or leaves its variables alone |
| `Messages` | messages/message_serializer.h, message_parser.cpp, impl/parse_message_from_object.h, the classes of parsed messages | operators over sequences of tokens |
| `Methods` | methods/method_processor_impl.h, method_dict.h, functional_method.h, method_exception.h | operators; the functions of the user are the constant `Function` |
| `CallPath` | clients/client.h, call_future.h, impl/parameters_serializer.h, received_message_processor.h and the processing of messages in servers/server_connection.h | extends `Methods`: `wire` and `buffer` of both sides, tasks of the callback threads, results |
| `Buffers` | messages/serialized_message.cpp, impl/serialization_buffer.cpp, impl/sharable_binary_header.h | one action per constructor, assignment and destructor; a decrease of a count and what follows it are two steps |
| `SharedObjects` | util/impl/shared_objects.h | every access to the count of a buffer is a step |
| `Configs` | config/ and config/toml/ | operators; a file is the tables it holds |
| `Executor` | executors/general_executor.cpp | contexts with queues, guards and threads |
| `Server` | servers/impl/server_impl.h, server_builder_impl.h, stop_signal_handler.h, transport/acceptor.h, connection_list.h, the acceptor factories | extends `Executor`, `Configs` and `Backends`: `owner` is the thread of the application, `task` what a thread of the executor is in the middle of |
| `ConnectionProofs` | theorems about `Connection` | its last parts concern writes, and hold lemmas for owners of a connection |
| `ServerConnectionProofs` | theorems about `ServerConnection` | uses those of the connection in the composition |
| `ClientConnectorProofs`, `ConnectingProofs` | theorems about `ClientConnector` and `Connecting` | the second extends the first |
| `MessageSenderProofs` | theorems about `MessageSender` | uses those of the connector in the composition |
| `CallListProofs` | theorems about `CallList` | section 5 has the arguments |
| `DataProofs` | theorems about `Buffers`, `SharedObjects` and `CallPath` with `Messages` and `Methods` | the three share the lemmas on induction |
| `ServerProofs` | theorems about `Server` and what it extends | what configurations hold, contexts, chains of accepts |
| `MC*` | instances for TLC | |

Definitions that begin with the comment `Fault:` are not part of any specification.
Each is a variant of the definition that follows it with a plausible bug, and shows
that a property can fail: `PROJECT.json` (`mutants`) pairs every property of a
passing run with the variant that breaks it.

Abstractions shared by the modules:

* *Bytes.* The peer sends a stream of items; a read hands over any number of the next
  items, also none (bytes that complete no message). `Bad` stands for bytes that
  `try_parse()` rejects.
* *Errors.* `eof`, `connection_reset` and `broken_pipe` are one error, "gone", since
  the code treats them alike; any other but `operation_aborted` is "failed". A peer
  may close its end (`fin`), reset the connection (`reset`) or disappear (`lost`).
* *asio* (external). One thread runs the handlers of a context in the order in which
  they became ready. `cancel()` makes outstanding operations ready with
  `operation_aborted`; an operation on a closed socket completes with an error;
  `shutdown()` throws after a reset. A handler that throws stops the executor
  (`GeneralExecutor::run_in_thread()`), so no handler runs afterwards (`thrown`).
  `async_write()` writes part after part: when several are outstanding on a socket, their
  parts may mix and they may end in any order (`WritePart`). `overlapped` records that it
  came to this; to prevent it is the duty of the owners of a connection.
* *Connections of a client.* `ClientConnector` and `MessageSender` see a connection as
  up from `start()` until it stops, with at most `MaxReports` calls of `on_closed_`.
  `Connection` shows that there may be two (run `closed_once`), so the run `connector`
  uses 2; the properties that need a single report say so (`ReportedOnce`). The one of
  `MessageSender` about connections does, so its runs use 1. A connection that has
  stopped may drop the message it was writing, or write on and report that later, even
  after the next connection is up: the end of the stream neither cancels the write nor
  closes the socket. `overtaken` records that it came to this.
* *A connection that is gone at once.* A server may break a connection between the end of
  the connect and the construction of `Connection`, whose constructor throws then
  (`ConnectThrows` in `Connecting`, `OnAcceptThrows` in `Server`).
* *Results.* In `CallList` a response is represented by the number of the call it
  answers; `CallPath` has the objects.
* *Data on the wire.* A token stands for an object of msgpack or for the header of an
  array. Where an object ends is computed from the headers. A read ends between any two
  tokens; a split within the bytes of a token would leave the unpacker in the same
  place, waiting for the rest. Objects are converted as `as<T>()` does: an integer is taken
  for a float, and text for binary data and the other way round (`Converts`); every other
  pair of types is an error.
* *Connections of a server.* In `Server` a connection is what keeps threads and
  references alive: a read and a write that are outstanding, handlers, the posted close.
  A peer may end its side of the connection, break it, or not read its response. What a
  connection does with messages is the subject of `Connection` and `ServerConnection`.

## 3. Runs

Bounds are chosen so that each interleaving named in the hazards happens at least
once with something before and something after it.

| run | bounds | what it shows |
|---|---|---|
| `conn` | two kinds of messages, 2 received, 2 sent, 2 closes, all faults | Reads form one chain (`OneReadChain`); messages are received in order (`ReceivedInOrder`), and written in order as long as no writes overlap (`WrittenInOrder`); a stop is reported, and only a stop (`StopReported`); a handler throws only if the path to the peer broke or a message was handed to a closed socket, never for a close alone (`ThrowsForCause`); a stop is final; every close leads to a report or to a thrown exception (`CloseIsReported`). Two messages are the least with an order, two closes the least with a redundant one. |
| `server` | 2 callback threads, one message of each kind, 3 received, 1 close, reset | `SingleWriter`, `ResponsesInOrder`, `QueueIsWatched` (no lost wake-up), `RequestsAreAnswered` (liveness), `AnswersRequestsOnce` (refinement of `Responder`). Three requests are enough for one in the write, one in a thread and one in the queue. |
| `connector` | 3 connections, 2 reports each, waits 1 to 3, lists of one and two URIs with hosts, IPv6, a socket file, a path that is too long; with and without Unix sockets | `OneEffort`, `CurrentIsUp`, `OneChainPerConnect`, `TriesEveryURI`, `ChainThrowsAtUnusableURI`, `URIsRoundTrip`, `StopEndsConnecting` (liveness), and `StopLeavesOnlyALateOne`: after `stop()` the only connection left is one that `on_connection()` had checked before. The waiting time reaches its maximum, which is not a power of two. |
| `sender` | 2 users, 2 messages, 2 connections, 1 report each | `OneInFlight`: no second message is written beside the first, unless a stopped connection reports a write while the next one is up. `QueueIsWatched`. User threads are symmetric; the run checks no liveness. |
| `calls` | 2 calls, 2 IDs, 2 responses to each | `ListHoldsOpenCalls`, `ResultIsOwn`, `SleepersAreNotified`, `ReferenceIsValidAtStart`, `ResultIsFinal`, `EveryCallCompletes`, `GetResultReturns`. The generator starts at any ID, so it wraps around. As many IDs as calls: no ID is used again in this run. Nothing in the code keeps an old response from completing a new call with the same ID; that the ID comes back after 2^32 calls only makes it improbable. |
| `data` | 2 messages of 12 calls and 9 foreign messages, one foreign reply, reads of up to 3 tokens; 2 blocks, 3 messages, sizes 0, 1 and 5, words of 64 values; 2 buffers, 3 references | `CallIsTransparent`: a remote call ends as the local call would with what the conversions make of its arguments and of its result. `ReceivedAsSent`: pieces of any size give the messages that were sent. `ExecutedAndAnsweredOnce`. `BlocksAreOwned`, `WritesFit`, `BuffersAreOwned`: memory lives as long as it is owned and is never exceeded. The loop that shifts the capacity ends before a bit is lost. The three parts share no state, so a behaviour is one of them. Size 5 doubles the capacity twice, and two messages are the least where one can be answered before the other. |
| `life` | 5 files, 2 of them parsed; 1 or 2 transport threads, 1 callback thread, 1 acceptor, 2 connections and messages together, index of contexts modulo 2 | `AcceptChainAlive`, `ContextsExist`, and the liveness properties `StopReturns`, but for the three cases it names, and `ExceptionEndsRun`: an exception of any handler, in any thread, before, at or after the wait, ends `run_until_signal()` and is thrown by it. Two transport threads are the least where the acceptor and a connection have different ones. Acceptors share nothing but the contexts, hence one of them, of either protocol. The files reach every kind of key, and texts that are rejected. |

The remaining runs are expected to fail: each shows, as a counterexample, that the
code does not do what a test or a comment of the repository says. The findings in
`PROJECT.json` quote the lines.

| run | property | what happens |
|---|---|---|
| `closed_once` | `ClosedOnce` | read and write both report the end of a connection |
| `server_throws` | `NoHandlerThrows` | a response posted behind the close is written to a closed socket; the exception stops the executor |
| `sender_loss` | `NothingIsLost` | a message is sent twice, and the next one is popped without being sent |
| `sender_stall` | `ResumesAfterReconnect` | a thread with the old connection takes `is_sending_` after the disconnection, for ever |
| `close_all` | `NoSelfDeadlock` | with two transport threads the loop of `async_close_all()` holds the last reference to a connection; the destructor waits for the mutex the loop holds |

Other observations, which the properties of the passing runs take into account:

* `stop()` of a client between the check and the lock of `on_connection()` leaves a
  connection that nobody closes (`StopLeavesOnlyALateOne` allows exactly this one).
* `create()` of `CallList` reads the future through a reference after it has started
  the timer; if the timer expires first, the call is gone (`ReferenceIsValidAtStart`
  holds one step earlier only).
* A write of a connection that the peer half-closed may end after the client has
  reconnected: the end of the stream (connection.h:178) does not cancel it. Its report
  clears `is_sending_` while the new connection is writing, and the client starts a second
  write on it, beside the first (`overtaken` in `OneInFlight`).
* After such a half-close `close_in_thread()` returns early (connection.h:277), so that a
  write that is outstanding is not cancelled by the stop of a server; if the peer does not
  read its response, `stop()` waits for it (`UnreadResponse` in `StopReturns`).
* A connection accepted just before the stop of its acceptor and handled after it is
  not closed; `stop()` then waits for its peer (`LateConnection` in `StopReturns`).
* An old response completes a new call if their IDs are equal after a wrap (`ResultIsOwn`
  is stated, and proved, for as many IDs as calls).
* A connection writes two messages at once if its owner calls `async_send()` twice: their
  bytes may mix (`WritePart`). The owners of the library hold back the second one, but for
  the case of `OneInFlight` above.
* `remote_endpoint()` throws in the constructor of `Connection` if the peer is gone again:
  in `on_accept()` the exception ends the server (`OnAcceptThrows`), in `on_connect()` it
  stops the executor of the client, which neither tries the next URI nor retries
  (`ConnectThrows`; `gone` in `ChainThrowsAtUnusableURI`).
* If a thread of the executor cannot be started, those there are lose their work guards
  only; with an accept outstanding they do not end, and `start()` does not return
  (`ThreadFails`).
* An exception that is thrown after `run_until_signal()` has read `last_exception()` is
  not reported.
* A `MethodException` that carries nil is a response without an error: the client gets
  nil as the result (`Local` in `CallPath`).
* The first configuration of a name wins, and a file that is rejected keeps what was
  read before the error (`try_emplace`, `ParseSection`).
* A client without URIs reads the end of an empty list (async_connect.h:97);
  `ListsAssumption` excludes it. Copying a `SerializedMessage` that was moved from is
  undefined; no caller does.

Deadlock is not checked: all models are bounded by the number of messages, calls and
connections, and a system whose messages were all handled may rest.

## 4. Fairness

Weak fairness is assumed of what the code's scheduling guarantees and of nothing else:

* the thread of a context runs handlers that are ready, and a thread inside a
  handler continues (`Thread`, `TransportThread`, `CallbackThread`, `Continue`, ...);
* an attempt to connect ends, a timer expires, a posted close runs;
* `ServerConnection` only: a write that is outstanding ends, with or without success;
* `MessageSender`: a write is reported, unless its connection stopped and dropped it;
* `CallList`: time passes.

* `Server`: the threads of the executor and the thread of the application go on with
  what they are in; a mutex is held for finitely many steps, unless a thread waits for
  itself, which the liveness properties name (`NoSelfDeadlock`). An operation on a
  connection that broke ends (`Broken`), since the system reports it; one whose peer is
  silent or does not read need not.

`CallPath`, `Buffers` and `SharedObjects` assume none: their properties are invariants.
No fairness is assumed of the peer, of the server of a client, of the calls of users,
of signals, nor of faults. Callback threads block on `message_queue_mutex_` only while another
thread is inside a short section, hence weak fairness of the thread is enough.

## 5. Proofs

TLAPS checks the following for all sets of messages, threads, blocks and references, all
faults, all lists of URIs, all methods and functions of the user and all bounds. The assumptions on constants are those named in
the modules, and each is what the code or the meaning of the constant gives:

| assumption | says |
|---|---|
| `BoundsAssumption`, `MessagesAssumption` | bounds are natural numbers; in `CallPath`, that a read takes something and that there are as many IDs as messages are sent |
| `FilesAssumption` | tables and arrays of a file are finite, and executors of servers ask for at most `MaxThreads` threads of a type |
| `ItemsAssumption`, `KindsAssumption` | `Bad` is not a message; the kinds of messages are disjoint |
| `FaultsAssumption` | faults of a peer are among the three |
| `ThreadsAssumption`, `UsersAssumption` | the transport thread is neither a callback thread nor a user; in `Executor`, that there may be a thread and that counters of contexts count |
| `WaitsAssumption`, `ConnectorAssumption` | the first waiting time is positive and at most the last (the constructor of `ReconnectionTimer` throws otherwise) |
| `ListsAssumption` | a client has at least one URI; texts are finite sequences |
| `BlocksAssumption`, `PoolAssumption` | the null pointer is no block, a buffer exists, the creator is no reference |
| `SizesAssumption` | memory is finite and a size of four times of it fits a `std::size_t` |
| `InvocationsAssumption`, `MethodsAssumption`, `FunctionAssumption` | names of methods are texts, a method has a list of types; arguments, results and the objects of exceptions have no elements |
| `ForeignAssumption`, `RepliesAssumption` | other programs send what the parser takes as one message or rejects; as a client no request (its answer would not be for this client), as a server no response to an ID that this client may use |

None of these sets needs to be finite: where a proof counts the members of one, that the
counted part is finite is a conjunct of the invariant.

No property is inductive by itself. For each, this is what its invariant adds and why.

**Connection** (`ConnectionProofs`).

* `TypeCorrect`, `ReadChain`, `StopsAreReported` (invariants) and `StopsForGood` (action
  property). `IInv` adds four facts: a closed socket belongs to a connection that has
  stopped and has no operation left (`ClosedSocketIsIdle`), nothing has happened before
  `start()` (`NotStarted`), the read posted by `start()` is at the front of the queue
  (`FirstRead`: otherwise a close could run first, and the chain of reads would begin
  on a closed socket), and a read is aborted only by a stop (`AbortedByStop`: otherwise
  `process_read_bytes()` would end the chain of a connection that is processing). The
  lemmas go action by action; `close_in_thread()` and `process_read_bytes()` are the
  long ones.
* `ReadsKeepOrder`: what was received is a prefix of what was taken from the socket
  (`ReadsInOrder`), and `taken` never runs ahead of what arrived.
* `ThrowsAreCaused`: a handler throws because of an error other than the end of the peer or
  of a `shutdown()` that fails. Every handler that will throw already has its cause, and a
  `send` in the queue was asked for (`ThrowsJustified`). A close adds aborted operations only
  (`Fresh`), and what fails on a closed socket is a `send` that runs behind the close.
* `WritesKeepOrder`: as long as no two writes were outstanding together, what was asked for
  is what was written, what is in the write, and the writes among the handlers that are
  ready, one after the other. A `send` leaves the queue
  at its front, so the positions of all others move up by one; a close takes the write that
  is outstanding along and lets none of the later ones reach the socket.
* Lemmas for owners of a connection: a step of the connection never adds a pending write
  (`NoNewWrite`), the end of a write that was the only one leaves none (`OnSentWrite`), and
  writes that are handed over one at a time never overlap (`OneWriteApart`).

**Server connection** (`ServerConnectionProofs`). The invariant of the connection is not
proved again: the lemmas `Same...` carry it over to the instance in the composition.

* `ServerTypeCorrect` and `ResponsesDoNotOverlap`. `Mutex` says that one thread at most
  is between the check and the assignment of `is_sending_`, and that what it saw still
  holds, although `on_sent()` clears the flag without the mutex. `Sender` says that a
  thread about to call `async_send()` is alone and that no write is pending, and that
  `is_sending_` is set while one is.
* `ResponsesKeepOrder`: what was pushed is what was passed to `async_send()`, then the
  message in the hands of the one thread that is about to call it, then the queue
  (`InTurn`). With one write at a time (`OneInOrder` of the connection), none that overlaps
  another (`NextApart`), the order of `async_send()` is the order on the wire.
* `NoLostWakeUp`: while the connection can send, `is_sending_` is set only if a write is
  pending or a thread is about to start one, and a response waits in the queue only if so,
  or if a thread is about to look (`Watched`). `QueueIsWatched` is stated for an executor
  that runs: after an exception of a handler, no thread looks at anything any more.
* `AnswersOnce`: the refinement of `Responder`, step by step. Each request that was received
  is in one place only: in the queue of a context, in the hands of a thread, or among the
  responses pushed (`Accounted`), so no answer is given twice. A step of the connection that
  writes a response is an `Answer`, one that hands over requests receives them, and every
  other step is a stutter.

**Client connector** (`ClientConnectorProofs`). `ConnectorTypes`, `NeverGivesUp`,
`CurrentConnectionIsUp` and `StopClosesTheRest`. `OneEffort` counts attempts, the armed
timer, connections that are up and the callback that is running. The count is kept by every
callback because a connection that `on_connection()` is about to adopt is not yet up
(`NewConnection`), because a connection that is not down has not reported its end
(`ReportsOfDown`), and because `is_stopped_` is set exactly after `stop()` has begun
(`StopFlagged`).

**Connecting** (`ConnectingProofs`, on top of the former).

* `ConnectingImplementsConnector`: every step of the chain of attempts is one that
  `ClientConnector` allows, or leaves its variables alone, so that its theorems hold for a
  client with real backends and URIs.
* `OneChain`: `Chained` adds that the set of outstanding attempts is finite and that an
  exception that left the chain has ended it.
* `AllURIsAreTried`: from `OneChain` and `NeverGivesUp` follows that the attempt under way is
  the only one (`Alone`); hence it has tried exactly the URIs before its own (`Trying`).
  This needs connections that report their end once: a second report starts a second chain.
* `ThrowsAtUnusable`: the attempts under way have tried exactly the URIs before their own
  (`SpecTrying`), hence a chain that ended with an exception ended at the URI after those, and
  what made that URI unusable remains: the backends and the URIs never change. The exception
  of a connection that is gone again (`gone`) is the only other one, and happens at any URI.
* `TextsRoundTrip`: `Parse(Format(u)) = u` for any host, port, file and scheme, from the lemmas
  `TCPRoundTrip`, `UnixRoundTrip`, `ParsedRoundTrip` and `AddressesRoundTrip`.

**Message sender** (`MessageSenderProofs`; the invariant of the connector is carried over).

* `TypesHold`, and `ConnectorIsImplemented`: the sender takes no step the connector does not
  allow and changes nothing behind its back.
* `WritesNeverOverlap`: on a connection that is up one thread at most is about to send, it has
  no message in flight then, and `is_sending_` is set and nobody is about to clear it
  (`OneSender`). A stopped connection that reports its write may clear it only when no
  connection is up (`Flight`), unless the report was overtaken. It needs connections that
  report their end once, as the property says.
* `NoLostWakeUp`: until the first disconnection, `is_sending_` is set because of a thread, a
  report or a message in flight (`SendingIsReal`). The run `sender_stall` shows that it is not
  so afterwards.

**Call list** (`CallListProofs`). `CallTypes`, `OpenCallsAreListed`, `FinalResult` and
`NoLostWakeUp` hold for any number of IDs. A call in the list is registered under its own ID
and has no result (`ListedCalls`), one without a result is in the list (`OpenCalls`), and a
result, a response or a timer comes only after the call got far enough in `create()`
(`EarlyCalls`, `StartedCalls`). `OwnResult` and `ValidAtStart` need as many IDs as calls
(`EnoughIds`): the IDs of the calls follow each other around the end of the range
(`IdsFollow`), so no two are equal, and what a response or a timer finds under its ID is its
own call.

**The path of a call** (`DataProofs`). The invariants say what is on the way in each
direction, whatever is still in a buffer and whatever is still in the connection.

* *Where an object ends.* `Missing` and `Element` are recursive functions over the tokens.
  `Recursion` shows, by induction on the number of tokens (`SetInduction`), that a function
  whose values come each from the one before exists, so their equations hold (`MissingLaw`,
  `ElementLaw`). `Missing` depends on the tokens up to its place only; hence an object that is
  complete in a part of the buffer ends there as in the whole (`PrefixEnds`), and
  `try_parse()` of any part of a message that it can parse ends as for the whole message and
  takes exactly its tokens (`ParsePrefix`).
* *What is parsed.* The messages of `MessageSerializer` are arrays whose last element alone is
  an array; such an array is a whole message with the elements that were written (`Shaped`,
  `ShapeIsWhole`), so requests, notifications and responses are parsed as what they are
  (`RequestIsParsed`, `NotificationIsParsed`, `ResponseIsParsed`).
* *What is answered.* `AnswerTells` follows `MethodProcessor::call()` through the table of
  methods, the conversion of the parameters, both kinds of methods and every way a function
  ends: the response it serializes makes a future give what the local call gives. A
  conversion keeps the type of what it gives (`ConvertedType`) and leaves an object of its
  own type as it is (`OwnType`).
* `MessagesAreReceivedAsSent`: `Sound` says that buffer and connection together hold exactly
  the messages sent that the server did not receive, cut where they end (`IsStream`); that a
  message sent is a request whose ID is its place, a notification, or what another program
  sent (`Usual`); and that a close was posted only after a response. A send adds a message
  to the stream (`StreamGrows`), a read moves tokens within it, and the parser takes the
  first message of it (`StreamParsed`) or closes at one that is malformed.
* `CallsAreTransparent` and `CallsAreExecutedAndAnsweredOnce`: `Answering` adds that what is on
  the way to the client is answers to requests that were executed and messages of other
  programs, and, while the connection of the server is open, that the answer to each
  executed request without a result is among them (`StreamOfAnswers`); that a result is the
  answer to the request of its ID (`AnswersRight`); and that the functions that ran are
  as many as the messages executed whose method takes their parameters (`CountedOnce`). A
  response takes effect only for a call that waits (`EffectIsAnswer`), so a result is never
  that of another call. When the stream is empty, every executed request has its result
  (`StreamEnds`).

**Memory** (`DataProofs`).

* `WritesStayInside`: the capacity after an expansion holds what is written, and the loop
  that looks for it ends. The capacity after each shift is a recursive function (`Shifts`),
  and what it computes is proved by induction: `SetInduction` says that a set of natural
  numbers that contains 0 and all successors contains all, and follows from counting
  (otherwise the members below a number that is missing would be as many as without 0). A
  block that is being filled is not shared (`Owned`) and not empty (`CanGrow`), so a capacity
  that is not enough grows with each shift (`LoopEnds`), and none loses its bit.
* `MemoryIsOwned`: `Owned` counts, for each block, the messages that own it and have not
  decreased its count, and separates the one that saw the count reach zero from all others
  (`Freeing`); `TasksSound` says that a decrease is one of a block, and that the source of a
  copy assignment still owns its block in the middle of it.
* `PoolIsOwned`: `Kept` relates the count of a buffer to the users that count, the one that is
  to destroy its object, and the one that is to give the buffer back; a buffer that is given
  back has no object. `UsersSound` says where each user can be, and that the source of an
  assignment is not touched by others but for copies.

**Server** (`ServerProofs`).

* `ContextsStay`: whatever files are parsed, a configuration of a server asks for at least one
  thread of each type (`FileIsGood`, by induction over sections, tables and entries:
  `EntriesKeep`), so an executor has contexts when it is created. `ThreadsInv` says that it
  keeps them until `stop()` has joined every thread, and that threads run only in contexts
  there are. Hence the remainder of `get_context_index()` is never one by zero.
* `AcceptorsAccept`: what is queued of an acceptor is in the queue of its own context
  (`ArePlaced`), and `Chain` relates that queue to the state of the acceptor: one link at most
  is queued, and none while an accept is outstanding; the first accept comes before any stop;
  an accept is cancelled only on an acceptor that was stopped, on which none is begun. That
  no handler runs before all acceptors are `PROCESSING` (`Begun`) is what makes the order in
  `Acceptor::start()` harmless. A link is lost only with an exception that is recorded
  (`Failing`), and such an exception is not forgotten. The lemmas `Chain...` say what each
  step does to one queue, those about `Queues` that it leaves the other chains alone.

Only model-checked: liveness (`CloseIsReported`, `RequestsAreAnswered`, `StopEndsConnecting`,
`EveryCallCompletes`, `GetResultReturns`, `StopReturns`, `ExceptionEndsRun`), which is out of
reach of the proof system.

## 6. What is left

* `ClientImpl::stop()` against users in `async_call()`: `CallList` over `MessageSender`
  with the executor of the client.
* Calls whose arguments or results have elements: `Messages` can parse them, but
  `InvocationsAssumption` and `FunctionAssumption` leave them out. `ShapeIsWhole` would have
  to be proved for nested arrays.
* The IDs of `CallPath` are those of one round. `CallList` is about IDs that come again.

## 7. Not modelled

* Log text, sinks and the formatting of objects: output on which nothing depends.
* `ConnectionWrapper`, the executors of one thread and of a context of the application,
  and backends registered by the application: the library itself does not use them.
* The jitter of the waiting time; system calls that bind and resolve addresses, which
  succeed or fail.
* Concurrent calls of `ClientImpl::stop()` with `async_call()`, of `stop()` by several
  threads, and of `stop()` by a thread of the executor itself, which waits for itself.
* Data races inside asio timers (`cancel()` from the thread of `stop()`,
  reconnection_timer.h:97), of which only the two orders are modelled, and `create()` of a pool called by several threads, whose
  index is not atomic.
* The unpacker of msgpack and the parser of TOML are external: modelled by what the code
  uses of them.
