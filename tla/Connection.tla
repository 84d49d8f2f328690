------------------------------ MODULE Connection ------------------------------
(***************************************************************************)
(* One transport connection (transport/connection.h) together with its     *)
(* BackgroundTaskStateMachine, the socket it owns and the peer.            *)
(*                                                                         *)
(* Everything the class does after start() runs as handlers of one asio    *)
(* context with one thread: functions posted by async_send(), async_close()*)
(* and start(), and completion handlers of the read and write operations.  *)
(* "tasks" is the FIFO of handlers that are ready to run.  A handler is    *)
(* one action; async_send() and async_close() are called by any thread, at *)
(* any time after start().                                                 *)
(*                                                                         *)
(* The bytes of a message are abstracted: the peer sends a stream of       *)
(* items, and one read hands over the next items completed by its bytes    *)
(* (possibly none).                                                        *)
(***************************************************************************)
EXTENDS Naturals, Sequences

CONSTANTS
    Items,          \* well-formed messages the peer may send
    Bad,            \* bytes that try_parse() rejects with an exception
    Faults,         \* what may happen to the peer: subset of PeerFaults
    MaxIncoming,    \* bound: items sent by the peer
    MaxSends,       \* bound: calls of async_send()
    MaxCloses       \* bound: calls of async_close()

PeerFaults == {"fin", "reset", "lost"}

ASSUME ItemsAssumption == Bad \notin Items
ASSUME FaultsAssumption == Faults \subseteq PeerFaults
ASSUME BoundsAssumption ==
    MaxIncoming \in Nat /\ MaxSends \in Nat /\ MaxCloses \in Nat

VARIABLES
    state_,     \* BackgroundTaskStateMachine::state_
    socket,     \* "open" or "closed"
    peer,       \* "up" or the fault that happened to the peer
    tasks,      \* handlers ready to run in the context of the socket
    reading,    \* an async_read_some() operation is outstanding
    writing,    \* messages of the outstanding async_write() operations
    inbound,    \* history: items sent by the peer
    taken,      \* number of items of inbound that were read from the socket
    received,   \* history: items passed to on_received_
    asked,      \* history: messages passed to async_send()
    closeAsked, \* history: number of calls of async_close()
    written,    \* history: messages completely written to the socket
    closed,     \* history: statuses passed to on_closed_
    thrown,     \* a handler threw: the executor has stopped its threads
    overlapped  \* history: a write was started while another was outstanding

vars == <<state_, socket, peer, tasks, reading, writing, inbound, taken,
          received, asked, closeAsked, written, closed, thrown, overlapped>>

\* What no handler changes, but for the one that starts a write.
netVars == <<peer, inbound, overlapped>>
callVars == <<asked, closeAsked>>

-----------------------------------------------------------------------------
(* Handlers.  data is the message to send or that was written, or the      *)
(* items completed by a read.                                              *)

States == {"INIT", "STARTING", "PROCESSING", "STOPPED"}
Errors == {"none", "aborted", "gone", "failed"}
\* "gone" stands for eof, connection_reset and broken_pipe, which the code
\* treats alike; "failed" for every other error but operation_aborted.

ReadOps == {"read_next", "read_done"}
WriteOps == {"send", "write_done"}

Handler(op, error, data) == [op |-> op, error |-> error, data |-> data]

Handlers ==
    [op : {"read_next", "close"}, error : {"none"}, data : {<<>>}]
    \cup [op : {"read_done"}, error : Errors, data : Seq(Items \cup {Bad})]
    \cup [op : {"send"}, error : {"none"}, data : Seq(Nat) \ {<<>>}]
    \cup [op : {"write_done"}, error : Errors, data : Seq(Nat) \ {<<>>}]

is_processing == state_ = "PROCESSING"

TypeOK ==
    /\ state_ \in States
    /\ socket \in {"open", "closed"}
    /\ peer \in {"up"} \cup PeerFaults
    /\ tasks \in Seq(Handlers)
    /\ reading \in BOOLEAN
    /\ writing \in Seq(Nat)
    /\ inbound \in Seq(Items \cup {Bad})
    /\ taken \in Nat
    /\ received \in Seq(Items)
    /\ asked \in Seq(Nat)
    /\ closeAsked \in Nat
    /\ written \in Seq(Nat)
    /\ closed \in Seq({"SUCCESS", "INVALID_MESSAGE"})
    /\ thrown \in BOOLEAN
    /\ overlapped \in BOOLEAN

Init ==
    /\ state_ = "INIT"
    /\ socket = "open"
    /\ peer = "up"
    /\ tasks = <<>>
    /\ reading = FALSE
    /\ writing = <<>>
    /\ inbound = <<>>
    /\ taken = 0
    /\ received = <<>>
    /\ asked = <<>>
    /\ closeAsked = 0
    /\ written = <<>>
    /\ closed = <<>>
    /\ thrown = FALSE
    /\ overlapped = FALSE

-----------------------------------------------------------------------------
(* Operations called by the owner of the connection.                       *)

\* start(): INIT to STARTING, the callbacks, PROCESSING, then the first read is
\* posted.  No other thread holds the connection before start() returns, so the
\* intermediate state is not observable.
start ==
    /\ state_ = "INIT"
    /\ state_' = "PROCESSING"
    /\ tasks' = Append(tasks, Handler("read_next", "none", <<>>))
    /\ UNCHANGED <<socket, reading, writing, taken, received, written, closed,
                   thrown, netVars, callVars>>

\* Fault: the message is dispatched ahead of the handlers that are ready.
SendFirst(message) ==
    /\ state_ # "INIT"
    /\ asked' = Append(asked, message)
    /\ tasks' = IF is_processing
                THEN <<Handler("send", "none", <<message>>)>> \o tasks
                ELSE tasks
    /\ UNCHANGED <<state_, socket, reading, writing, taken, received, written,
                   closed, thrown, netVars, closeAsked>>

\* async_send(): silently ignored unless processing.
async_send(message) ==
    /\ state_ # "INIT"
    /\ asked' = Append(asked, message)
    /\ tasks' = IF is_processing
                THEN Append(tasks, Handler("send", "none", <<message>>))
                ELSE tasks
    /\ UNCHANGED <<state_, socket, reading, writing, taken, received, written,
                   closed, thrown, netVars, closeAsked>>

async_close ==
    /\ state_ # "INIT"
    /\ closeAsked' = closeAsked + 1
    /\ tasks' = Append(tasks, Handler("close", "none", <<>>))
    /\ UNCHANGED <<state_, socket, reading, writing, taken, received, written,
                   closed, thrown, netVars, asked>>

-----------------------------------------------------------------------------
(* Handlers run by the thread of the context, one at a time.               *)

\* The next handler is op, and the thread still runs handlers.
IsNext(op) == ~thrown /\ tasks # <<>> /\ Head(tasks).op = op

\* async_read_next(): on a closed socket asio completes the operation with
\* bad_descriptor.
async_read_next(queue) ==
    IF socket = "open"
    THEN reading' = TRUE /\ tasks' = queue
    ELSE /\ tasks' = Append(queue, Handler("read_done", "failed", <<>>))
         /\ UNCHANGED reading

\* The completion handlers that socket_.cancel() makes ready.
AbortedHandlers ==
    (IF reading THEN <<Handler("read_done", "aborted", <<>>)>> ELSE <<>>)
    \o [i \in 1..Len(writing) |->
            Handler("write_done", "aborted", <<writing[i]>>)]

\* socket_.cancel(), at the end of a handler that leaves queue behind.
cancel(queue) ==
    /\ tasks' = queue \o AbortedHandlers
    /\ reading' = FALSE
    /\ writing' = <<>>

\* The socket is cancelled, shut down and closed.  shutdown() throws
\* not_connected when the peer has reset the connection, and bad_descriptor on
\* a closed socket; then on_closed_ is not called.
CloseSocket(status, queue) ==
    /\ state_' = "STOPPED"
    /\ cancel(queue)
    /\ IF peer = "reset" \/ socket = "closed"
       THEN thrown' = TRUE /\ UNCHANGED <<socket, closed>>
       ELSE /\ socket' = "closed"
            /\ closed' = Append(closed, status)
            /\ UNCHANGED thrown

\* Fault: the result of handle_stop_requested() is ignored.
CloseAgain(status, queue) == CloseSocket(status, queue)

\* close_in_thread()
close_in_thread(status, queue) ==
    IF state_ = "STOPPED"
    THEN /\ tasks' = queue
         /\ UNCHANGED <<state_, socket, reading, writing, closed, thrown>>
    ELSE CloseSocket(status, queue)

\* Fault: the state machine is not told that the peer has gone.
StillProcessing ==
    /\ closed' = Append(closed, "SUCCESS")
    /\ tasks' = Tail(tasks)
    /\ UNCHANGED <<state_, socket, reading, writing, taken, received, written,
                   thrown, netVars, callVars>>

\* Fault: the owner is not told.
NotReported ==
    /\ state_' = "STOPPED"
    /\ tasks' = Tail(tasks)
    /\ UNCHANGED <<socket, reading, writing, taken, received, written, closed,
                   thrown, netVars, callVars>>

\* The peer has gone: handle_processing_stopped(), then on_closed_.
ClosedByPeer ==
    /\ state_' = "STOPPED"
    /\ closed' = Append(closed, "SUCCESS")
    /\ tasks' = Tail(tasks)
    /\ UNCHANGED <<socket, reading, writing, taken, received, written, thrown,
                   netVars, callVars>>

\* A handler throws: GeneralExecutor::run_in_thread() stops all contexts.
Throw ==
    /\ thrown' = TRUE
    /\ tasks' = Tail(tasks)
    /\ UNCHANGED <<state_, socket, reading, writing, taken, received, written,
                   closed, netVars, callVars>>

\* A handler returns without doing anything.
Ignore ==
    /\ tasks' = Tail(tasks)
    /\ UNCHANGED <<state_, socket, reading, writing, taken, received, written,
                   closed, thrown, netVars, callVars>>

RunReadNext ==
    /\ IsNext("read_next")
    /\ async_read_next(Tail(tasks))
    /\ UNCHANGED <<state_, socket, writing, taken, received, written, closed,
                   thrown, netVars, callVars>>

\* Fault: a close is dropped while a message is being written.
CloseIfIdle ==
    /\ IsNext("close")
    /\ IF writing = <<>>
       THEN /\ close_in_thread("SUCCESS", Tail(tasks))
            /\ UNCHANGED <<taken, received, written, netVars, callVars>>
       ELSE Ignore

RunClose ==
    /\ IsNext("close")
    /\ close_in_thread("SUCCESS", Tail(tasks))
    /\ UNCHANGED <<taken, received, written, netVars, callVars>>

\* async_send_in_thread(): the state is not checked again, and no check keeps
\* two async_write() operations apart.  asio forbids that: such an operation
\* writes part after part, and the parts of two of them may mix.
async_send_in_thread ==
    /\ IsNext("send")
    /\ LET message == Head(Head(tasks).data)
       IN IF socket = "open"
          THEN /\ writing' = Append(writing, message)
               /\ overlapped' = IF writing = <<>> THEN overlapped ELSE TRUE
               /\ tasks' = Tail(tasks)
          ELSE /\ tasks' = Append(Tail(tasks),
                          Handler("write_done", "failed", <<message>>))
               /\ UNCHANGED <<writing, overlapped>>
    /\ UNCHANGED <<state_, socket, reading, taken, received, written, closed,
                   thrown, peer, inbound, callVars>>

-----------------------------------------------------------------------------
(* process_read_bytes()                                                    *)

IsReadDone(error) == IsNext("read_done") /\ Head(tasks).error = error

ReadAborted == IsReadDone("aborted") /\ Ignore
ReadPeerGone == IsReadDone("gone") /\ ClosedByPeer
ReadFailed == IsReadDone("failed") /\ Throw

\* try_parse() yields n messages before it throws or needs more bytes.
Parsable(items, n) ==
    /\ n \in 0..Len(items)
    /\ \A i \in 1..n : items[i] # Bad
    /\ n < Len(items) => items[n + 1] = Bad

\* Fault: the next read starts even if the connection has stopped.
ReadAlways(queue) ==
    async_read_next(queue) /\ UNCHANGED <<state_, socket, writing, closed, thrown>>

\* The end of the handler: the next read starts if still processing.
ReadOn(queue) ==
    /\ IF is_processing
       THEN async_read_next(queue)
       ELSE tasks' = queue /\ UNCHANGED reading
    /\ UNCHANGED <<state_, socket, writing, closed, thrown>>

\* Fault: the rest of the bytes is skipped and the connection stays open.
SkipRest(queue) == ReadOn(queue)

\* try_parse() has thrown.
ParseFails(queue) == close_in_thread("INVALID_MESSAGE", queue)

\* The n messages that try_parse() yields are passed to on_received_, whose
\* calls of async_close() are counted by closes; then a parse error closes the
\* connection, and otherwise the next read starts.
process_read_bytes(n, closes) ==
    /\ IsReadDone("none")
    /\ Parsable(Head(tasks).data, n)
    /\ received' = received \o SubSeq(Head(tasks).data, 1, n)
    /\ closeAsked' = closeAsked + closes
    /\ LET queue == Tail(tasks)
                    \o [i \in 1..closes |-> Handler("close", "none", <<>>)]
       IN IF n < Len(Head(tasks).data) THEN ParseFails(queue) ELSE ReadOn(queue)
    /\ UNCHANGED <<taken, written, netVars, asked>>

-----------------------------------------------------------------------------
(* on_sent()                                                               *)

IsWriteDone(error) == IsNext("write_done") /\ Head(tasks).error = error

WriteAborted == IsWriteDone("aborted") /\ Ignore
WritePeerGone == IsWriteDone("gone") /\ ClosedByPeer
WriteFailed == IsWriteDone("failed") /\ Throw

\* Success: on_sent_ is called, whose effect belongs to the owner.
on_sent == IsWriteDone("none") /\ Ignore

-----------------------------------------------------------------------------
(* The socket and the peer (external).                                     *)

PeerSend(item) ==
    /\ peer = "up"
    /\ inbound' = Append(inbound, item)
    /\ UNCHANGED <<state_, socket, peer, tasks, reading, writing, taken,
                   received, written, closed, thrown, overlapped, callVars>>

PeerFault(fault) ==
    /\ peer # fault
    /\ peer \in {"up", "fin"}
    /\ peer' = fault
    /\ UNCHANGED <<state_, socket, tasks, reading, writing, inbound, taken,
                   received, written, closed, thrown, overlapped, callVars>>

\* A read operation completes: with the next items, or with none when the bytes
\* received so far complete no message.
ReadCompletes ==
    /\ reading
    /\ reading' = FALSE
    /\ \/ \E n \in taken..Len(inbound) :
            /\ peer \in {"up", "fin", "reset"}
            /\ n = taken => peer = "up"
            /\ taken' = n
            /\ tasks' = Append(tasks, Handler("read_done", "none",
                                              SubSeq(inbound, taken + 1, n)))
       \/ /\ peer = "reset" \/ (peer = "fin" /\ taken = Len(inbound))
          /\ tasks' = Append(tasks, Handler("read_done", "gone", <<>>))
          /\ UNCHANGED taken
       \/ /\ peer = "lost"
          /\ tasks' = Append(tasks, Handler("read_done", "failed", <<>>))
          /\ UNCHANGED taken
    /\ UNCHANGED <<state_, socket, writing, received, written, closed, thrown,
                   netVars, callVars>>

\* A part of the oldest outstanding write is written: the rest goes behind the
\* other writes, if there are any.
WritePart ==
    /\ Len(writing) > 1
    /\ writing' = Append(Tail(writing), Head(writing))
    /\ UNCHANGED <<state_, socket, tasks, reading, taken, received, written,
                   closed, thrown, netVars, callVars>>

\* The last part of a write operation is written, or the operation fails.  Bytes
\* written after the peer closed its end may still be accepted.
WriteCompletes ==
    /\ writing # <<>>
    /\ writing' = Tail(writing)
    /\ \E error \in {"none", "gone", "failed"} :
        /\ error = "gone" <=> peer = "reset"
        /\ error = "failed" <=> peer = "lost"
        /\ tasks' = Append(tasks,
                           Handler("write_done", error, <<Head(writing)>>))
        /\ written' = IF error = "none"
                      THEN Append(written, Head(writing)) ELSE written
    /\ UNCHANGED <<state_, socket, reading, taken, received, closed, thrown,
                   netVars, callVars>>

-----------------------------------------------------------------------------

\* Handlers that do not call back into the owner, except for on_closed_, whose
\* calls are recorded in closed.
QuietHandler ==
    \/ RunReadNext \/ RunClose \/ async_send_in_thread
    \/ ReadAborted \/ ReadPeerGone \/ ReadFailed
    \/ WriteAborted \/ WritePeerGone \/ WriteFailed

Thread ==
    \/ QuietHandler
    \/ \E n \in 0..Len(inbound) : process_read_bytes(n, 0)
    \/ on_sent

Network ==
    \/ \E item \in Items \cup {Bad} :
            Len(inbound) < MaxIncoming /\ PeerSend(item)
    \/ \E fault \in Faults : PeerFault(fault)
    \/ ReadCompletes
    \/ WritePart
    \/ WriteCompletes

Owner ==
    \/ start
    \/ Len(asked) < MaxSends /\ async_send(Len(asked) + 1)
    \/ closeAsked < MaxCloses /\ async_close

Next == Owner \/ Thread \/ Network

\* The thread of the context keeps running ready handlers.
Fairness == WF_vars(Thread)

Spec == Init /\ [][Next]_vars /\ Fairness

-----------------------------------------------------------------------------
(* Properties.                                                             *)

ReadHandlers == {i \in 1..Len(tasks) : tasks[i].op \in ReadOps}

\* At any time at most one read is posted, outstanding or being completed, so
\* no two reads share the buffer of message_parser_ (async_read_next() and
\* process_read_bytes()), and a connection that is processing has one: the
\* chain of reads, which keeps the connection alive, is never broken.
OneReadChain ==
    /\ \A i, j \in ReadHandlers : i = j
    /\ reading => ReadHandlers = {}
    /\ is_processing /\ ~thrown => reading \/ ReadHandlers # {}

\* on_received_ gets the messages of the peer in order, each once and none
\* skipped, whatever the sizes of the reads and whenever the connection closes
\* (process_read_bytes()).
ReceivedInOrder ==
    /\ Len(received) =< Len(inbound)
    /\ \A i \in 1..Len(received) : received[i] = inbound[i]

\* As long as the owner lets no two writes overlap on the socket, which
\* async_send() does not prevent, the messages are written whole and in the
\* order of the calls of async_send(), without gaps: one that is dropped by a
\* stop is never followed by one that is written.
WrittenInOrder ==
    ~overlapped =>
        /\ Len(written) =< Len(asked)
        /\ \A i \in 1..Len(written) : written[i] = asked[i]

\* The owner learns of every stop and of nothing but a stop: unless a handler
\* threw, on_closed_ has been called exactly when the state is STOPPED.
StopReported == ~thrown => (state_ = "STOPPED" <=> closed # <<>>)

\* What stops the executor: a handler throws only after the peer or the path to
\* it broke, or when a message handed to async_send() met a socket that
\* close_in_thread() has closed.  Closes alone never do, in whatever order they
\* run with each other, with reads and with parse errors.
ThrowsForCause ==
    thrown => \/ peer \in {"reset", "lost"}
              \/ socket = "closed" /\ asked # <<>>

\* A stopped connection never processes again and starts no further read.
StopIsFinal ==
    [][state_ = "STOPPED" => state_' = "STOPPED" /\ (reading' => reading)]_vars

\* Every async_close() is followed by a call of on_closed_ (or one happened
\* before), unless a handler throws and stops the executor.
CloseIsReported == closeAsked > 0 ~> (closed # <<>> \/ thrown)

\* What the tests require of on_closed_: it is called once.
ClosedOnce == Len(closed) =< 1
=============================================================================
