-------------------------------- MODULE Server --------------------------------
(***************************************************************************)
(* The life of a server: its configuration, its builder, its acceptors and *)
(* the connections they accept, in the threads of its executor             *)
(* (servers/impl/server_builder_impl.h, server_impl.h,                     *)
(* servers/stop_signal_handler.h, transport/acceptor.h,                    *)
(* connection_list.h).                                                     *)
(*                                                                         *)
(* owner is the thread of the application.  What a connection does with    *)
(* messages is the subject of Connection and ServerConnection; here it is  *)
(* what keeps threads and connections alive.  A connection lives as long   *)
(* as a handler, an outstanding read or write or the loop of               *)
(* async_close_all() holds it, since ServerConnection holds it weakly.     *)
(***************************************************************************)
EXTENDS Executor, Configs, Backends, FiniteSets

CONSTANTS
    TomlFiles,      \* files the application may parse
    MaxFiles,       \* number of files it parses at most
    Texts,          \* texts the application may give to listen_to()
    MaxURIs,        \* number of URIs up to which it calls listen_to()
    MaxEndpoints,   \* largest number of endpoints a host resolves to
    MaxTraffic      \* number of connections and messages, together, at most

ASSUME BoundsAssumption ==
    MaxFiles \in Nat /\ MaxURIs \in Nat /\ MaxEndpoints \in Nat /\ MaxTraffic \in Nat

\* MaxThreads is a bound for what files ask for.
ASSUME FilesAssumption == \A file \in TomlFiles : WellFormed(file, MaxThreads)

VARIABLES
    configs,        \* the maps of ConfigParser
    files,          \* number of files parsed
    uris,           \* uris_ of the builder
    owner,          \* where the thread of the application is
    last,           \* last_exception of run_until_signal() is set
    asked,          \* acceptors that stop_acceptors() has gone through
    signalled,      \* the context of StopSignalHandler is stopped
    acceptors,      \* the acceptors of the server
    conn,           \* the connections
    listed,         \* list_ of the acceptors' ConnectionLists
    mutex,          \* context whose thread holds the mutex_ of each list
    task,           \* what the thread of each context is in the middle of
    todo,           \* connections async_close_all() has still to go through
    received        \* number of messages received

building == <<configs, files, uris>>
application == <<building, owner, last, asked, signalled>>
connections == <<conn, listed, received>>
closing == <<mutex, task, todo>>
serverVars == <<application, acceptors, connections, closing>>
lifeVars == <<executorVars, serverVars>>

AllConnections == 1..MaxTraffic
AcceptorIndices == DOMAIN acceptors

Free == <<"none", 0>>       \* no context
Handler(fn, of, result) == [fn |-> fn, of |-> of, result |-> result]
Task(fn, of) == [fn |-> fn, of |-> of]
Idle == Task("none", 0)

Acceptor(x) == [context |-> x, state |-> "INIT", accepting |-> FALSE, socket |-> Free]

\* A connection is "open", "ended" (STOPPED with an open socket), "closed" or
\* "destroyed".  reading and writing: an operation on its socket is outstanding;
\* unsent, sending: message_queue_ and is_sending_ of its ServerConnection;
\* reset: its peer has reset it; late: it was accepted before the stop of its
\* acceptor and is handled after it.
Connection(a, x, state, late) ==
    [of |-> a, context |-> x, state |-> state, reading |-> FALSE, writing |-> FALSE,
     unsent |-> 0, sending |-> FALSE, reset |-> FALSE, late |-> late]
NoConnection == Connection(0, Free, "none", FALSE)

ServerInit ==
    /\ ExecutorInit
    /\ configs = NoConfigs /\ files = 0 /\ uris = <<>>
    /\ owner = "configuring" /\ last = FALSE /\ asked = {} /\ signalled = FALSE
    /\ acceptors = <<>>
    /\ conn = [c \in AllConnections |-> NoConnection]
    /\ listed = {} /\ received = 0
    /\ mutex = <<>>
    /\ task = [x \in AllContexts |-> Idle]
    /\ todo = {}

-----------------------------------------------------------------------------
(* Configuring and building.                                               *)

\* ConfigParser::parse(); the application may go on after an exception.
ParseFile(file) ==
    /\ owner = "configuring" /\ files < MaxFiles
    /\ configs' = parse_toml(file, configs).value
    /\ files' = files + 1
    /\ UNCHANGED <<executorVars, uris, owner, last, asked, signalled, acceptors>>
    /\ UNCHANGED <<connections, closing>>

\* server_config() and create_default_builder_impl()
CreateBuilder(name) ==
    LET r == config_of(configs, "server", name)
    IN /\ owner = "configuring"
       /\ Succeeded(r)
       /\ create_executor(r.value.executor)
       /\ uris' = r.value.uris
       /\ configs' = NoConfigs /\ files' = 0
       /\ owner' = "building"
       /\ UNCHANGED <<last, asked, signalled, acceptors, connections, closing>>

\* ServerBuilder::listen_to(); a text that is no URI changes nothing.
ListenTo(text) ==
    /\ owner = "building" /\ Len(uris) < MaxURIs
    /\ Succeeded(Parse(text))
    /\ uris' = Append(uris, Parse(text).value)
    /\ UNCHANGED <<executorVars, configs, files, owner, last, asked, signalled, acceptors>>
    /\ UNCHANGED <<connections, closing>>

\* The uses of context() for a URI: TCPAcceptorFactory takes one for its
\* resolver, each acceptor one.
TCPUses(endpoints) == <<"resolver">> \o [i \in 1..endpoints |-> "acceptor"]
UnixSocketUses == <<"acceptor">>
Uses(uri, endpoints) == IF uri.scheme = "tcp" THEN TCPUses(endpoints) ELSE UnixSocketUses

\* Those of all URIs, one after the other
AllUses(endpoints) ==
    LET upTo[i \in 0..Len(uris)] ==
            IF i = 0 THEN <<>> ELSE upTo[i - 1] \o Uses(uris[i], endpoints[i])
    IN upTo[Len(uris)]

\* ServerBuilderImpl::build() up to the start of the server.  An acceptor is
\* known by the use of context() that gave it its context.
Build(hasUnixSockets) ==
    /\ owner = "building"
    /\ uris # <<>>
    /\ \A i \in DOMAIN uris :
          Succeeded(find(DefaultBackends(hasUnixSockets), uris[i].scheme))
    /\ \E endpoints \in [DOMAIN uris -> 1..MaxEndpoints] :
          LET uses == AllUses(endpoints)
              made == {i \in DOMAIN uses : uses[i] = "acceptor"}
          IN /\ acceptors' = [a \in made |-> Acceptor(ContextAfter("TRANSPORT", a - 1))]
             /\ mutex' = [a \in made |-> Free]
             /\ index' = IndexAfter("TRANSPORT", Len(uses))
    /\ owner' = "starting"
    /\ uris' = <<>>
    /\ UNCHANGED <<size, queue, guards, halted, thread, exception>>
    /\ UNCHANGED <<configs, files, last, asked, signalled, connections, task, todo>>

\* build() throws: without a URI or a backend, or if a host is not resolved or
\* an address not bound, after some uses of context().  The builder keeps its
\* URIs, and the application may add others and build again.
BuildThrows ==
    /\ owner = "building"
    /\ \E n \in 0..(Len(uris) * (MaxEndpoints + 1)) : index' = IndexAfter("TRANSPORT", n)
    /\ UNCHANGED <<size, queue, guards, halted, thread, exception, serverVars>>

\* The application gives the builder up; the executor is destroyed before it had
\* a thread.
GiveUp ==
    /\ owner = "building"
    /\ Clear
    /\ owner' = "failed"
    /\ uris' = <<>>
    /\ UNCHANGED <<configs, files, last, asked, signalled, acceptors, connections>>
    /\ UNCHANGED closing

-----------------------------------------------------------------------------
(* ServerImpl::start().                                                    *)

\* Acceptor::start() up to the post, of the acceptors in their order
StartAcceptor(a) ==
    /\ owner = "starting"
    /\ a \in AcceptorIndices /\ acceptors[a].state = "INIT"
    /\ \A b \in AcceptorIndices : b < a => acceptors[b].state = "PROCESSING"
    /\ acceptors' = [acceptors EXCEPT ![a].state = "STARTING"]
    /\ queue' = Posted(acceptors[a].context, Handler("accept_next", a, ""))
    /\ UNCHANGED <<size, index, guards, halted, thread, exception>>
    /\ UNCHANGED <<application, connections, closing>>

\* Acceptor::start(): handle_processing_started()
ProcessingStarted(a) ==
    /\ owner = "starting"
    /\ a \in AcceptorIndices /\ acceptors[a].state = "STARTING"
    /\ acceptors' = [acceptors EXCEPT ![a].state = "PROCESSING"]
    /\ UNCHANGED <<executorVars, application, connections, closing>>

\* Fault: the threads run before the acceptors were started.
ThreadsMayStart == owner = "starting"

\* start_acceptors() and on_exception() come before executor_->start().
AcceptorsStarted ==
    owner = "starting" /\ \A a \in AcceptorIndices : acceptors[a].state = "PROCESSING"

ServerThread(x) ==
    /\ AcceptorsStarted
    /\ StartThread(x)
    /\ UNCHANGED serverVars

Started ==
    /\ AcceptorsStarted /\ AllStarted
    /\ owner' = "running"
    /\ UNCHANGED <<executorVars, building, last, asked, signalled, acceptors>>
    /\ UNCHANGED <<connections, closing>>

\* std::thread throws: start_threads() stops the threads there are before it
\* passes the exception on.
ThreadFails ==
    /\ AcceptorsStarted /\ ~AllStarted
    /\ ResetGuards
    /\ owner' = "unwinding"
    /\ UNCHANGED <<building, last, asked, signalled, acceptors, connections, closing>>

-----------------------------------------------------------------------------
(* ServerImpl::run_until_signal() and stop().                              *)

Goto(from, to) ==
    /\ owner = from
    /\ owner' = to
    /\ UNCHANGED <<executorVars, building, last, asked, signalled, acceptors>>
    /\ UNCHANGED <<connections, closing>>

CallStop == Goto("running", "stopping")
CallRunUntilSignal == Goto("running", "waiting")

\* A signal arrives.
Signal == Goto("waiting", "woken")

\* StopSignalHandler::stop() was called, before wait() or within it.
Wake == signalled /\ Goto("waiting", "woken")

\* last_exception(), then stop()
ReadLastException ==
    /\ owner = "woken"
    /\ last' = exception
    /\ owner' = "stopping"
    /\ UNCHANGED <<executorVars, building, asked, signalled, acceptors>>
    /\ UNCHANGED <<connections, closing>>

\* stop_acceptors(): Acceptor::stop() of each of them in their order
StopAcceptor(a) ==
    /\ owner = "stopping"
    /\ a \in AcceptorIndices \ asked
    /\ \A b \in AcceptorIndices : b < a => b \in asked
    /\ queue' = Posted(acceptors[a].context, Handler("stop", a, ""))
    /\ asked' = asked \cup {a}
    /\ UNCHANGED <<size, index, guards, halted, thread, exception>>
    /\ UNCHANGED <<building, owner, last, signalled, acceptors, connections, closing>>

\* executor_->stop(): the work guards, then join()
StopExecutor ==
    /\ owner = "stopping" /\ asked = AcceptorIndices
    /\ ResetGuards
    /\ owner' = "joining"
    /\ UNCHANGED <<building, last, asked, signalled, acceptors, connections, closing>>

\* Everything is joined: the contexts go with the handlers left in them, and
\* these with the connections they hold; run_until_signal() throws what it read.
\* After a start that failed the destructor of the server comes to the same end.
ClearExecutor ==
    /\ owner \in {"joining", "unwinding"}
    /\ Joined
    /\ Clear
    /\ owner' = IF owner = "unwinding" THEN "failed"
                ELSE IF last THEN "rethrown" ELSE "ended"
    /\ conn' = [c \in AllConnections |-> NoConnection]
    /\ listed' = {} /\ received' = 0
    /\ acceptors' = <<>> /\ asked' = {} /\ mutex' = <<>>
    /\ UNCHANGED <<building, last, signalled, task, todo>>

-----------------------------------------------------------------------------
(* Handlers.  A handler is one step of its thread, but for the loop of     *)
(* async_close_all() and the destructor of a connection.                   *)

Run(x, fn, of) ==
    MayRun(x) /\ task[x] = Idle /\ Head(queue[x]).fn = fn /\ Head(queue[x]).of = of
Result(x) == Head(queue[x]).result

TakenAndPosted(x, y, handler) == [Taken(x) EXCEPT ![y] = Append(@, handler)]

\* async_accept_next(): a socket in the next context, and an accept for it
Accepting(a) ==
    [acceptors EXCEPT ![a].accepting = TRUE, ![a].socket = context("TRANSPORT")]

RunAcceptNext(x, a) ==
    /\ Run(x, "accept_next", a)
    /\ acceptors' = Accepting(a)
    /\ index' = IndexAfter("TRANSPORT", 1)
    /\ queue' = Taken(x)
    /\ UNCHANGED <<size, guards, halted, thread, exception>>
    /\ UNCHANGED <<application, connections, closing>>

Unused == {c \in AllConnections : conn[c].state = "none"}

\* ConnectionList::append()
ListedWith(c) == listed \cup {c}

\* on_accept(): the connection is listed and starts to read, and the next accept
\* follows unless the acceptor was stopped.
OnAccept(x, a, c) ==
    LET y == acceptors[a].socket
        on == acceptors[a].state = "PROCESSING"
    IN /\ Run(x, "on_accept", a) /\ Result(x) = "ok"
       /\ c \in Unused /\ \A d \in Unused : c <= d
       /\ conn' = [conn EXCEPT ![c] = Connection(a, y, "open", ~on)]
       /\ listed' = ListedWith(c)
       /\ queue' = TakenAndPosted(x, y, Handler("read_next", c, ""))
       /\ acceptors' = IF on THEN Accepting(a) ELSE acceptors
       /\ index' = IF on THEN IndexAfter("TRANSPORT", 1) ELSE index
       /\ UNCHANGED <<size, guards, halted, thread, exception>>
       /\ UNCHANGED <<application, closing, received>>

OnAcceptAborted(x, a) ==
    /\ Run(x, "on_accept", a) /\ Result(x) = "aborted"
    /\ queue' = Taken(x)
    /\ UNCHANGED <<size, index, guards, halted, thread, exception, serverVars>>

\* on_accept() throws: for an error of the accept, and when the peer is gone
\* again before remote_endpoint() of its connection is read.
OnAcceptThrows(x, a) ==
    /\ Run(x, "on_accept", a) /\ Result(x) \in {"ok", "error"}
    /\ queue' = Taken(x)
    /\ thread' = Thrown(x)
    /\ UNCHANGED <<size, index, guards, halted, exception, serverVars>>

-----------------------------------------------------------------------------
(* Acceptor::stop_in_thread() and ConnectionList::async_close_all().       *)

\* cancel() and close() of the acceptor; handle_stop_requested() lets only the
\* first stop through.
Cancelled(x, a) ==
    /\ Run(x, "stop", a)
    /\ acceptors' = [acceptors EXCEPT ![a].state = "STOPPED", ![a].accepting = FALSE]
    /\ queue' = IF acceptors[a].accepting
                THEN TakenAndPosted(x, x, Handler("on_accept", a, "aborted"))
                ELSE Taken(x)
    /\ UNCHANGED <<size, index, guards, halted, thread, exception>>
    /\ UNCHANGED <<application, connections>>

\* Fault: the connections are left open.
StopAcceptingOnly(x, a) == Cancelled(x, a) /\ UNCHANGED closing

\* The loop begins with the lock of the list.
StopInThread(x, a) ==
    /\ Cancelled(x, a)
    /\ mutex[a] = Free
    /\ mutex' = [mutex EXCEPT ![a] = x]
    /\ task' = [task EXCEPT ![x] = Task("closing", a)]
    /\ todo' = todo \cup {c \in listed : conn[c].of = a}

\* What holds a connection, besides the loop
ConnectionHandlers == {"read_next", "on_read", "send", "on_sent", "close"}
Referenced(c) ==
    \/ conn[c].reading \/ conn[c].writing
    \/ \E x \in Contexts : \E i \in DOMAIN queue[x] :
          queue[x][i].of = c /\ queue[x][i].fn \in ConnectionHandlers
InLoop(c) == \E x \in Contexts : task[x] \in {Task("post", c), Task("drop", c)}

\* pair.second.lock(): the loop holds the connection from here on
LockNext(x) ==
    /\ task[x].fn = "closing"
    /\ \E c \in todo :
          /\ conn[c].of = task[x].of
          /\ todo' = todo \ {c}
          /\ task' = IF Referenced(c) THEN [task EXCEPT ![x] = Task("post", c)] ELSE task
    /\ UNCHANGED <<executorVars, application, acceptors, connections, mutex>>

\* Connection::async_close()
PostClose(x) ==
    LET c == task[x].of
    IN /\ task[x].fn = "post"
       /\ queue' = Posted(conn[c].context, Handler("close", c, ""))
       /\ task' = [task EXCEPT ![x] = Task("drop", c)]
       /\ UNCHANGED <<size, index, guards, halted, thread, exception>>
       /\ UNCHANGED <<application, acceptors, connections, mutex, todo>>

\* The end of the body: the reference is dropped, with the lock still held.
DropReference(x) ==
    LET c == task[x].of
    IN /\ task[x].fn = "drop"
       /\ task' = [task EXCEPT ![x] = IF Referenced(c) THEN Task("closing", conn[c].of)
                                      ELSE Task("destroy", c)]
       /\ UNCHANGED <<executorVars, application, acceptors, connections, mutex, todo>>

EndLoop(x) ==
    LET a == task[x].of
    IN /\ task[x].fn = "closing"
       /\ \A c \in todo : conn[c].of # a
       /\ mutex' = [mutex EXCEPT ![a] = Free]
       /\ task' = [task EXCEPT ![x] = Idle]
       /\ UNCHANGED <<executorVars, application, acceptors, connections, todo>>

\* ~Connection() and ConnectionList::remove()
Destroy(x) ==
    LET c == task[x].of
    IN /\ task[x].fn = "destroy"
       /\ mutex[conn[c].of] = Free
       /\ conn' = [conn EXCEPT ![c].state = "destroyed"]
       /\ listed' = listed \ {c}
       /\ task' = [task EXCEPT ![x] = Idle]
       /\ UNCHANGED <<executorVars, application, acceptors, received, mutex, todo>>

-----------------------------------------------------------------------------
(* Handlers of connections.                                                *)

\* A handler gives up its reference when it ends, and destroys the connection
\* if that was the last one.
Released(x, c) ==
    task' = IF Referenced(c)' \/ InLoop(c) THEN task
            ELSE [task EXCEPT ![x] = Task("destroy", c)]

Untouched ==
    /\ UNCHANGED <<size, guards, halted, exception, application, acceptors>>
    /\ UNCHANGED <<listed, received, mutex, todo>>

\* async_read_next(), first
RunReadNext(x, c) ==
    /\ Run(x, "read_next", c)
    /\ conn' = [conn EXCEPT ![c].reading = TRUE]
    /\ queue' = Taken(x)
    /\ Untouched /\ UNCHANGED <<index, thread>>
    /\ Released(x, c)

\* process_read_bytes() with a request for the callback threads, or a response,
\* for which a server closes the connection; then the next read
OnMessage(x, c) ==
    /\ Run(x, "on_read", c)
    /\ \/ /\ Result(x) = "request"
          /\ queue' = TakenAndPosted(x, context("CALLBACK"), Handler("request", c, ""))
          /\ index' = IndexAfter("CALLBACK", 1)
       \/ /\ Result(x) = "response"
          /\ queue' = TakenAndPosted(x, x, Handler("close", c, ""))
          /\ UNCHANGED index
    /\ conn' = [conn EXCEPT ![c].reading = conn[c].state = "open"]
    /\ Untouched /\ UNCHANGED thread
    /\ Released(x, c)

\* An operation that ends with the connection, or was aborted.
OperationEnds(x, c, fn) ==
    /\ Run(x, fn, c) /\ Result(x) \in {"eof", "aborted"}
    /\ conn' = IF Result(x) = "eof" /\ conn[c].state = "open"
               THEN [conn EXCEPT ![c].state = "ended"] ELSE conn
    /\ queue' = Taken(x)
    /\ Untouched /\ UNCHANGED <<index, thread>>
    /\ Released(x, c)

\* An operation that ends with another error.
OperationThrows(x, c, fn) ==
    /\ Run(x, fn, c) /\ Result(x) = "error"
    /\ queue' = Taken(x)
    /\ thread' = Thrown(x)
    /\ Untouched /\ UNCHANGED <<index, conn>>
    /\ Released(x, c)

\* process_read_bytes() with an error
OnReadEnds(x, c) == OperationEnds(x, c, "on_read") \/ OperationThrows(x, c, "on_read")

\* send_next_if_exists() in the thread of x, with the ServerConnection as in s.
\* The connection may be gone, and ignores the message unless it processes.
SendNext(x, c, s) ==
    LET next == ~s.sending /\ s.unsent > 0
        posts == next /\ s.state = "open" /\ (Referenced(c) \/ InLoop(c))
    IN /\ conn' = [conn EXCEPT ![c] = IF next THEN [s EXCEPT !.unsent = @ - 1, !.sending = TRUE]
                                      ELSE s]
       /\ queue' = IF posts THEN TakenAndPosted(x, s.context, Handler("send", c, ""))
                   ELSE Taken(x)

\* on_request() in a callback thread
RunRequest(x, c) ==
    /\ Run(x, "request", c)
    /\ SendNext(x, c, [conn[c] EXCEPT !.unsent = @ + 1])
    /\ Untouched /\ UNCHANGED <<index, thread, task>>

\* async_send_in_thread(): a write of a closed socket fails at once.
RunSend(x, c) ==
    /\ Run(x, "send", c)
    /\ IF conn[c].state = "closed"
       THEN /\ queue' = TakenAndPosted(x, x, Handler("on_sent", c, "error"))
            /\ UNCHANGED conn
       ELSE /\ queue' = Taken(x)
            /\ conn' = [conn EXCEPT ![c].writing = TRUE]
    /\ Untouched /\ UNCHANGED <<index, thread>>
    /\ Released(x, c)

\* on_sent() after a write
OnSent(x, c) ==
    /\ Run(x, "on_sent", c) /\ Result(x) = "ok"
    /\ SendNext(x, c, [conn[c] EXCEPT !.sending = FALSE])
    /\ Untouched /\ UNCHANGED <<index, thread>>
    /\ Released(x, c)

\* on_sent() with an error
OnSentEnds(x, c) == OperationEnds(x, c, "on_sent") \/ OperationThrows(x, c, "on_sent")

\* socket_.cancel() aborts an operation that is outstanding.
Aborted(Q, x, c, fn, outstanding) ==
    IF outstanding THEN [Q EXCEPT ![x] = Append(@, Handler(fn, c, "aborted"))] ELSE Q

\* close_in_thread() of a connection that has stopped does nothing: a write that
\* is outstanding then goes on.  shutdown() may throw after the cancel.
CloseInThread(x, c) ==
    LET open == conn[c].state = "open"
    IN /\ Run(x, "close", c)
       /\ conn' = IF open THEN [conn EXCEPT ![c].state = "closed", ![c].reading = FALSE,
                                            ![c].writing = FALSE]
                  ELSE conn
       /\ queue' = Aborted(Aborted(Taken(x), x, c, "on_read", open /\ conn[c].reading),
                           x, c, "on_sent", open /\ conn[c].writing)
       /\ thread' \in {thread} \cup IF open THEN {Thrown(x)} ELSE {}
       /\ Untouched /\ UNCHANGED index
       /\ Released(x, c)

-----------------------------------------------------------------------------
(* The end of threads.                                                     *)

HasOperations(x) ==
    \/ \E a \in AcceptorIndices : acceptors[a].accepting /\ acceptors[a].context = x
    \/ \E c \in AllConnections : /\ conn[c].reading \/ conn[c].writing
                                 /\ conn[c].context = x

\* Fault: nobody is told of the exception.
EndSilently(x) == EndThread(x) /\ UNCHANGED serverVars

\* The function given to on_exception() stops the StopSignalHandler.
ReportException(x) ==
    /\ EndThread(x)
    /\ signalled' = TRUE
    /\ UNCHANGED <<building, owner, last, asked, acceptors, connections, closing>>

ThreadEnds(x) ==
    \/ task[x] = Idle /\ (Exit(x, HasOperations(x)) \/ RecordException(x)) /\ UNCHANGED serverVars
    \/ interrupt_threads(x) /\ UNCHANGED serverVars
    \/ ReportException(x)

-----------------------------------------------------------------------------
(* Peers.                                                                  *)

Queued(fn, of) ==
    UNION {{<<x, i>> : i \in {j \in DOMAIN queue[x] :
                                queue[x][j].fn = fn /\ queue[x][j].of = of}} : x \in Contexts}

\* Connections that were or are about to be accepted, and messages
Traffic ==
    received + Cardinality(AllConnections \ Unused)
    + Cardinality({a \in AcceptorIndices : Queued("on_accept", a) # {}})

Completes(x, handler) ==
    /\ queue' = Posted(x, handler)
    /\ UNCHANGED <<size, index, guards, halted, thread, exception>>
    /\ UNCHANGED <<application, listed, closing>>

\* The outstanding accept of an acceptor completes.
AcceptCompletes(a) ==
    /\ acceptors[a].accepting
    /\ \E result \in {"ok", "error"} :
          /\ result = "ok" => Traffic < MaxTraffic
          /\ Completes(acceptors[a].context, Handler("on_accept", a, result))
    /\ acceptors' = [acceptors EXCEPT ![a].accepting = FALSE]
    /\ UNCHANGED <<conn, received>>

\* The outstanding read of a connection completes.
ReadCompletes(c) ==
    /\ conn[c].reading
    /\ \E result \in {"request", "response", "eof", "error"} :
          /\ result \in {"request", "response"} => Traffic < MaxTraffic
          /\ Completes(conn[c].context, Handler("on_read", c, result))
          /\ received' = received + IF result \in {"request", "response"} THEN 1 ELSE 0
    /\ conn' = [conn EXCEPT ![c].reading = FALSE]
    /\ UNCHANGED acceptors

\* The outstanding write of a connection completes: the peer has read it, or the
\* buffers between the two have room for it, which may never be.
WriteCompletes(c) ==
    /\ conn[c].writing /\ ~conn[c].reset
    /\ \E result \in {"ok", "error"} :
          Completes(conn[c].context, Handler("on_sent", c, result))
    /\ conn' = [conn EXCEPT ![c].writing = FALSE]
    /\ UNCHANGED <<acceptors, received>>

\* The peer resets a connection with a write outstanding; without one the read
\* completes as at the end of the stream.
Resets(c) ==
    /\ conn[c].writing /\ ~conn[c].reset
    /\ conn' = [conn EXCEPT ![c].reset = TRUE]
    /\ UNCHANGED <<executorVars, application, acceptors, listed, received, closing>>

\* After that no operation stays outstanding.
ResetEnds(c) ==
    /\ conn[c].reset
    /\ \/ /\ conn[c].reading
          /\ Completes(conn[c].context, Handler("on_read", c, "eof"))
          /\ conn' = [conn EXCEPT ![c].reading = FALSE]
       \/ /\ conn[c].writing
          /\ Completes(conn[c].context, Handler("on_sent", c, "eof"))
          /\ conn' = [conn EXCEPT ![c].writing = FALSE]
    /\ UNCHANGED <<acceptors, received>>

-----------------------------------------------------------------------------
(* The specification.                                                      *)

Configure ==
    \/ \E file \in TomlFiles : ParseFile(file)
    \/ \E name \in DOMAIN configs["server"] : CreateBuilder(name)
    \/ \E text \in Texts : ListenTo(text)

Starting ==
    \/ \E hasUnixSockets \in BOOLEAN : Build(hasUnixSockets)
    \/ \E a \in AcceptorIndices : StartAcceptor(a) \/ ProcessingStarted(a)
    \/ \E x \in AllContexts : ServerThread(x)
    \/ Started

Stopping ==
    \/ Wake \/ ReadLastException \/ StopExecutor \/ ClearExecutor
    \/ \E a \in AcceptorIndices : StopAcceptor(a)

Faults == BuildThrows \/ GiveUp \/ ThreadFails
Decisions == CallStop \/ CallRunUntilSignal \/ Signal

Peers ==
    \/ \E a \in AcceptorIndices : AcceptCompletes(a)
    \/ \E c \in AllConnections : ReadCompletes(c) \/ WriteCompletes(c) \/ Resets(c)

AcceptorStep(x, a) ==
    \/ RunAcceptNext(x, a) \/ OnAcceptAborted(x, a) \/ OnAcceptThrows(x, a)
    \/ \E c \in AllConnections : OnAccept(x, a, c)
    \/ StopInThread(x, a)

ConnectionStep(x, c) ==
    \/ RunReadNext(x, c) \/ OnMessage(x, c) \/ OnReadEnds(x, c)
    \/ RunRequest(x, c) \/ RunSend(x, c) \/ OnSent(x, c) \/ OnSentEnds(x, c)
    \/ CloseInThread(x, c)

ThreadStep(x) ==
    /\ thread[x] \notin {"none", "finished"}
    /\ \/ \E a \in AcceptorIndices : AcceptorStep(x, a)
       \/ \E c \in AllConnections : ConnectionStep(x, c)
       \/ LockNext(x) \/ PostClose(x) \/ DropReference(x) \/ EndLoop(x) \/ Destroy(x)
       \/ ThreadEnds(x)

Broken == \E c \in AllConnections : ResetEnds(c)

ServerNext ==
    \/ Configure \/ Starting \/ Stopping \/ Faults \/ Decisions \/ Peers \/ Broken
    \/ \E x \in AllContexts : ThreadStep(x)

\* The threads of the executor and the application go on with what they are in,
\* and operations on broken connections end; peers, signals and the choices of
\* the application may fail to come.
ServerFairness ==
    /\ WF_lifeVars(Starting)
    /\ WF_lifeVars(Stopping)
    /\ WF_lifeVars(Broken)
    /\ \A x \in AllContexts : WF_lifeVars(ThreadStep(x))

ServerSpec == ServerInit /\ [][ServerNext]_lifeVars /\ ServerFairness

-----------------------------------------------------------------------------
(* Properties.                                                             *)

Failing == exception \/ \E x \in AllContexts : thread[x] = "caught"

Links(a) ==
    Cardinality(Queued("accept_next", a)) + Cardinality(Queued("on_accept", a))
    + IF acceptors[a].accepting THEN 1 ELSE 0

\* From its start to its stop an acceptor has exactly one accept under way,
\* unless an exception ended the executor, and none is begun on an acceptor that
\* was stopped: the first accept is posted before the state is PROCESSING
\* (Acceptor::start() and on_accept()).
AcceptChainAlive ==
    \A a \in AcceptorIndices :
        /\ Links(a) <= 1
        /\ acceptors[a].state \in {"STARTING", "PROCESSING"} /\ ~Failing => Links(a) = 1
        /\ acceptors[a].state \in {"INIT", "STOPPED"} =>
              ~acceptors[a].accepting /\ Queued("accept_next", a) = {}

\* As long as acceptors are built or a thread of the executor runs, context() has
\* a context of either type to give (get_context_index() takes a remainder).
ContextsExist ==
    \/ owner \in {"building", "starting", "running", "waiting", "woken", "stopping"}
    \/ \E x \in AllContexts : thread[x] \notin {"none", "finished"}
    => \A t \in Types : size[t] > 0

\* A thread that destroys a connection does not hold the list it has to remove it
\* from: async_close_all() does not wait for itself.
NoSelfDeadlock ==
    \A x \in AllContexts : task[x].fn = "destroy" => mutex[conn[task[x].of].of] # x

\* A connection that was accepted before the stop and handled after it.
LateConnection == \E c \in AllConnections : conn[c].late /\ conn[c].state = "open"

\* A response that a peer does not read, after it has ended its side of the
\* connection: the connection has stopped, and nothing aborts the write.
UnreadResponse == \E c \in AllConnections : conn[c].writing /\ conn[c].state = "ended"

\* stop() comes to its end whatever the threads were at, though peers keep their
\* connections open and read no response: every connection is closed, every
\* accept, read and write cancelled, every thread runs out of work.  It may not
\* if a connection was accepted too late to be closed, if one had ended before
\* the stop with a response unread, or if a thread waits for itself.
StopReturns ==
    owner = "stopping" ~> \/ owner \in {"ended", "rethrown"}
                          \/ LateConnection \/ UnreadResponse \/ ~NoSelfDeadlock

\* An exception in a thread of the executor ends run_until_signal(), which throws
\* it, even if it came before the application began to wait.
ExceptionEndsRun ==
    owner = "waiting" /\ exception ~> owner = "rethrown" \/ ~NoSelfDeadlock
=============================================================================
