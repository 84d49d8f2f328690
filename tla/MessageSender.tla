----------------------------- MODULE MessageSender -----------------------------
(***************************************************************************)
(* The sender of a client (clients/impl/message_sender.h and               *)
(* sent_message_queue.h) with the callbacks by which ClientImpl::start()   *)
(* connects it to the ClientConnector.                                     *)
(*                                                                         *)
(* send() runs in threads of the user, the callbacks in the transport      *)
(* thread; all of them run send_next(), which reads is_sending_, the       *)
(* connection and the front of the queue one after the other before it     *)
(* takes is_sending_ with an exchange.  Each of these accesses is a step.  *)
(*                                                                         *)
(* A connection is abstracted to the messages it accepted and has not      *)
(* reported yet (inflight): async_send() is ignored unless the connection  *)
(* is up, and on_sent is called once per written message.  A connection    *)
(* that stops drops what will not be written.  The rest may be written,    *)
(* and reported, at any later time: when the peer ends its side of the     *)
(* stream the socket is neither cancelled nor closed (process_read_bytes() *)
(* of Connection), so an outstanding write goes on beside the connection   *)
(* that replaces this one.                                                 *)
(***************************************************************************)
EXTENDS Naturals, Sequences

CONSTANTS
    Users,              \* threads that call send()
    Transport,          \* the transport thread
    MaxMessages,        \* bound: calls of send()
    MaxConnections, MaxReports, InitialWait, MaxWait  \* see ClientConnector

ASSUME UsersAssumption == Transport \notin Users
ASSUME MessagesAssumption == MaxMessages \in Nat
ASSUME ConnectorAssumption ==   \* of ClientConnector
    /\ InitialWait \in Nat \ {0} /\ MaxWait \in Nat /\ InitialWait =< MaxWait
    /\ MaxConnections \in Nat /\ MaxReports \in Nat \ {0}

VARIABLES
    sent_messages_,     \* SentMessageQueue::queue_
    is_sending_,
    pc, conn, msg,      \* each thread in send_next(), and its local values
    inflight,           \* per connection: messages accepted, not yet reported
    pushed,             \* history: number of messages pushed so far
    delivered,          \* history: messages written, in order
    underflow,          \* pop() was called on an empty queue
    overtaken,          \* history: a stopped connection reported a write while
                        \* another one was up
    \* variables of ClientConnector
    connection_, is_stopped_, status, reports, closing, connecting, armed,
    next_wait, tpc, tconn, spc

Connector == INSTANCE ClientConnector

connectorVars == <<connection_, is_stopped_, status, reports, closing,
                   connecting, armed, next_wait, tpc, tconn, spc>>
threadVars == <<pc, conn, msg>>
netVars == <<inflight, delivered, overtaken>>
vars == <<sent_messages_, is_sending_, pushed, underflow, threadVars, netVars,
          connectorVars>>

Workers == Users \cup {Transport}
Messages == 1..MaxMessages
PCs == {"idle", "load", "connection", "next", "exchange", "send", "clear"}

TypeOK ==
    /\ sent_messages_ \in Seq(Messages)
    /\ is_sending_ \in BOOLEAN
    /\ pc \in [Workers -> PCs]
    /\ conn \in [Workers -> 0..MaxConnections]
    /\ msg \in [Workers -> 0..MaxMessages]
    /\ inflight \in [1..MaxConnections -> Seq(Messages)]
    /\ pushed \in 0..MaxMessages
    /\ delivered \in Seq(Messages)
    /\ underflow \in BOOLEAN
    /\ overtaken \in BOOLEAN
    /\ Connector!TypeOK

Init ==
    /\ sent_messages_ = <<>>
    /\ is_sending_ = FALSE
    /\ pc = [w \in Workers |-> "idle"]
    /\ conn = [w \in Workers |-> 0]
    /\ msg = [w \in Workers |-> 0]
    /\ inflight = [c \in 1..MaxConnections |-> <<>>]
    /\ pushed = 0
    /\ delivered = <<>>
    /\ underflow = FALSE
    /\ overtaken = FALSE
    /\ Connector!Init

Goto(w, label) == pc' = [pc EXCEPT ![w] = label]

-----------------------------------------------------------------------------
(* send() and the steps of send_next().                                    *)

send(u) ==
    /\ pc[u] = "idle"
    /\ spc # "init"
    /\ pushed < MaxMessages
    /\ pushed' = pushed + 1
    /\ sent_messages_' = Append(sent_messages_, pushed + 1)
    /\ Goto(u, "load")
    /\ UNCHANGED <<is_sending_, underflow, conn, msg, netVars, connectorVars>>

\* The first look at is_sending_.
LoadIsSending(w) ==
    /\ pc[w] = "load"
    /\ Goto(w, IF is_sending_ THEN "idle" ELSE "connection")
    /\ UNCHANGED <<sent_messages_, is_sending_, pushed, underflow, conn, msg,
                   netVars, connectorVars>>

\* get_connection() locks connection_mutex_.
get_connection(w) ==
    /\ pc[w] = "connection"
    /\ conn' = [conn EXCEPT ![w] = connection_]
    /\ Goto(w, IF connection_ = Connector!None THEN "idle" ELSE "next")
    /\ UNCHANGED <<sent_messages_, is_sending_, pushed, underflow, msg, netVars,
                   connectorVars>>

\* sent_messages_.next() copies the front of the queue.
NextMessage(w) ==
    /\ pc[w] = "next"
    /\ IF sent_messages_ = <<>>
       THEN Goto(w, "idle") /\ UNCHANGED msg
       ELSE /\ msg' = [msg EXCEPT ![w] = Head(sent_messages_)]
            /\ Goto(w, "exchange")
    /\ UNCHANGED <<sent_messages_, is_sending_, pushed, underflow, conn,
                   netVars, connectorVars>>

\* Fault: is_sending_ is stored, and what it was is ignored.
StoreIsSending(w) ==
    /\ pc[w] = "exchange"
    /\ is_sending_' = TRUE
    /\ Goto(w, "send")
    /\ UNCHANGED <<sent_messages_, pushed, underflow, conn, msg, netVars,
                   connectorVars>>

ExchangeIsSending(w) ==
    /\ pc[w] = "exchange"
    /\ is_sending_' = TRUE
    /\ Goto(w, IF is_sending_ THEN "idle" ELSE "send")
    /\ UNCHANGED <<sent_messages_, pushed, underflow, conn, msg, netVars,
                   connectorVars>>

\* connection->async_send(): ignored unless the connection is up.
AsyncSend(w) ==
    /\ pc[w] = "send"
    /\ inflight' = IF status[conn[w]] = "up"
                   THEN [inflight EXCEPT ![conn[w]] = Append(@, msg[w])]
                   ELSE inflight
    /\ Goto(w, "idle")
    /\ UNCHANGED <<sent_messages_, is_sending_, pushed, underflow, conn, msg,
                   delivered, overtaken, connectorVars>>

send_next(w) ==
    \/ LoadIsSending(w)
    \/ get_connection(w)
    \/ NextMessage(w)
    \/ ExchangeIsSending(w)
    \/ AsyncSend(w)

-----------------------------------------------------------------------------
(* Callbacks in the transport thread.                                      *)

TransportIsFree == pc[Transport] = "idle" /\ tpc = "idle"

\* handle_sent_message(), first the pop of the queue.  The message that was
\* written leaves the connection.  Nothing tells which connection wrote it, or
\* whether it is the one at the front of the queue.
SentMessage(c) ==
    /\ TransportIsFree
    /\ inflight[c] # <<>>
    /\ delivered' = Append(delivered, Head(inflight[c]))
    /\ inflight' = [inflight EXCEPT ![c] = Tail(@)]
    /\ overtaken' = IF status[c] # "up" /\ Connector!Up # {}
                    THEN TRUE ELSE overtaken
    /\ IF sent_messages_ = <<>>
       THEN underflow' = TRUE /\ UNCHANGED sent_messages_
       ELSE sent_messages_' = Tail(sent_messages_) /\ UNCHANGED underflow
    /\ Goto(Transport, "clear")
    /\ UNCHANGED <<is_sending_, pushed, conn, msg, connectorVars>>

\* Fault: send_next() does not follow.
ClearOnly ==
    /\ pc[Transport] = "clear"
    /\ is_sending_' = FALSE
    /\ Goto(Transport, "idle")
    /\ UNCHANGED <<sent_messages_, pushed, underflow, conn, msg, netVars,
                   connectorVars>>

\* Then is_sending_ is cleared, and send_next() follows.
ClearIsSending ==
    /\ pc[Transport] = "clear"
    /\ is_sending_' = FALSE
    /\ Goto(Transport, "load")
    /\ UNCHANGED <<sent_messages_, pushed, underflow, conn, msg, netVars,
                   connectorVars>>

handle_sent_message ==
    (\E c \in 1..MaxConnections : SentMessage(c)) \/ ClearIsSending

\* on_connection of ClientImpl::start(): send_next().
OnConnection ==
    /\ pc[Transport] = "idle"
    /\ Connector!ConnectionCallback
    /\ Goto(Transport, "load")
    /\ UNCHANGED <<sent_messages_, is_sending_, pushed, underflow, conn, msg,
                   netVars>>

\* on_closed of ClientImpl::start(): handle_disconnection().
handle_disconnection ==
    /\ Connector!Reconnect
    /\ is_sending_' = FALSE
    /\ UNCHANGED <<sent_messages_, pushed, underflow, threadVars, netVars>>

\* A connection stops, and the first n of its messages will still be written.
ConnectionStops(c) ==
    /\ TransportIsFree
    /\ Connector!on_connection_closed(c)
    /\ \E n \in 0..Len(inflight[c]) :
        inflight' = [inflight EXCEPT ![c] = SubSeq(@, 1, n)]
    /\ UNCHANGED <<sent_messages_, is_sending_, pushed, underflow, threadVars,
                   delivered, overtaken>>

\* Start and stop of the client.
StartConnector ==
    /\ Connector!start
    /\ UNCHANGED <<sent_messages_, is_sending_, pushed, underflow, threadVars,
                   netVars>>

StopConnector ==
    /\ Connector!stop
    /\ UNCHANGED <<sent_messages_, is_sending_, pushed, underflow, threadVars,
                   netVars>>

\* Steps of the connector without a callback of the client.
ConnectorStep ==
    /\ \/ Connector!AdoptConnection
       \/ Connector!async_wait
       \/ Connector!ForgetConnection
       \/ /\ TransportIsFree
          /\ Connector!ConnectEnds \/ Connector!TimerFires
    /\ UNCHANGED <<sent_messages_, is_sending_, pushed, underflow, threadVars,
                   netVars>>

-----------------------------------------------------------------------------

TransportThread ==
    \/ send_next(Transport)
    \/ handle_sent_message
    \/ OnConnection
    \/ handle_disconnection
    \/ ConnectorStep

UserThread(u) == send(u) \/ send_next(u)

Next ==
    \/ StartConnector
    \/ StopConnector
    \/ \E u \in Users : UserThread(u)
    \/ TransportThread
    \/ \E c \in 1..MaxConnections : ConnectionStops(c)

\* Threads keep running; connecting, the timer and each write come to an end
\* (of a stopped connection: each write that it did not drop).
Fairness ==
    /\ \A u \in Users : WF_vars(send_next(u))
    /\ WF_vars(TransportThread)
    /\ WF_vars(StartConnector)

Spec == Init /\ [][Next]_vars /\ Fairness

-----------------------------------------------------------------------------
(* Properties.                                                             *)

\* A connection never has two messages in flight: two async_write() operations
\* never overlap, whatever threads run send_next() and however often the
\* client reconnects.  This needs connections that report their end once: a
\* second report clears is_sending_ while the next connection is writing.  So
\* does a write of a stopped connection that is reported only when another
\* connection is up.
OneInFlight ==
    Connector!ReportedOnce /\ ~overtaken =>
        \A c \in 1..MaxConnections : Len(inflight[c]) =< 1

Disconnected == \E c \in 1..MaxConnections : status[c] = "down"

\* No lost wake-up: as long as the first connection lasts, a message that waits
\* in the queue waits for a connection, for the report of a write, or for a
\* thread that is in send_next().
QueueIsWatched ==
    sent_messages_ # <<>> /\ ~Disconnected /\ connection_ # Connector!None =>
        \/ \E w \in Workers : pc[w] # "idle"
        \/ tpc # "idle"
        \/ \E c \in 1..MaxConnections : inflight[c] # <<>>

Delivered == {delivered[i] : i \in 1..Len(delivered)}
Queued == {sent_messages_[i] : i \in 1..Len(sent_messages_)}

\* The tests call methods many times in a row and require that "All calls are
\* processed properly": no message leaves the queue unless it was written.
NothingIsLost == \A m \in 1..pushed : m \in Queued \cup Delivered

\* The tests require that "The client can call methods" after it reconnected:
\* if it stays connected and is not stopped, the queue is emptied.
StaysConnected ==
    spc = "running" /\ connection_ # Connector!None /\ status[connection_] = "up"
ResumesAfterReconnect == <>[]StaysConnected => <>[](sent_messages_ = <<>>)
=============================================================================
