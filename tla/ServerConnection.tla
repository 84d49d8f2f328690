--------------------------- MODULE ServerConnection ---------------------------
(***************************************************************************)
(* A connection of a server (servers/server_connection.h) composed with    *)
(* its transport connection (module Connection).                           *)
(*                                                                         *)
(* on_received() and on_sent() run in the transport thread of the          *)
(* connection, inside the handlers of Connection; on_request() and         *)
(* on_notification() run in the threads of the callback contexts.  The     *)
(* threads share message_queue_, guarded by message_queue_mutex_, and the  *)
(* atomic is_sending_, which on_sent() stores without the mutex.           *)
(***************************************************************************)
EXTENDS Naturals, Sequences, FiniteSets

CONSTANTS
    Threads,        \* threads of the callback contexts
    Transport,      \* the thread of the context of the connection
    Requests, Notifications, Responses,     \* messages the peer may send
    Bad, Faults, MaxIncoming, MaxCloses     \* see Connection

Items == Requests \cup Notifications \cup Responses
Workers == Threads \cup {Transport}

ASSUME ThreadsAssumption == Transport \notin Threads
ASSUME BoundsAssumption ==
    /\ Faults \subseteq {"fin", "reset", "lost"}
    /\ MaxIncoming \in Nat /\ MaxCloses \in Nat
ASSUME KindsAssumption ==
    /\ Requests \cap Notifications = {}
    /\ Requests \cap Responses = {}
    /\ Notifications \cap Responses = {}
    /\ Bad \notin Items

VARIABLES
    message_queue_,     \* responses to be sent
    is_sending_,
    pc,                 \* where each thread is in its handler
    current,            \* the response each thread is handling
    inbox,              \* positions of the messages posted to each callback
                        \* context; the context runs the oldest one first
    pushed,             \* history: responses pushed to message_queue_
    \* variables of Connection
    state_, socket, peer, tasks, reading, writing, inbound, taken, received,
    asked, closeAsked, written, closed, thrown, overlapped

\* async_send() is called by ServerConnection only: no bound is needed.
Conn == INSTANCE Connection WITH MaxSends <- 0

connVars == <<state_, socket, peer, tasks, reading, writing, inbound, taken,
              received, asked, closeAsked, written, closed, thrown, overlapped>>
queueVars == <<message_queue_, is_sending_, pushed>>
vars == <<queueVars, pc, current, inbox, connVars>>

PCs == {"idle", "push", "check", "take", "send"}

TypeOK ==
    /\ message_queue_ \in Seq(Nat)
    /\ is_sending_ \in BOOLEAN
    /\ pc \in [Workers -> PCs]
    /\ current \in [Workers -> Nat]
    /\ inbox \in [Threads -> SUBSET Nat]
    /\ pushed \in Seq(Nat)
    /\ Conn!TypeOK

Init ==
    /\ message_queue_ = <<>>
    /\ is_sending_ = FALSE
    /\ pc = [w \in Workers |-> "idle"]
    /\ current = [w \in Workers |-> 0]
    /\ inbox = [t \in Threads |-> {}]
    /\ pushed = <<>>
    /\ Conn!Init

Goto(w, label) == pc' = [pc EXCEPT ![w] = label]

-----------------------------------------------------------------------------
(* The transport thread.                                                   *)

start == Conn!start /\ UNCHANGED <<queueVars, pc, current, inbox>>

\* stop() of the acceptor closes all its connections.
async_close == Conn!async_close /\ UNCHANGED <<queueVars, pc, current, inbox>>

QuietHandler ==
    /\ pc[Transport] = "idle"
    /\ Conn!QuietHandler
    /\ UNCHANGED <<queueVars, pc, current, inbox>>

\* on_received(), called for each message of a read: requests and
\* notifications are posted to some callback context, a response is invalid
\* and closes the connection (on_invalid_message()).
on_received ==
    /\ pc[Transport] = "idle"
    /\ Conn!IsReadDone("none")
    /\ \E n \in 0..Len(inbound) :
        LET Invalid == {i \in 1..n : Head(tasks).data[i] \in Responses}
            base == Len(received)
        IN /\ Conn!process_read_bytes(n, Cardinality(Invalid))
           /\ \E context \in [1..n -> Threads] :
                inbox' = [t \in Threads |->
                    inbox[t] \cup
                        {base + i : i \in {j \in (1..n) \ Invalid :
                                                context[j] = t}}]
    /\ UNCHANGED <<queueVars, pc, current>>

\* Fault: the end of a write does not look for the next message.
SentOnly ==
    /\ pc[Transport] = "idle"
    /\ Conn!on_sent
    /\ is_sending_' = FALSE
    /\ UNCHANGED <<message_queue_, pushed, pc, current, inbox>>

\* Fault: is_sending_ is not cleared.
StillSending ==
    /\ pc[Transport] = "idle"
    /\ Conn!on_sent
    /\ Goto(Transport, "check")
    /\ UNCHANGED <<queueVars, current, inbox>>

\* on_sent(): is_sending_ is cleared without the mutex, then the next message
\* is sent.
on_sent ==
    /\ pc[Transport] = "idle"
    /\ Conn!on_sent
    /\ is_sending_' = FALSE
    /\ Goto(Transport, "check")
    /\ UNCHANGED <<message_queue_, pushed, current, inbox>>

-----------------------------------------------------------------------------
(* Callback threads.                                                       *)

\* Message k is the next one for thread t, unless an exception stopped the
\* executor.
IsNext(t, k) ==
    /\ pc[t] = "idle"
    /\ ~thrown
    /\ k \in inbox[t]
    /\ \A j \in inbox[t] : k =< j

on_notification(t, k) ==
    /\ IsNext(t, k)
    /\ inbound[k] \in Notifications
    /\ inbox' = [inbox EXCEPT ![t] = @ \ {k}]
    /\ UNCHANGED <<queueVars, pc, current, connVars>>

\* on_request() up to the return of processor_->call(), which turns every
\* failure into a response.
on_request(t, k) ==
    /\ IsNext(t, k)
    /\ inbound[k] \in Requests
    /\ current' = [current EXCEPT ![t] = k]
    /\ inbox' = [inbox EXCEPT ![t] = @ \ {k}]
    /\ Goto(t, "push")
    /\ UNCHANGED <<queueVars, connVars>>

\* message_queue_mutex_ is held across steps only by a thread at "take".
MutexIsFree == \A w \in Workers : pc[w] # "take"

PushResponse(t) ==
    /\ pc[t] = "push"
    /\ MutexIsFree
    /\ message_queue_' = Append(message_queue_, current[t])
    /\ pushed' = Append(pushed, current[t])
    /\ Goto(t, "check")
    /\ UNCHANGED <<is_sending_, current, inbox, connVars>>

-----------------------------------------------------------------------------
(* send_next_if_exists(), run by every thread.                             *)

\* Lock the mutex and look at is_sending_ and the queue.
CheckNext(w) ==
    /\ pc[w] = "check"
    /\ MutexIsFree
    /\ Goto(w, IF is_sending_ \/ message_queue_ = <<>> THEN "idle" ELSE "take")
    /\ UNCHANGED <<queueVars, current, inbox, connVars>>

\* Fault: is_sending_ is not set.
TakeUnmarked(w) ==
    /\ pc[w] = "take"
    /\ current' = [current EXCEPT ![w] = Head(message_queue_)]
    /\ message_queue_' = Tail(message_queue_)
    /\ Goto(w, "send")
    /\ UNCHANGED <<is_sending_, pushed, inbox, connVars>>

\* Fault: the queue is used as a stack.
TakeLast(w) ==
    /\ pc[w] = "take"
    /\ LET n == Len(message_queue_)
       IN /\ current' = [current EXCEPT ![w] = message_queue_[n]]
          /\ message_queue_' = SubSeq(message_queue_, 1, n - 1)
    /\ is_sending_' = TRUE
    /\ Goto(w, "send")
    /\ UNCHANGED <<pushed, inbox, connVars>>

\* Fault: the message stays in the queue.
TakeCopy(w) ==
    /\ pc[w] = "take"
    /\ current' = [current EXCEPT ![w] = Head(message_queue_)]
    /\ is_sending_' = TRUE
    /\ Goto(w, "send")
    /\ UNCHANGED <<message_queue_, pushed, inbox, connVars>>

\* Take the next message, set is_sending_ and unlock the mutex.
TakeNext(w) ==
    /\ pc[w] = "take"
    /\ current' = [current EXCEPT ![w] = Head(message_queue_)]
    /\ message_queue_' = Tail(message_queue_)
    /\ is_sending_' = TRUE
    /\ Goto(w, "send")
    /\ UNCHANGED <<pushed, inbox, connVars>>

\* connection->async_send().  A connection that was destroyed has STOPPED, so
\* skipping the call is what async_send() does.
SendNext(w) ==
    /\ pc[w] = "send"
    /\ Conn!async_send(current[w])
    /\ Goto(w, "idle")
    /\ UNCHANGED <<queueVars, current, inbox>>

send_next_if_exists(w) == CheckNext(w) \/ TakeNext(w) \/ SendNext(w)

-----------------------------------------------------------------------------

TransportThread ==
    QuietHandler \/ on_received \/ on_sent \/ send_next_if_exists(Transport)

CallbackThread(t) ==
    \/ \E k \in inbox[t] : on_notification(t, k) \/ on_request(t, k)
    \/ PushResponse(t)
    \/ send_next_if_exists(t)

Network == Conn!Network /\ UNCHANGED <<queueVars, pc, current, inbox>>

Next ==
    \/ start
    \/ closeAsked < MaxCloses /\ async_close
    \/ TransportThread
    \/ \E t \in Threads : CallbackThread(t)
    \/ Network

\* Every thread keeps running, and the network either takes the bytes of a
\* write or reports that it cannot.
Fairness ==
    /\ WF_vars(TransportThread)
    /\ \A t \in Threads : WF_vars(CallbackThread(t))
    /\ WF_vars(Conn!WriteCompletes /\ UNCHANGED <<queueVars, pc, current, inbox>>)

Spec == Init /\ [][Next]_vars /\ Fairness

-----------------------------------------------------------------------------
(* Properties.                                                             *)

SendHandlers == {i \in 1..Len(tasks) : tasks[i].op = "send"}

\* At most one message is between async_send() and the end of its write,
\* whatever threads call send_next_if_exists(): two async_write() operations
\* never overlap on the socket.
SingleWriter ==
    /\ Len(writing) =< 1
    /\ \A i, j \in SendHandlers : i = j
    /\ writing # <<>> => SendHandlers = {}

\* Responses leave whole and in the order in which the threads pushed them, none
\* lost in between and none sent twice, although they are sent outside of the
\* mutex: no write is started while another is outstanding, which would mix the
\* bytes of the two.
ResponsesInOrder ==
    /\ ~overlapped
    /\ Len(written) =< Len(pushed)
    /\ \A i \in 1..Len(written) : written[i] = pushed[i]

\* No lost wake-up: while the connection is processing and its executor runs, a
\* response that waits in the queue is waiting for a write that will end or for
\* a thread that is about to look at the queue.
QueueIsWatched ==
    message_queue_ # <<>> /\ Conn!is_processing /\ ~thrown =>
        \/ \E w \in Workers : pc[w] \in {"check", "take", "send"}
        \/ writing # <<>>
        \/ \E i \in 1..Len(tasks) : tasks[i].op \in Conn!WriteOps

\* Every request that was received is answered, unless the connection stops:
\* again and again nothing is owed to the peer, which sends finitely much.
Owed == {k \in 1..Len(received) : received[k] \in Requests}
            \ {written[i] : i \in 1..Len(written)}
RequestsAreAnswered == []<>(Owed = {} \/ state_ = "STOPPED" \/ thrown)

\* The server answers only what it was asked, and once.
Abstract == INSTANCE Responder WITH
    requests <- {k \in 1..Len(received) : received[k] \in Requests},
    answers <- written
AnswersRequestsOnce == Abstract!Spec

\* The tests let a server receive a response, close the connection, and require
\* that "no error happens": no handler throws, which would stop the executor of
\* the server.
NoHandlerThrows == ~thrown
=============================================================================
