------------------------- MODULE MessageSenderProofs -------------------------
(***************************************************************************)
(* Proofs about module MessageSender, for any set of user threads and any  *)
(* number of messages, of connections and of reports.  The invariant of    *)
(* the connector is proved in ClientConnectorProofs and carried over to    *)
(* the composition.                                                        *)
(***************************************************************************)
EXTENDS MessageSender, FiniteSetTheorems, TLAPS

P == INSTANCE ClientConnectorProofs

Connections == 1..MaxConnections
NoneUp == \A c \in Connections : status[c] # "up"

\* The types of the variables that MessageSender adds.
SenderTypes ==
    /\ sent_messages_ \in Seq(Messages)
    /\ is_sending_ \in BOOLEAN
    /\ pc \in [Workers -> PCs]
    /\ conn \in [Workers -> 0..MaxConnections]
    /\ msg \in [Workers -> 0..MaxMessages]
    /\ inflight \in [Connections -> Seq(Messages)]
    /\ overtaken \in BOOLEAN
    /\ pushed \in 0..MaxMessages
    /\ delivered \in Seq(Messages)
    /\ underflow \in BOOLEAN

\* What a thread in send_next() holds.
Locals ==
    \A w \in Workers :
        /\ pc[w] \in {"next", "exchange", "send"} => conn[w] # 0
        /\ pc[w] \in {"exchange", "send"} => msg[w] # 0

\* Only connections that were started are held, or hold messages.
Known ==
    /\ connection_ # 0 => status[connection_] \in {"up", "down"}
    /\ \A w \in Workers : conn[w] # 0 => status[conn[w]] \in {"up", "down"}
    /\ \A c \in Connections : inflight[c] # <<>> => status[c] \in {"up", "down"}
    /\ tpc \in {"closed", "on_closed"} => Disconnected

\* The transport thread runs one callback at a time.
Turns == pc[Transport] = "idle" \/ tpc = "idle"

Sends(w, c) == pc[w] = "send" /\ conn[w] = c
Busy(c) == inflight[c] # <<>> \/ \E w \in Workers : Sends(w, c)

\* A connection that is up has at most one thread about to call async_send() or
\* one message in flight; is_sending_ is set then, and not about to be cleared.
OneSender(c) ==
    /\ \A v, w \in Workers : Sends(v, c) /\ Sends(w, c) => v = w
    /\ inflight[c] # <<>> => \A w \in Workers : ~Sends(w, c)
    /\ Busy(c) => is_sending_ /\ pc[Transport] # "clear"

Flight ==
    Connector!ReportedOnce /\ ~overtaken =>
        /\ \A c \in Connections : /\ Len(inflight[c]) =< 1
                                  /\ status[c] = "up" => OneSender(c)
        /\ pc[Transport] = "clear" => is_sending_ \/ NoneUp

\* As long as the first connection lasts, is_sending_ is set for a reason.
SendingIsReal ==
    ~Disconnected /\ is_sending_ =>
        \/ \E w \in Workers : pc[w] = "send"
        \/ pc[Transport] = "clear"
        \/ \E c \in Connections : inflight[c] # <<>>

\* Somebody looks after the queue.
Watched ==
    \/ \E w \in Workers : pc[w] # "idle"
    \/ tpc # "idle"
    \/ \E c \in Connections : inflight[c] # <<>>

WatchedQueue ==
    sent_messages_ # <<>> /\ ~Disconnected /\ connection_ # 0 => Watched

\* The inductive invariant.
IInv ==
    /\ SenderTypes
    /\ P!IInv
    /\ Locals
    /\ Known
    /\ Turns
    /\ Flight
    /\ SendingIsReal
    /\ WatchedQueue

-----------------------------------------------------------------------------
(* The connector of the composition is the one of its proofs.              *)

\* The assumptions of the connector hold.
LEMMA ConnectorAssumptions == P!WaitAssumption /\ P!ConnectionsAssumption
BY ConnectorAssumption DEF P!WaitAssumption, P!ConnectionsAssumption

\* States.
LEMMA SameState ==
    /\ Connector!Init => P!Init
    /\ Connector!TypeOK <=> P!TypeOK
    /\ Connector!ReportedOnce <=> P!ReportedOnce
    /\ P!Connections = Connections /\ Connector!Connections = Connections
    /\ P!None = 0 /\ Connector!None = 0
    /\ P!Up = {c \in Connections : status[c] = "up"}
BY Zenon DEF Connector!Init, P!Init, Connector!TypeOK, P!TypeOK,
   Connector!ReportedOnce, P!ReportedOnce, P!Connections, Connector!Connections,
   Connections, P!None, Connector!None, Connector!TPCs, P!TPCs, P!Up

\* Steps.
LEMMA SameSteps ==
    /\ Connector!start => P!start
    /\ Connector!stop => P!stop
    /\ Connector!ConnectionCallback => P!ConnectionCallback
    /\ Connector!Reconnect => P!Reconnect
    /\ Connector!AdoptConnection => P!AdoptConnection
    /\ Connector!async_wait => P!async_wait
    /\ Connector!ForgetConnection => P!ForgetConnection
    /\ Connector!TimerFires => P!TimerFires
    /\ Connector!on_connection_failure => P!on_connection_failure
    /\ \A c : Connector!on_connection(c) => P!on_connection(c)
    /\ \A c : Connector!on_connection_closed(c) => P!on_connection_closed(c)
BY Zenon DEF Connector!start, P!start, Connector!stop, P!stop,
   Connector!StopFlag, P!StopFlag, Connector!StopRelease, P!StopRelease,
   Connector!StopTimer, P!StopTimer,
   Connector!ConnectionCallback, P!ConnectionCallback,
   Connector!Reconnect, P!Reconnect,
   Connector!AdoptConnection, P!AdoptConnection,
   Connector!async_wait, P!async_wait,
   Connector!compute_waiting_time, P!compute_waiting_time,
   Connector!ForgetConnection, P!ForgetConnection,
   Connector!TimerFires, P!TimerFires,
   Connector!on_connection_failure, P!on_connection_failure,
   Connector!on_connection, P!on_connection,
   Connector!on_connection_closed, P!on_connection_closed,
   Connector!Connections, P!Connections, Connector!None, P!None

\* A thread that sends, and the bookkeeping of sent messages.
WorkerStep ==
    \/ \E u \in Users : send(u)
    \/ \E w \in Workers : send_next(w)
    \/ handle_sent_message

\* A step of the client in which the connector takes one.
ClientStep ==
    \/ StartConnector \/ StopConnector \/ OnConnection \/ handle_disconnection
    \/ ConnectorStep \/ \E c \in Connections : ConnectionStops(c)

\* Every step is of one kind.
LEMMA StepKinds == Next => WorkerStep \/ ClientStep
BY Zenon DEF Next, TransportThread, UserThread, WorkerStep, ClientStep, Workers,
   Connections

\* Every step is one of the connector, or leaves its variables alone.
LEMMA ConnectorNext == [Next]_vars => [P!Next]_(P!vars)
<1> SUFFICES ASSUME [Next]_vars PROVE [P!Next]_(P!vars)
    OBVIOUS
<1>1. CASE ClientStep
  <2>1. CASE StartConnector \/ StopConnector \/ OnConnection \/ handle_disconnection
      BY <2>1, SameSteps, Zenon DEF StartConnector, StopConnector, OnConnection,
         handle_disconnection, P!Next, P!Continue
  <2>2. ASSUME NEW c \in Connections, ConnectionStops(c)
        PROVE  P!Next
      BY <2>2, SameSteps, SameState, Zenon
      DEF ConnectionStops, P!Next, P!ConnectionEnds
  <2>3. CASE ConnectorStep
      BY <2>3, SameSteps, SameState, Zenon DEF ConnectorStep, P!Next, P!Continue,
         P!ConnectEnds, P!Connected, Connector!ConnectEnds, Connector!Connected
  <2>4. QED
      BY <1>1, <2>1, <2>2, <2>3, Zenon DEF ClientStep
<1>2. CASE WorkerStep \/ UNCHANGED vars
  <2>1. UNCHANGED connectorVars
      BY <1>2, Zenon DEF WorkerStep, send, send_next, LoadIsSending, get_connection,
         NextMessage, ExchangeIsSending, AsyncSend, handle_sent_message,
         SentMessage, ClearIsSending, vars
  <2>2. QED
      BY <2>1, Zenon DEF connectorVars, P!vars
<1>3. QED
    BY <1>1, <1>2, StepKinds

\* The invariant of the connector is kept, and reports are never taken back.
LEMMA ConnectorKept ==
    ASSUME P!IInv, [Next]_vars
    PROVE  P!IInv' /\ (Connector!ReportedOnce' => Connector!ReportedOnce)
<1>1. P!IInv'
  <2>1. [P!Next]_(P!vars)
      BY ConnectorNext
  <2>2. P!IInv /\ [P!Next]_(P!vars) => P!IInv'
      BY P!NextIInv, ConnectorAssumptions
  <2>3. QED
      BY <2>1, <2>2
<1>2. CASE UNCHANGED reports
    BY <1>1, <1>2 DEF Connector!ReportedOnce
<1>3. ASSUME NEW c \in Connections, Connector!on_connection_closed(c),
             Connector!ReportedOnce'
      PROVE  Connector!ReportedOnce
    <2>1. reports \in [Connections -> 0..MaxReports] /\ MaxReports \in Nat
        BY SameState, ConnectorAssumption DEF P!IInv, P!TypeOK
    <2>2. \A d \in Connections : reports[d] \in Nat
        BY <2>1
    <2>3. reports' = [reports EXCEPT ![c] = @ + 1]
        BY <1>3 DEF Connector!on_connection_closed
    <2>4. QED
        BY <1>3, <2>1, <2>2, <2>3, SameState DEF Connector!ReportedOnce
<1>4. UNCHANGED reports \/ \E c \in Connections : Connector!on_connection_closed(c)
    BY ConnectorNext, Zenon
    DEF Next, vars, connectorVars, TransportThread, UserThread, send, send_next,
        LoadIsSending, get_connection, NextMessage, ExchangeIsSending, AsyncSend,
        handle_sent_message, SentMessage, ClearIsSending, OnConnection,
        handle_disconnection, ConnectionStops, StartConnector, StopConnector,
        ConnectorStep, Connector!start, Connector!stop, Connector!StopFlag,
        Connector!StopRelease, Connector!StopTimer, Connector!ConnectionCallback,
        Connector!Reconnect, Connector!AdoptConnection, Connector!async_wait,
        Connector!ForgetConnection, Connector!ConnectEnds, Connector!Connected,
        Connector!TimerFires, Connector!on_connection_failure,
        Connector!on_connection, Connections
<1>5. QED
    BY <1>1, <1>2, <1>3, <1>4

-----------------------------------------------------------------------------
(* Types.                                                                  *)

\* Queues of messages.
LEMMA QueueOps ==
    ASSUME NEW S, NEW q \in Seq(S)
    PROVE  /\ Len(q) \in Nat /\ <<>> \in Seq(S)
           /\ \A m \in S : /\ Append(q, m) \in Seq(S) /\ Append(q, m) # <<>>
                           /\ Len(Append(q, m)) = Len(q) + 1
           /\ q # <<>> => /\ Head(q) \in S /\ Tail(q) \in Seq(S)
                          /\ Len(q) >= 1 /\ Len(Tail(q)) = Len(q) - 1
           /\ Len(q) = 0 <=> q = <<>>
<1>1. Len(q) \in Nat /\ <<>> \in Seq(S) /\ (Len(q) = 0 <=> q = <<>>)
    OBVIOUS
<1>2. ASSUME NEW m \in S
      PROVE  /\ Append(q, m) \in Seq(S) /\ Append(q, m) # <<>>
             /\ Len(Append(q, m)) = Len(q) + 1
  <2>1. Append(q, m) \in Seq(S) /\ Len(Append(q, m)) = Len(q) + 1
      OBVIOUS
  <2>2. Len(<<>>) = 0
      OBVIOUS
  <2>3. QED
      BY <1>1, <2>1, <2>2
<1>3. ASSUME q # <<>>
      PROVE  /\ Head(q) \in S /\ Tail(q) \in Seq(S)
             /\ Len(q) >= 1 /\ Len(Tail(q)) = Len(q) - 1
    BY <1>3
<1>4. QED
    BY <1>1, <1>2, <1>3

\* What is left of the messages of a connection that stops.
LEMMA FirstMessages ==
    ASSUME NEW S, NEW q \in Seq(S), NEW n \in 0..Len(q)
    PROVE  SubSeq(q, 1, n) \in Seq(S) /\ Len(SubSeq(q, 1, n)) = n
OBVIOUS

\* They are the types of the module.
LEMMA TypeParts == IInv => SenderTypes /\ TypeOK
<1>1. SenderTypes /\ Connector!TypeOK <=> TypeOK
    BY Zenon DEF TypeOK, SenderTypes, Connections
<1>2. P!IInv => Connector!TypeOK
    BY SameState DEF P!IInv
<1>3. QED
    BY <1>1, <1>2 DEF IInv

\* Threads have them after every step of theirs.
LEMMA WorkerTypes ==
    ASSUME IInv, NEW w \in Workers, send_next(w) \/ send(w)
    PROVE  SenderTypes'
<1> USE DEF SenderTypes, netVars
<1>1. SenderTypes
    BY TypeParts
<1>2. CASE send(w)
  <2>1. pushed + 1 \in Messages /\ pushed + 1 \in 0..MaxMessages
      BY <1>1, <1>2, MessagesAssumption DEF send, Messages
  <2>2. sent_messages_' \in Seq(Messages)
      BY <1>1, <1>2, <2>1, QueueOps DEF send
  <2>3. QED
      BY <1>1, <1>2, <2>1, <2>2 DEF send, Goto, PCs
<1>3. CASE LoadIsSending(w)
    BY <1>1, <1>3 DEF LoadIsSending, Goto, PCs
<1>4. CASE get_connection(w)
  <2>1. connection_ \in 0..MaxConnections
      BY SameState, ConnectorAssumption DEF IInv, P!IInv, P!TypeOK, Connections
  <2>2. QED
      BY <1>1, <1>4, <2>1 DEF get_connection, Goto, PCs
<1>5. CASE NextMessage(w)
  <2>1. sent_messages_ # <<>> => Head(sent_messages_) \in 0..MaxMessages
      BY <1>1, QueueOps, MessagesAssumption DEF Messages
  <2>2. QED
      BY <1>1, <1>5, <2>1 DEF NextMessage, Goto, PCs
<1>6. CASE ExchangeIsSending(w)
    BY <1>1, <1>6 DEF ExchangeIsSending, Goto, PCs
<1>7. CASE AsyncSend(w)
  <2>1. msg[w] \in Messages /\ conn[w] \in Connections
      BY <1>1, <1>7, MessagesAssumption, ConnectorAssumption
      DEF IInv, Locals, AsyncSend, Messages, Connections
  <2>2. Append(inflight[conn[w]], msg[w]) \in Seq(Messages)
      BY <1>1, <2>1, QueueOps
  <2>3. inflight' \in [Connections -> Seq(Messages)]
      BY <1>1, <1>7, <2>1, <2>2 DEF AsyncSend
  <2>4. QED
      BY <1>1, <1>7, <2>3 DEF AsyncSend, Goto, PCs
<1>8. QED
    BY <1>2, <1>3, <1>4, <1>5, <1>6, <1>7 DEF send_next

\* So they do after the bookkeeping of a message that was sent.
LEMMA SentTypes == IInv /\ handle_sent_message => SenderTypes'
<1> SUFFICES ASSUME IInv, handle_sent_message PROVE SenderTypes'
    OBVIOUS
<1> USE DEF SenderTypes, netVars
<1>1. SenderTypes /\ Transport \in Workers
    BY TypeParts DEF Workers
<1>2. ASSUME NEW c \in Connections, SentMessage(c)
      PROVE  SenderTypes'
  <2>1. /\ inflight[c] \in Seq(Messages) /\ inflight[c] # <<>>
      BY <1>1, <1>2 DEF SentMessage
  <2>2. Head(inflight[c]) \in Messages /\ Tail(inflight[c]) \in Seq(Messages)
      BY <2>1, QueueOps
  <2>3. delivered' \in Seq(Messages) /\ inflight' \in [Connections -> Seq(Messages)]
      BY <1>1, <1>2, <2>2, QueueOps DEF SentMessage
  <2>4. sent_messages_' \in Seq(Messages) /\ underflow' \in BOOLEAN
    <3>1. CASE sent_messages_ = <<>>
        BY <1>1, <1>2, <3>1 DEF SentMessage
    <3>2. CASE sent_messages_ # <<>>
        BY <1>1, <1>2, <3>2, QueueOps DEF SentMessage
    <3>3. QED
        BY <3>1, <3>2
  <2>5. overtaken' \in BOOLEAN
      BY <1>1, <1>2 DEF SentMessage
  <2>6. pc' \in [Workers -> PCs]
      BY <1>1, <1>2 DEF SentMessage, Goto, PCs
  <2>7. QED
      BY <1>1, <1>2, <2>3, <2>4, <2>5, <2>6 DEF SentMessage
<1>3. CASE ClearIsSending
    BY <1>1, <1>3 DEF ClearIsSending, Goto, PCs
<1>4. QED
    BY <1>2, <1>3 DEF handle_sent_message, Connections

\* And after a step of the connector.
LEMMA ClientTypes == IInv /\ ClientStep => SenderTypes'
<1> SUFFICES ASSUME IInv, ClientStep PROVE SenderTypes'
    OBVIOUS
<1> USE DEF SenderTypes, netVars, threadVars
<1>1. SenderTypes /\ Transport \in Workers
    BY TypeParts DEF Workers
<1>2. CASE StartConnector \/ StopConnector \/ ConnectorStep \/ handle_disconnection
    BY <1>1, <1>2 DEF StartConnector, StopConnector, ConnectorStep,
       handle_disconnection
<1>3. CASE OnConnection
    BY <1>1, <1>3 DEF OnConnection, Goto, PCs
<1>4. ASSUME NEW c \in Connections, ConnectionStops(c)
      PROVE  SenderTypes'
  <2>1. PICK n \in 0..Len(inflight[c]) :
            inflight' = [inflight EXCEPT ![c] = SubSeq(@, 1, n)]
      BY <1>4 DEF ConnectionStops
  <2>2. SubSeq(inflight[c], 1, n) \in Seq(Messages)
      BY <1>1, <2>1, FirstMessages
  <2>3. inflight' \in [Connections -> Seq(Messages)]
      BY <1>1, <2>1, <2>2
  <2>4. QED
      BY <1>1, <1>4, <2>3 DEF ConnectionStops
<1>5. QED
    BY <1>2, <1>3, <1>4 DEF ClientStep

-----------------------------------------------------------------------------
(* Steps of threads: the connector does not move.                          *)

\* What the invariant sees of the connector stays the same.
LEMMA ConnectorSame ==
    ASSUME UNCHANGED connectorVars
    PROVE  /\ UNCHANGED <<connection_, status, reports, tpc>>
           /\ NoneUp' <=> NoneUp
           /\ Disconnected' <=> Disconnected
           /\ Connector!ReportedOnce' <=> Connector!ReportedOnce
BY DEF connectorVars, NoneUp, Disconnected, Connector!ReportedOnce

\* A thread moves on, but neither to nor from async_send() nor the end of a
\* write.
Moves(w, label) ==
    /\ pc[w] \notin {"send", "clear"}
    /\ pc[w] # "idle" \/ w # Transport
    /\ label \in PCs \ {"send", "clear"}
    /\ Goto(w, label)
    /\ conn' \in {conn, [conn EXCEPT ![w] = connection_]}
    /\ UNCHANGED <<is_sending_, inflight, overtaken, connectorVars>>

\* Then nobody sends who did not send before.
LEMMA MovesNeutral ==
    ASSUME IInv, NEW w \in Workers, NEW label, Moves(w, label)
    PROVE  Known' /\ Turns' /\ Flight' /\ SendingIsReal'
<1>1. /\ SenderTypes /\ Transport \in Workers
      /\ connection_ \in Connections \cup {0}
    BY TypeParts, SameState DEF Workers, IInv, P!IInv, P!TypeOK
<1>2. /\ UNCHANGED <<connection_, status, reports, tpc, inflight, overtaken, is_sending_>>
      /\ NoneUp' <=> NoneUp
      /\ Disconnected' <=> Disconnected
      /\ Connector!ReportedOnce' <=> Connector!ReportedOnce
    BY ConnectorSame DEF Moves
<1>3. /\ \A v \in Workers : v # w => pc'[v] = pc[v] /\ conn'[v] = conn[v]
      /\ pc'[w] = label /\ conn'[w] \in {conn[w], connection_}
      /\ pc[w] \notin {"send", "clear"} /\ label \notin {"send", "clear"}
    BY <1>1 DEF Moves, Goto, SenderTypes
<1>4. \A v \in Workers : /\ (pc'[v] = "send" <=> pc[v] = "send")
                         /\ (pc'[v] = "clear" <=> pc[v] = "clear")
                         /\ \A c \in Connections : Sends(v, c)' <=> Sends(v, c)
    BY <1>3 DEF Sends
<1>5. Known'
    BY <1>2, <1>3 DEF IInv, Known
<1>6. Turns'
  <2>1. CASE w = Transport
      BY <1>2, <2>1 DEF IInv, Turns, Moves
  <2>2. CASE w # Transport
      BY <1>1, <1>2, <1>3, <2>2 DEF IInv, Turns
  <2>3. QED
      BY <2>1, <2>2
<1>7. Flight'
  <2>1. \A c \in Connections : OneSender(c) => OneSender(c)'
      BY <1>1, <1>2, <1>4 DEF OneSender, Busy
  <2>2. QED
      BY <1>1, <1>2, <1>4, <2>1 DEF IInv, Flight
<1>8. SendingIsReal'
    BY <1>1, <1>2, <1>4 DEF IInv, SendingIsReal
<1>9. QED
    BY <1>5, <1>6, <1>7, <1>8

\* If a thread finds that is_sending_ is set, somebody else does.
LEMMA SomebodySends ==
    ASSUME IInv, NEW w \in Workers, NEW label, Moves(w, label),
           is_sending_ \/ label # "idle"
    PROVE  ~Disconnected => Watched'
<1>1. SenderTypes /\ Transport \in Workers /\ UNCHANGED inflight
    BY TypeParts DEF Workers, Moves
<1>2. \A v \in Workers : pc'[v] = IF v = w THEN label ELSE pc[v]
    BY <1>1 DEF Moves, Goto, SenderTypes
<1>3. CASE label # "idle"
    BY <1>2, <1>3 DEF Watched
<1>4. CASE is_sending_
    BY <1>1, <1>2, <1>4 DEF IInv, SendingIsReal, Watched, Moves
<1>5. QED
    BY <1>3, <1>4

\* send() and the first steps of send_next().
LEMMA MovesStep ==
    ASSUME IInv, NEW w \in Workers,
           \/ w \in Users /\ send(w)
           \/ LoadIsSending(w) \/ get_connection(w) \/ NextMessage(w)
           \/ ExchangeIsSending(w) /\ is_sending_
    PROVE  IInv'
<1>1. SenderTypes /\ SenderTypes' /\ Transport \notin Users
    BY TypeParts, WorkerTypes, UsersAssumption DEF send_next
<1>2. PICK label : Moves(w, label)
  <2>1. CASE w \in Users /\ send(w)
      BY <1>1, <2>1 DEF send, Moves, PCs, netVars
  <2>2. CASE LoadIsSending(w)
      BY <2>2, Zenon DEF LoadIsSending, Moves, PCs, netVars
  <2>3. CASE get_connection(w)
      BY <2>3 DEF get_connection, Moves, PCs, netVars
  <2>4. CASE NextMessage(w)
      BY <2>4 DEF NextMessage, Moves, PCs, netVars
  <2>5. CASE ExchangeIsSending(w) /\ is_sending_
      BY <1>1, <2>5 DEF ExchangeIsSending, Moves, PCs, netVars, SenderTypes
  <2>6. QED
      BY <2>1, <2>2, <2>3, <2>4, <2>5
<1>3. Known' /\ Turns' /\ Flight' /\ SendingIsReal'
    BY <1>2, MovesNeutral
<1>4. P!IInv' /\ UNCHANGED connectorVars
  <2>1. Next
      BY DEF Next, Workers, UserThread, TransportThread, send_next
  <2>2. QED
      BY <1>2, <2>1, ConnectorKept DEF IInv, Moves
<1>5. \A v \in Workers : v # w => /\ pc'[v] = pc[v] /\ conn'[v] = conn[v]
                                  /\ msg'[v] = msg[v]
    BY <1>1 DEF SenderTypes, send, LoadIsSending, get_connection, NextMessage,
       ExchangeIsSending, Goto
<1>6. Locals'
  <2>1. CASE send(w) \/ LoadIsSending(w) \/ (ExchangeIsSending(w) /\ is_sending_)
      BY <1>1, <1>5, <2>1 DEF IInv, Locals, SenderTypes, send, LoadIsSending,
         ExchangeIsSending, Goto
  <2>2. CASE get_connection(w)
      BY <1>1, <1>5, <2>2, SameState
      DEF IInv, Locals, SenderTypes, get_connection, Goto
  <2>3. CASE NextMessage(w)
    <3>1. sent_messages_ # <<>> => Head(sent_messages_) # 0
      <4>1. sent_messages_ # <<>> => Head(sent_messages_) \in Messages
          BY <1>1, QueueOps DEF SenderTypes
      <4>2. QED
          BY <4>1, MessagesAssumption DEF Messages
    <3>2. QED
        BY <1>1, <1>5, <2>3, <3>1 DEF IInv, Locals, SenderTypes, NextMessage, Goto
  <2>4. QED
      BY <2>1, <2>2, <2>3
<1>7. WatchedQueue'
  <2>1. pc'[w] # "idle" => Watched'
      BY DEF Watched
  <2>2. CASE send(w) \/ LoadIsSending(w) \/ (ExchangeIsSending(w) /\ is_sending_)
    <3>1. PICK next : Moves(w, next) /\ pc'[w] = next
        BY <1>1, <1>2 DEF Moves, Goto, SenderTypes
    <3>2. is_sending_ \/ next # "idle"
        BY <1>1, <2>2, <3>1 DEF send, LoadIsSending, Goto, SenderTypes
    <3>3. ~Disconnected => Watched'
        BY <3>1, <3>2, SomebodySends
    <3>4. QED
        BY <1>4, <3>3, ConnectorSame DEF WatchedQueue
  <2>3. CASE get_connection(w)
    <3>1. connection_ # 0 => pc'[w] # "idle"
        BY <1>1, <2>3, SameState DEF get_connection, Goto, SenderTypes
    <3>2. QED
        BY <1>4, <2>1, <3>1, ConnectorSame DEF WatchedQueue
  <2>4. CASE NextMessage(w)
    <3>1. sent_messages_' # <<>> => pc'[w] # "idle"
        BY <1>1, <2>4 DEF NextMessage, Goto, SenderTypes
    <3>2. QED
        BY <2>1, <3>1 DEF WatchedQueue
  <2>5. QED
      BY <2>2, <2>3, <2>4
<1>8. QED
    BY <1>1, <1>3, <1>4, <1>6, <1>7 DEF IInv

\* A thread takes is_sending_: nobody else sends on a connection that is up.
LEMMA ExchangeStep ==
    ASSUME IInv, NEW w \in Workers, ExchangeIsSending(w), ~is_sending_
    PROVE  IInv'
<1>1. SenderTypes /\ SenderTypes' /\ Transport \in Workers
    BY TypeParts, WorkerTypes DEF send_next, Workers
<1>2. /\ pc[w] = "exchange" /\ is_sending_' = TRUE
      /\ \A v \in Workers : pc'[v] = IF v = w THEN "send" ELSE pc[v]
      /\ UNCHANGED <<sent_messages_, conn, msg, inflight, overtaken, connectorVars>>
    BY <1>1 DEF ExchangeIsSending, Goto, SenderTypes, netVars
<1>3. /\ UNCHANGED <<connection_, status, reports, tpc>>
      /\ NoneUp' <=> NoneUp
      /\ Disconnected' <=> Disconnected
      /\ Connector!ReportedOnce' <=> Connector!ReportedOnce
    BY <1>2, ConnectorSame
<1>4. P!IInv'
  <2>1. Next
      BY DEF Next, Workers, UserThread, TransportThread, send_next
  <2>2. QED
      BY <2>1, ConnectorKept DEF IInv
<1>5. Locals' /\ Known' /\ Turns'
  <2>1. Locals'
      BY <1>2 DEF IInv, Locals
  <2>2. Known'
      BY <1>2, <1>3 DEF IInv, Known
  <2>3. Turns'
      BY <1>1, <1>2, <1>3 DEF IInv, Turns
  <2>4. QED
      BY <2>1, <2>2, <2>3
<1>6. Flight'
  <2> SUFFICES ASSUME Connector!ReportedOnce, ~overtaken
               PROVE  /\ \A c \in Connections :
                            /\ Len(inflight[c]) =< 1
                            /\ status[c] = "up" => OneSender(c)'
      BY <1>2, <1>3 DEF Flight
  <2>1. /\ \A c \in Connections : /\ Len(inflight[c]) =< 1
                                  /\ status[c] = "up" => OneSender(c)
        /\ pc[Transport] = "clear" => NoneUp
      BY DEF IInv, Flight
  <2>2. ASSUME NEW c \in Connections, status[c] = "up"
        PROVE  OneSender(c)'
    <3>1. inflight[c] = <<>> /\ \A v \in Workers : ~Sends(v, c)
        BY <2>1, <2>2 DEF OneSender, Busy
    <3>2. pc[Transport] # "clear"
        BY <2>1, <2>2 DEF NoneUp
    <3>3. \A v \in Workers : Sends(v, c)' => v = w
        BY <1>2, <3>1 DEF Sends
    <3>4. QED
        BY <1>1, <1>2, <3>1, <3>2, <3>3 DEF OneSender
  <2>3. QED
      BY <2>1, <2>2
<1>7. SendingIsReal' /\ WatchedQueue'
    BY <1>2 DEF SendingIsReal, WatchedQueue, Watched
<1>8. QED
    BY <1>1, <1>4, <1>5, <1>6, <1>7 DEF IInv

\* async_send(): the thread hands its turn over to the connection.
LEMMA AsyncSendStep ==
    ASSUME IInv, NEW w \in Workers, AsyncSend(w)
    PROVE  IInv'
<1>0. PICK c : c = conn[w]
    OBVIOUS
<1>1. /\ SenderTypes /\ SenderTypes' /\ Transport \in Workers
      /\ c \in Connections /\ msg[w] \in Messages
  <2>1. SenderTypes /\ SenderTypes' /\ Transport \in Workers
      BY TypeParts, WorkerTypes DEF send_next, Workers
  <2>2. c # 0 /\ msg[w] # 0
      BY <1>0 DEF IInv, Locals, AsyncSend
  <2>3. c \in 0..MaxConnections /\ msg[w] \in 0..MaxMessages
      BY <1>0, <2>1 DEF SenderTypes
  <2>4. QED
      BY <2>1, <2>2, <2>3, ConnectorAssumption, MessagesAssumption
      DEF Connections, Messages
<1>2. /\ pc[w] = "send"
      /\ \A v \in Workers : pc'[v] = IF v = w THEN "idle" ELSE pc[v]
      /\ UNCHANGED <<sent_messages_, is_sending_, conn, msg, overtaken, connectorVars>>
    BY <1>1 DEF AsyncSend, Goto, SenderTypes
<1>3. /\ \A d \in Connections : d # c => inflight'[d] = inflight[d]
      /\ status[c] = "up" => /\ inflight'[c] # <<>>
                             /\ Len(inflight'[c]) = Len(inflight[c]) + 1
      /\ status[c] # "up" => inflight' = inflight
  <2>1. inflight[c] \in Seq(Messages)
      BY <1>1 DEF SenderTypes
  <2>2. /\ Append(inflight[c], msg[w]) # <<>>
        /\ Len(Append(inflight[c], msg[w])) = Len(inflight[c]) + 1
      BY <1>1, <2>1, QueueOps
  <2>3. QED
      BY <1>0, <1>1, <2>2 DEF AsyncSend, SenderTypes
<1>4. /\ UNCHANGED <<connection_, status, reports, tpc>>
      /\ NoneUp' <=> NoneUp
      /\ Disconnected' <=> Disconnected
      /\ Connector!ReportedOnce' <=> Connector!ReportedOnce
    BY <1>2, ConnectorSame
<1>5. P!IInv'
  <2>1. Next
      BY DEF Next, Workers, UserThread, TransportThread, send_next
  <2>2. QED
      BY <2>1, ConnectorKept DEF IInv
<1>6. Locals' /\ Known' /\ Turns'
  <2>1. Locals'
      BY <1>2 DEF IInv, Locals
  <2>2. Known'
      BY <1>1, <1>2, <1>3, <1>4 DEF IInv, Known
  <2>3. Turns'
      BY <1>1, <1>2, <1>4 DEF IInv, Turns
  <2>4. QED
      BY <2>1, <2>2, <2>3
<1>7. Flight'
  <2> SUFFICES ASSUME Connector!ReportedOnce, ~overtaken
               PROVE  /\ \A d \in Connections :
                            /\ Len(inflight'[d]) =< 1
                            /\ status[d] = "up" => OneSender(d)'
                      /\ pc'[Transport] = "clear" => is_sending_ \/ NoneUp
      BY <1>2, <1>4 DEF Flight
  <2>1. /\ \A d \in Connections : /\ Len(inflight[d]) =< 1
                                  /\ status[d] = "up" => OneSender(d)
        /\ pc[Transport] = "clear" => is_sending_ \/ NoneUp
      BY DEF IInv, Flight
  <2>2. \A d \in Connections, v \in Workers :
            Sends(v, d)' <=> Sends(v, d) /\ v # w
      BY <1>2 DEF Sends
  <2>3. ASSUME NEW d \in Connections, d # c
        PROVE  /\ Len(inflight'[d]) =< 1
               /\ status[d] = "up" => OneSender(d)'
    <3>1. OneSender(d) => OneSender(d)'
        BY <1>1, <1>2, <1>3, <2>2, <2>3 DEF OneSender, Busy
    <3>2. QED
        BY <1>3, <2>1, <2>3, <3>1
  <2>4. CASE status[c] = "up"
    <3>1. Sends(w, c) /\ OneSender(c)
        BY <1>0, <1>1, <1>2, <2>1, <2>4 DEF Sends
    <3>2. /\ inflight[c] = <<>> /\ is_sending_ /\ pc[Transport] # "clear"
          /\ \A v \in Workers : Sends(v, c) => v = w
        BY <1>1, <3>1 DEF OneSender, Busy
    <3>3. Len(inflight'[c]) =< 1
      <4>1. Len(<<>>) = 0 /\ 0 + 1 =< 1
          OBVIOUS
      <4>2. QED
          BY <1>3, <2>4, <3>2, <4>1
    <3>4. \A d \in Connections : d = c => OneSender(d)'
        BY <1>1, <1>2, <2>2, <3>2 DEF OneSender
    <3>5. ASSUME NEW d \in Connections
          PROVE  Len(inflight'[d]) =< 1 /\ (status[d] = "up" => OneSender(d)')
      <4>1. CASE d = c
          BY <3>3, <3>4, <4>1, Zenon
      <4>2. CASE d # c
          BY <2>3, <4>2, Zenon
      <4>3. QED
          BY <4>1, <4>2
    <3>6. QED
        BY <2>1, <3>2, <3>5
  <2>5. CASE status[c] # "up"
      BY <1>1, <1>2, <1>3, <2>1, <2>3, <2>5
  <2>6. QED
      BY <2>4, <2>5
<1>8. SendingIsReal' /\ WatchedQueue'
  <2>1. status[c] \in {"up", "down"}
      BY <1>0, <1>1, ConnectorAssumption DEF IInv, Known, Connections
  <2>2. ~Disconnected => inflight'[c] # <<>>
      BY <1>1, <1>3, <2>1 DEF Disconnected, Connections
  <2>3. QED
      BY <1>1, <1>4, <2>2 DEF SendingIsReal, WatchedQueue, Watched
<1>9. QED
    BY <1>1, <1>5, <1>6, <1>7, <1>8 DEF IInv

-----------------------------------------------------------------------------
(* Steps of the transport thread after a message was written.              *)

\* Connections that report their end once are up one at a time.
LEMMA OneUp ==
    ASSUME IInv, Connector!ReportedOnce,
           NEW c \in Connections, NEW d \in Connections,
           status[c] = "up", status[d] = "up"
    PROVE  c = d
<1>1. P!TypeOK /\ P!NoSecondEffort /\ P!ReportedOnce
    BY SameState DEF IInv, P!IInv
<1>2. QED
    BY <1>1, P!OneUpAtATime, ConnectorAssumptions, SameState

\* handle_sent_message() takes the message off the queue and the connection.
LEMMA SentMessageStep ==
    ASSUME IInv, NEW c \in Connections, SentMessage(c)
    PROVE  IInv'
<1>1. SenderTypes /\ SenderTypes' /\ Transport \in Workers
    BY TypeParts, SentTypes DEF handle_sent_message, Workers, Connections
<1>2. /\ pc[Transport] = "idle" /\ tpc = "idle"
      /\ \A v \in Workers : pc'[v] = IF v = Transport THEN "clear" ELSE pc[v]
      /\ overtaken' = IF status[c] # "up" /\ Connector!Up # {}
                      THEN TRUE ELSE overtaken
      /\ UNCHANGED <<is_sending_, conn, msg, connectorVars>>
    BY <1>1 DEF SentMessage, Goto, SenderTypes, TransportIsFree
<1>3. /\ \A d \in Connections : d # c => inflight'[d] = inflight[d]
      /\ inflight[c] # <<>>
      /\ Len(inflight'[c]) = Len(inflight[c]) - 1 /\ Len(inflight[c]) \in Nat
      /\ Len(inflight'[c]) = 0 => inflight'[c] = <<>>
  <2>1. inflight[c] \in Seq(Messages) /\ inflight'[c] \in Seq(Messages)
      BY <1>1 DEF SenderTypes
  <2>2. inflight[c] # <<>> => Len(Tail(inflight[c])) = Len(inflight[c]) - 1
      BY <2>1, QueueOps
  <2>3. Len(inflight[c]) \in Nat /\ (Len(inflight'[c]) = 0 => inflight'[c] = <<>>)
      BY <2>1, QueueOps
  <2>4. inflight' = [inflight EXCEPT ![c] = Tail(@)] /\ inflight[c] # <<>>
      BY DEF SentMessage
  <2>5. QED
      BY <1>1, <2>2, <2>3, <2>4 DEF SenderTypes
<1>4. /\ UNCHANGED <<connection_, status, reports, tpc>>
      /\ NoneUp' <=> NoneUp
      /\ Disconnected' <=> Disconnected
      /\ Connector!ReportedOnce' <=> Connector!ReportedOnce
    BY <1>2, ConnectorSame
<1>5. P!IInv'
  <2>1. Next
      BY DEF Next, TransportThread, handle_sent_message, Connections
  <2>2. QED
      BY <2>1, ConnectorKept DEF IInv
<1>6. Locals' /\ Known' /\ Turns'
  <2>1. Locals'
      BY <1>2 DEF IInv, Locals
  <2>2. Known'
      BY <1>2, <1>3, <1>4 DEF IInv, Known
  <2>3. Turns'
      BY <1>2, <1>4 DEF IInv, Turns
  <2>4. QED
      BY <2>1, <2>2, <2>3
<1>7. Flight'
  <2> SUFFICES ASSUME Connector!ReportedOnce, ~overtaken'
               PROVE  /\ \A d \in Connections :
                            /\ Len(inflight'[d]) =< 1
                            /\ status[d] = "up" => OneSender(d)'
                      /\ is_sending_ \/ NoneUp
      BY <1>2, <1>4 DEF Flight
  <2>1. /\ \A d \in Connections : /\ Len(inflight[d]) =< 1
                                  /\ status[d] = "up" => OneSender(d)
      BY <1>2 DEF IInv, Flight
  <2>2. \A d \in Connections : Len(inflight'[d]) =< 1
      BY <1>3, <2>1
  <2>3. inflight'[c] = <<>>
      BY <1>3, <2>1
  <2>4. status[c] = "up" \/ NoneUp
      BY <1>2, SameState DEF NoneUp, Connector!Up
  <2>5. CASE status[c] = "up"
    <3>1. is_sending_ /\ \A w \in Workers : ~Sends(w, c)
        BY <1>3, <2>1, <2>5 DEF OneSender, Busy
    <3>2. \A w \in Workers : ~Sends(w, c)'
        BY <1>2, <3>1 DEF Sends
    <3>3. \A d \in Connections : d = c => OneSender(d)'
        BY <2>3, <3>2 DEF OneSender, Busy
    <3>4. \A d \in Connections : status[d] = "up" => d = c
        BY <2>5, OneUp
    <3>5. QED
        BY <1>2, <2>1, <2>2, <3>1, <3>3, <3>4
  <2>6. CASE NoneUp
      BY <2>2, <2>6 DEF NoneUp
  <2>7. QED
      BY <2>4, <2>5, <2>6
<1>8. SendingIsReal' /\ WatchedQueue'
    BY <1>1, <1>2 DEF SendingIsReal, WatchedQueue, Watched
<1>9. QED
    BY <1>1, <1>5, <1>6, <1>7, <1>8 DEF IInv

\* Then is_sending_ is cleared: on a connection that is up nobody sends.
LEMMA ClearIsSendingStep == IInv /\ ClearIsSending => IInv'
<1> SUFFICES ASSUME IInv, ClearIsSending PROVE IInv'
    OBVIOUS
<1>1. SenderTypes /\ SenderTypes' /\ Transport \in Workers
    BY TypeParts, SentTypes DEF handle_sent_message, Workers
<1>2. /\ pc[Transport] = "clear" /\ is_sending_' = FALSE
      /\ \A v \in Workers : pc'[v] = IF v = Transport THEN "load" ELSE pc[v]
      /\ UNCHANGED <<conn, msg, inflight, overtaken, connectorVars>>
    BY <1>1 DEF ClearIsSending, Goto, SenderTypes, netVars
<1>3. /\ UNCHANGED <<connection_, status, reports, tpc>>
      /\ NoneUp' <=> NoneUp
      /\ Disconnected' <=> Disconnected
      /\ Connector!ReportedOnce' <=> Connector!ReportedOnce
    BY <1>2, ConnectorSame
<1>4. P!IInv'
  <2>1. Next
      BY DEF Next, TransportThread, handle_sent_message
  <2>2. QED
      BY <2>1, ConnectorKept DEF IInv
<1>5. Locals' /\ Known' /\ Turns'
  <2>1. Locals'
      BY <1>2 DEF IInv, Locals
  <2>2. Known'
      BY <1>2, <1>3 DEF IInv, Known
  <2>3. Turns'
      BY <1>1, <1>2, <1>3 DEF IInv, Turns
  <2>4. QED
      BY <2>1, <2>2, <2>3
<1>6. Flight'
  <2> SUFFICES ASSUME Connector!ReportedOnce, ~overtaken
               PROVE  /\ \A c \in Connections :
                            /\ Len(inflight[c]) =< 1
                            /\ status[c] = "up" => OneSender(c)'
      BY <1>1, <1>2, <1>3 DEF Flight
  <2>1. /\ \A c \in Connections : /\ Len(inflight[c]) =< 1
                                  /\ status[c] = "up" => OneSender(c)
      BY DEF IInv, Flight
  <2>2. ASSUME NEW c \in Connections, OneSender(c)
        PROVE  OneSender(c)'
    <3>1. inflight[c] = <<>> /\ \A w \in Workers : ~Sends(w, c)
        BY <1>2, <2>2 DEF OneSender, Busy
    <3>2. \A w \in Workers : ~Sends(w, c)'
        BY <1>2, <3>1 DEF Sends
    <3>3. QED
        BY <1>2, <3>1, <3>2 DEF OneSender, Busy
  <2>3. QED
      BY <2>1, <2>2
<1>7. SendingIsReal' /\ WatchedQueue'
    BY <1>1, <1>2 DEF SendingIsReal, WatchedQueue, Watched
<1>8. QED
    BY <1>1, <1>4, <1>5, <1>6, <1>7 DEF IInv

-----------------------------------------------------------------------------
(* Steps of the connector.                                                 *)

\* While the connector is between two efforts no connection is up, if each
\* reports its end once, which is so as long as the first one lasts.
LEMMA BetweenEfforts ==
    ASSUME IInv, tpc \in {"connected", "failed", "closed", "on_closed"}
    PROVE  /\ Connector!ReportedOnce => NoneUp
           /\ ~Disconnected => NoneUp
<1>1. P!TypeOK /\ P!NoSecondEffort /\ P!ReportsOfDown
    BY DEF IInv, P!IInv
<1>2. ~Disconnected => Connector!ReportedOnce
    BY <1>1, SameState
    DEF P!ReportsOfDown, Disconnected, Connector!ReportedOnce, Connections
<1>3. ASSUME Connector!ReportedOnce
      PROVE  NoneUp
  <2>1. P!ReportedOnce
      BY <1>3, SameState
  <2>2. P!Up = {}
      BY <1>1, <2>1, P!BusyMeansNotUp, ConnectorAssumptions
  <2>3. QED
      BY <2>2, SameState DEF NoneUp
<1>4. QED
    BY <1>2, <1>3

\* A step of the connector that no connection takes part in: the current
\* connection may be dropped, and a callback may begin or end.
LEMMA AsideStep ==
    ASSUME IInv, Next, ClientStep,
           UNCHANGED <<sent_messages_, is_sending_, threadVars, netVars, status,
                       reports>>,
           connection_' \in {connection_, 0},
           \/ tpc' = tpc
           \/ tpc = "idle" /\ tpc' = "failed" /\ pc[Transport] = "idle"
           \/ tpc = "failed" /\ tpc' = "idle"
           \/ tpc = "closed" /\ tpc' = "on_closed"
    PROVE  IInv'
<1>1. SenderTypes /\ SenderTypes' /\ P!IInv'
    BY TypeParts, ClientTypes, ConnectorKept DEF IInv
<1>2. /\ UNCHANGED <<sent_messages_, is_sending_, pc, conn, msg, inflight, overtaken>>
      /\ NoneUp' <=> NoneUp
      /\ Disconnected' <=> Disconnected
      /\ Connector!ReportedOnce' <=> Connector!ReportedOnce
    BY DEF threadVars, netVars, NoneUp, Disconnected, Connector!ReportedOnce
<1>3. Locals'
    BY <1>2 DEF IInv, Locals
<1>4. Known'
    BY <1>2 DEF IInv, Known
<1>5. Turns'
    BY <1>2 DEF IInv, Turns
<1>6. Flight'
  <2>1. \A c \in Connections : OneSender(c)' <=> OneSender(c)
      BY <1>2 DEF OneSender, Busy, Sends
  <2>2. QED
      BY <1>2, <2>1 DEF IInv, Flight
<1>7. SendingIsReal'
    BY <1>2 DEF IInv, SendingIsReal
<1>8. WatchedQueue'
  <2>1. CASE tpc' = "idle" /\ tpc = "failed"
    <3>1. connection_ # 0 => Disconnected
      <4>1. ~Disconnected => NoneUp
          BY <2>1, BetweenEfforts
      <4>2. connection_ # 0 => connection_ \in Connections
          BY SameState DEF IInv, P!IInv, P!TypeOK
      <4>3. QED
          BY <4>1, <4>2 DEF IInv, Known, NoneUp, Disconnected, Connections
    <3>2. QED
        BY <1>2, <3>1 DEF WatchedQueue
  <2>2. CASE tpc # "idle" => tpc' # "idle"
      BY <1>2, <2>2 DEF IInv, WatchedQueue, Watched
  <2>3. QED
      BY <2>1, <2>2
<1>9. QED
    BY <1>1, <1>3, <1>4, <1>5, <1>6, <1>7, <1>8 DEF IInv

\* on_connection(): the new connection holds no messages, and nobody holds it.
LEMMA OnConnectionStep ==
    ASSUME IInv, ConnectorStep, TransportIsFree,
           NEW c \in Connections, Connector!on_connection(c)
    PROVE  IInv'
<1>1. SenderTypes /\ SenderTypes' /\ P!IInv'
  <2>1. Next /\ ClientStep
      BY DEF Next, TransportThread, ClientStep
  <2>2. QED
      BY <2>1, TypeParts, ClientTypes, ConnectorKept DEF IInv
<1>2. /\ UNCHANGED <<sent_messages_, is_sending_, pc, conn, msg, inflight, overtaken,
                     connection_, reports>>
      /\ tpc = "idle" /\ tpc' \in {"idle", "connected"} /\ pc[Transport] = "idle"
    BY DEF ConnectorStep, threadVars, netVars, Connector!on_connection,
       TransportIsFree
<1>3. /\ status[c] = "none" /\ status'[c] \in {"new", "down"}
      /\ \A d \in Connections : d # c => status'[d] = status[d]
  <2>1. status \in [Connections -> {"none", "new", "up", "down"}]
      BY SameState DEF IInv, P!IInv, P!TypeOK
  <2>2. QED
      BY <2>1 DEF Connector!on_connection
<1>4. /\ NoneUp' <=> NoneUp
      /\ Disconnected => Disconnected'
      /\ Connector!ReportedOnce' <=> Connector!ReportedOnce
    BY <1>2, <1>3 DEF NoneUp, Disconnected, Connector!ReportedOnce, Connections
<1>5. Locals'
    BY <1>2 DEF IInv, Locals
<1>6. Known'
  <2>1. connection_ # 0 => connection_ \in Connections
      BY SameState DEF IInv, P!IInv, P!TypeOK
  <2>2. \A w \in Workers : conn[w] # 0 => conn[w] \in Connections
      BY <1>1, ConnectorAssumption DEF SenderTypes, Connections
  <2>3. QED
      BY <1>2, <1>3, <2>1, <2>2 DEF IInv, Known
<1>7. Turns'
    BY <1>2 DEF IInv, Turns
<1>8. Flight'
  <2>1. \A d \in Connections : OneSender(d)' <=> OneSender(d)
      BY <1>2 DEF OneSender, Busy, Sends
  <2>2. \A d \in Connections : status'[d] = "up" => status[d] = "up"
      BY <1>3
  <2>3. QED
      BY <1>2, <1>4, <2>1, <2>2 DEF IInv, Flight
<1>9. SendingIsReal' /\ WatchedQueue'
  <2>1. SendingIsReal'
      BY <1>2, <1>4 DEF IInv, SendingIsReal
  <2>2. WatchedQueue'
      BY <1>2, <1>4 DEF IInv, WatchedQueue, Watched
  <2>3. QED
      BY <2>1, <2>2
<1>10. QED
    BY <1>1, <1>5, <1>6, <1>7, <1>8, <1>9 DEF IInv

\* on_connection(), the section under the mutex: the connection is the only one
\* that is up.
LEMMA AdoptStep ==
    ASSUME IInv, ConnectorStep, Connector!AdoptConnection
    PROVE  IInv'
<1>1. SenderTypes /\ SenderTypes' /\ P!IInv' /\ Transport \in Workers
  <2>1. Next /\ ClientStep
      BY DEF Next, TransportThread, ClientStep
  <2>2. QED
      BY <2>1, TypeParts, ClientTypes, ConnectorKept DEF IInv, Workers
<1>2. PICK c \in Connections : c = tconn /\ status[c] = "new"
    BY SameState DEF IInv, P!IInv, P!NewConnection, Connector!AdoptConnection
<1>3. /\ UNCHANGED <<sent_messages_, is_sending_, pc, conn, msg, inflight, overtaken,
                     reports>>
      /\ connection_' = c /\ tpc = "connected" /\ tpc' = "on_connection"
      /\ pc[Transport] = "idle"
    BY <1>2 DEF ConnectorStep, threadVars, netVars, Connector!AdoptConnection,
       IInv, Turns
<1>4. /\ status'[c] = "up"
      /\ \A d \in Connections : d # c => status'[d] = status[d]
  <2>1. status \in [Connections -> {"none", "new", "up", "down"}]
      BY SameState DEF IInv, P!IInv, P!TypeOK
  <2>2. QED
      BY <1>2, <2>1 DEF Connector!AdoptConnection
<1>5. /\ Disconnected <=> Disconnected'
      /\ Connector!ReportedOnce' <=> Connector!ReportedOnce
    BY <1>2, <1>3, <1>4 DEF Disconnected, Connector!ReportedOnce, Connections
<1>6. Locals'
    BY <1>3 DEF IInv, Locals
<1>7. Known'
  <2>1. \A w \in Workers : conn[w] # 0 => conn[w] \in Connections
      BY <1>1, ConnectorAssumption DEF SenderTypes, Connections
  <2>2. QED
      BY <1>2, <1>3, <1>4, <2>1 DEF IInv, Known
<1>8. Turns'
    BY <1>3 DEF Turns
<1>9. Flight'
  <2> SUFFICES ASSUME Connector!ReportedOnce, ~overtaken
               PROVE  \A d \in Connections : /\ Len(inflight[d]) =< 1
                                             /\ status'[d] = "up" => OneSender(d)'
      BY <1>3, <1>5 DEF Flight
  <2>1. NoneUp
      BY <1>3, BetweenEfforts
  <2>2. inflight[c] = <<>> /\ \A w \in Workers : conn[w] # c
      BY <1>2, ConnectorAssumption DEF IInv, Known, Connections
  <2>3. \A d \in Connections : d = c => OneSender(d)'
      BY <1>3, <2>2 DEF OneSender, Busy, Sends
  <2>4. \A d \in Connections : status'[d] = "up" => d = c
      BY <1>4, <2>1 DEF NoneUp
  <2>5. QED
      BY <2>3, <2>4 DEF IInv, Flight
<1>10. SendingIsReal' /\ WatchedQueue'
  <2>1. SendingIsReal'
      BY <1>3, <1>5 DEF IInv, SendingIsReal
  <2>2. WatchedQueue'
      BY <1>3 DEF WatchedQueue, Watched
  <2>3. QED
      BY <2>1, <2>2
<1>11. QED
    BY <1>1, <1>6, <1>7, <1>8, <1>9, <1>10 DEF IInv

\* The steps that involve no callback of the client.
LEMMA ConnectorStepKeeps ==
    ASSUME IInv, StartConnector \/ StopConnector \/ ConnectorStep
    PROVE  IInv'
<1>1. Next /\ ClientStep
    BY DEF Next, TransportThread, ClientStep
<1>2. CASE StartConnector
    BY <1>1, <1>2, AsideStep DEF StartConnector, Connector!start
<1>3. CASE StopConnector
    BY <1>1, <1>3, SameState, AsideStep DEF StopConnector, Connector!stop,
       Connector!StopFlag, Connector!StopRelease, Connector!StopTimer
<1>4. CASE ConnectorStep /\ Connector!async_wait
    BY <1>1, <1>4, AsideStep DEF ConnectorStep, Connector!async_wait
<1>5. CASE ConnectorStep /\ Connector!ForgetConnection
    BY <1>1, <1>5, SameState, AsideStep DEF ConnectorStep, Connector!ForgetConnection
<1>6. CASE ConnectorStep /\ Connector!AdoptConnection
    BY <1>6, AdoptStep
<1>7. CASE ConnectorStep /\ TransportIsFree /\ Connector!TimerFires
    BY <1>1, <1>7, AsideStep DEF ConnectorStep, Connector!TimerFires
<1>8. CASE /\ ConnectorStep /\ TransportIsFree
           /\ Connector!on_connection_failure
    BY <1>1, <1>8, AsideStep DEF ConnectorStep, Connector!on_connection_failure,
       TransportIsFree
<1>9. CASE ConnectorStep /\ TransportIsFree /\ Connector!Connected
    BY <1>9, OnConnectionStep, SameState DEF Connector!Connected
<1>10. ConnectorStep =>
          \/ Connector!AdoptConnection
          \/ Connector!async_wait
          \/ Connector!ForgetConnection
          \/ /\ TransportIsFree
             /\ \/ Connector!Connected \/ Connector!on_connection_failure
                \/ Connector!TimerFires
    BY Zenon DEF ConnectorStep, Connector!ConnectEnds
<1>11. QED
    BY <1>2, <1>3, <1>4, <1>5, <1>6, <1>7, <1>8, <1>9, <1>10

\* on_connection of the client: send_next() begins.
LEMMA CallbackStep == IInv /\ OnConnection => IInv'
<1> SUFFICES ASSUME IInv, OnConnection PROVE IInv'
    OBVIOUS
<1>1. SenderTypes /\ SenderTypes' /\ P!IInv' /\ Transport \in Workers
  <2>1. Next /\ ClientStep
      BY DEF Next, TransportThread, ClientStep
  <2>2. QED
      BY <2>1, TypeParts, ClientTypes, ConnectorKept DEF IInv, Workers
<1>2. /\ pc[Transport] = "idle" /\ tpc' = "idle"
      /\ \A w \in Workers : pc'[w] = IF w = Transport THEN "load" ELSE pc[w]
      /\ UNCHANGED <<is_sending_, conn, msg, inflight, overtaken, connection_, status,
                     reports>>
    BY <1>1 DEF OnConnection, Goto, SenderTypes, netVars,
       Connector!ConnectionCallback
<1>3. /\ NoneUp' <=> NoneUp
      /\ Disconnected' <=> Disconnected
      /\ Connector!ReportedOnce' <=> Connector!ReportedOnce
    BY <1>2 DEF NoneUp, Disconnected, Connector!ReportedOnce
<1>4. \A w \in Workers, c \in Connections : Sends(w, c)' <=> Sends(w, c)
    BY <1>2 DEF Sends
<1>5. Locals' /\ Known' /\ Turns'
  <2>1. Locals'
      BY <1>2 DEF IInv, Locals
  <2>2. Known'
      BY <1>2, <1>3 DEF IInv, Known
  <2>3. Turns'
      BY <1>2 DEF Turns
  <2>4. QED
      BY <2>1, <2>2, <2>3
<1>6. Flight'
  <2>1. \A c \in Connections : OneSender(c) => OneSender(c)'
      BY <1>1, <1>2, <1>4 DEF OneSender, Busy
  <2>2. QED
      BY <1>1, <1>2, <1>3, <2>1 DEF IInv, Flight
<1>7. SendingIsReal' /\ WatchedQueue'
  <2>1. SendingIsReal'
      BY <1>1, <1>2, <1>3 DEF IInv, SendingIsReal
  <2>2. WatchedQueue'
      BY <1>1, <1>2 DEF WatchedQueue, Watched
  <2>3. QED
      BY <2>1, <2>2
<1>8. QED
    BY <1>1, <1>5, <1>6, <1>7 DEF IInv

\* on_closed of the client clears is_sending_ when no connection is up.
LEMMA DisconnectionStep == IInv /\ handle_disconnection => IInv'
<1> SUFFICES ASSUME IInv, handle_disconnection PROVE IInv'
    OBVIOUS
<1>1. SenderTypes /\ SenderTypes' /\ P!IInv'
  <2>1. Next /\ ClientStep
      BY DEF Next, TransportThread, ClientStep
  <2>2. QED
      BY <2>1, TypeParts, ClientTypes, ConnectorKept DEF IInv
<1>2. /\ tpc = "on_closed" /\ tpc' = "idle" /\ is_sending_' = FALSE
      /\ UNCHANGED <<pc, conn, msg, inflight, overtaken, connection_, status, reports>>
    BY DEF handle_disconnection, threadVars, netVars, Connector!Reconnect
<1>3. /\ NoneUp' <=> NoneUp
      /\ Disconnected' <=> Disconnected
      /\ Connector!ReportedOnce' <=> Connector!ReportedOnce
    BY <1>2 DEF NoneUp, Disconnected, Connector!ReportedOnce
<1>4. Disconnected /\ (Connector!ReportedOnce => NoneUp)
    BY <1>2, BetweenEfforts DEF IInv, Known
<1>5. Locals' /\ Known' /\ Turns'
  <2>1. Locals'
      BY <1>2 DEF IInv, Locals
  <2>2. Known'
      BY <1>2, <1>3 DEF IInv, Known
  <2>3. Turns'
      BY <1>2 DEF Turns
  <2>4. QED
      BY <2>1, <2>2, <2>3
<1>6. Flight'
    BY <1>2, <1>3, <1>4 DEF IInv, Flight, NoneUp
<1>7. SendingIsReal' /\ WatchedQueue'
    BY <1>2, <1>3, <1>4 DEF SendingIsReal, WatchedQueue
<1>8. QED
    BY <1>1, <1>5, <1>6, <1>7 DEF IInv

\* A connection stops: none is up then.
LEMMA StopsStep ==
    ASSUME IInv, NEW c \in Connections, ConnectionStops(c)
    PROVE  IInv'
<1>1. SenderTypes /\ SenderTypes' /\ P!IInv'
      /\ (Connector!ReportedOnce' => Connector!ReportedOnce)
  <2>1. Next /\ ClientStep
      BY DEF Next, ClientStep, Connections
  <2>2. QED
      BY <2>1, TypeParts, ClientTypes, ConnectorKept DEF IInv
<1>2. PICK n \in 0..Len(inflight[c]) :
          inflight' = [inflight EXCEPT ![c] = SubSeq(@, 1, n)]
    BY DEF ConnectionStops
<1>3. /\ \A d \in Connections : d # c => inflight'[d] = inflight[d]
      /\ Len(inflight[c]) =< 1 => Len(inflight'[c]) =< 1
  <2>1. inflight[c] \in Seq(Messages)
      BY <1>1 DEF SenderTypes
  <2>2. Len(SubSeq(inflight[c], 1, n)) = n /\ Len(inflight[c]) \in Nat
      BY <1>2, <2>1, FirstMessages
  <2>3. QED
      BY <1>1, <1>2, <2>2 DEF SenderTypes
<1>4. /\ UNCHANGED <<sent_messages_, is_sending_, pc, conn, msg, connection_>>
      /\ pc[Transport] = "idle" /\ tpc = "idle" /\ tpc' # "connected"
      /\ status[c] \in {"up", "down"}
    BY DEF ConnectionStops, threadVars, TransportIsFree,
       Connector!on_connection_closed
<1>5. /\ status'[c] = "down"
      /\ \A d \in Connections : d # c => status'[d] = status[d]
  <2>1. status \in [Connections -> {"none", "new", "up", "down"}]
      BY SameState DEF IInv, P!IInv, P!TypeOK
  <2>2. QED
      BY <2>1 DEF ConnectionStops, Connector!on_connection_closed
<1>6. Disconnected'
    BY <1>5 DEF Disconnected, Connections
<1>7. Connector!ReportedOnce' => NoneUp'
  <2> SUFFICES ASSUME Connector!ReportedOnce'
               PROVE  NoneUp'
      OBVIOUS
  <2>1. reports[c] = 0
    <3>1. /\ reports \in [Connections -> 0..MaxReports] /\ MaxReports \in Nat
          /\ reports' = [reports EXCEPT ![c] = @ + 1]
        BY SameState, ConnectorAssumption
        DEF IInv, P!IInv, P!TypeOK, ConnectionStops, Connector!on_connection_closed
    <3>2. reports[c] \in Nat /\ reports'[c] = reports[c] + 1
        BY <3>1
    <3>3. reports'[c] =< 1
        BY SameState DEF Connector!ReportedOnce
    <3>4. QED
        BY <3>2, <3>3
  <2>2. status[c] = "up"
      BY <2>1 DEF ConnectionStops, Connector!on_connection_closed
  <2>3. QED
      BY <1>1, <1>5, <2>2, OneUp DEF NoneUp
<1>8. Locals' /\ Known' /\ Turns'
  <2>1. Locals'
      BY <1>4 DEF IInv, Locals
  <2>2. connection_ # 0 => connection_ \in Connections
      BY SameState DEF IInv, P!IInv, P!TypeOK
  <2>3. \A w \in Workers : conn[w] # 0 => conn[w] \in Connections
      BY <1>1, ConnectorAssumption DEF SenderTypes, Connections
  <2>4. Known'
      BY <1>3, <1>4, <1>5, <1>6, <2>2, <2>3 DEF IInv, Known
  <2>5. Turns'
      BY <1>4 DEF Turns
  <2>6. QED
      BY <2>1, <2>4, <2>5
<1>9. Flight'
  <2>1. UNCHANGED overtaken
      BY DEF ConnectionStops
  <2>2. QED
      BY <1>1, <1>3, <1>4, <1>7, <2>1 DEF IInv, Flight, NoneUp
<1>10. SendingIsReal' /\ WatchedQueue'
    BY <1>6 DEF SendingIsReal, WatchedQueue
<1>11. QED
    BY <1>1, <1>8, <1>9, <1>10 DEF IInv

-----------------------------------------------------------------------------
(* The invariant and what follows from it.                                 *)

\* It holds initially.
LEMMA InitIInv == Init => IInv
<1> SUFFICES ASSUME Init PROVE IInv
    OBVIOUS
<1>1. P!IInv
    BY SameState, P!InitIInv, ConnectorAssumptions DEF Init
<1>2. SenderTypes
  <2>1. 0 \in 0..MaxConnections /\ 0 \in 0..MaxMessages
      BY ConnectorAssumption, MessagesAssumption
  <2>2. <<>> \in Seq(Messages)
      OBVIOUS
  <2>3. "idle" \in PCs
      BY DEF PCs
  <2>4. QED
      BY <2>1, <2>2, <2>3, Zenon DEF Init, SenderTypes, Connections
<1>3. connection_ = 0 /\ tpc = "idle" /\ Transport \in Workers
    BY SameState DEF Init, Connector!Init, Workers
<1>4. /\ \A w \in Workers : pc[w] = "idle" /\ conn[w] = 0 /\ msg[w] = 0
      /\ \A c \in Connections : inflight[c] = <<>>
      /\ ~is_sending_ /\ sent_messages_ = <<>>
    BY DEF Init, Connections
<1>5. Locals /\ Known /\ Turns
    BY <1>3, <1>4 DEF Locals, Known, Turns
<1>6. Flight /\ SendingIsReal /\ WatchedQueue
    BY <1>3, <1>4 DEF Flight, OneSender, Busy, Sends, SendingIsReal, WatchedQueue
<1>7. QED
    BY <1>1, <1>2, <1>5, <1>6 DEF IInv

\* Nothing changes.
LEMMA StutterIInv == IInv /\ UNCHANGED vars => IInv'
<1> SUFFICES ASSUME IInv, UNCHANGED vars PROVE IInv'
    OBVIOUS
<1>1. P!IInv' /\ UNCHANGED connectorVars
    BY ConnectorKept DEF IInv, vars
<1>2. /\ UNCHANGED <<sent_messages_, is_sending_, pushed, underflow, pc, conn, msg>>
      /\ UNCHANGED <<inflight, overtaken, delivered, connection_, status, reports, tpc>>
      /\ NoneUp' <=> NoneUp
      /\ Disconnected' <=> Disconnected
      /\ Connector!ReportedOnce' <=> Connector!ReportedOnce
    BY <1>1, ConnectorSame DEF vars, threadVars, netVars
<1>3. SenderTypes' /\ Locals' /\ Known' /\ Turns'
    BY <1>2 DEF IInv, SenderTypes, Locals, Known, Turns
<1>4. Flight'
  <2>1. \A c \in Connections : OneSender(c)' <=> OneSender(c)
      BY <1>2 DEF OneSender, Busy, Sends
  <2>2. QED
      BY <1>2, <2>1 DEF IInv, Flight
<1>5. SendingIsReal' /\ WatchedQueue'
    BY <1>2 DEF IInv, SendingIsReal, WatchedQueue, Watched
<1>6. QED
    BY <1>1, <1>3, <1>4, <1>5 DEF IInv

\* Every step keeps it.
LEMMA NextIInv == IInv /\ [Next]_vars => IInv'
<1> SUFFICES ASSUME IInv, [Next]_vars PROVE IInv'
    OBVIOUS
<1>1. CASE WorkerStep
  <2>1. ASSUME NEW u \in Users, send(u)
        PROVE  IInv'
      BY <2>1, MovesStep DEF Workers
  <2>2. ASSUME NEW w \in Workers, send_next(w)
        PROVE  IInv'
      BY <2>2, MovesStep, ExchangeStep, AsyncSendStep DEF send_next
  <2>3. CASE handle_sent_message
      BY <2>3, SentMessageStep, ClearIsSendingStep
      DEF handle_sent_message, Connections
  <2>4. QED
      BY <1>1, <2>1, <2>2, <2>3 DEF WorkerStep
<1>2. CASE ClientStep
    BY <1>2, ConnectorStepKeeps, CallbackStep, DisconnectionStep, StopsStep
    DEF ClientStep
<1>3. CASE UNCHANGED vars
    BY <1>3, StutterIInv
<1>4. QED
    BY <1>1, <1>2, <1>3, StepKinds

\* It is an invariant of the specification.
LEMMA SpecIInv == Spec => []IInv
BY InitIInv, NextIInv, PTL DEF Spec

\* The variables have their types: connections and messages that threads hold
\* exist.
THEOREM TypesHold == Spec => []TypeOK
BY SpecIInv, TypeParts, PTL

\* Whatever threads call send(), and however often the client reconnects, a
\* connection never has two messages in flight, as long as connections report
\* their end once and no connection reports a write after another one has
\* replaced it (send_next() and handle_sent_message()).
THEOREM WritesNeverOverlap == Spec => []OneInFlight
<1>1. IInv => OneInFlight
    BY DEF IInv, Flight, OneInFlight, Connections
<1>2. QED
    BY <1>1, SpecIInv, PTL

\* As long as the first connection lasts, a message that is queued when
\* send_next() finds is_sending_ set is sent by whoever had set it.
THEOREM NoLostWakeUp == Spec => []QueueIsWatched
<1>1. IInv => QueueIsWatched
    BY SameState DEF IInv, WatchedQueue, Watched, QueueIsWatched, Connections
<1>2. QED
    BY <1>1, SpecIInv, PTL

\* The connector of a client with a sender still behaves as the one of
\* ClientConnector does: the sender takes no step that it does not allow, and
\* changes nothing behind its back.
THEOREM ConnectorIsImplemented ==
    Spec => Connector!Init /\ [][Connector!Next]_(Connector!vars)
<1>1. [Next]_vars => [Connector!Next]_(Connector!vars)
  <2> SUFFICES ASSUME [Next]_vars PROVE [Connector!Next]_(Connector!vars)
      OBVIOUS
  <2>1. CASE ClientStep
    <3>1. CASE \/ StartConnector \/ StopConnector \/ OnConnection
               \/ handle_disconnection
        BY <3>1, Zenon DEF StartConnector, StopConnector, OnConnection,
           handle_disconnection, Connector!Next, Connector!Continue
    <3>2. ASSUME NEW c \in Connections, ConnectionStops(c)
          PROVE  Connector!Next
        BY <3>2, Zenon DEF ConnectionStops, Connector!Next,
           Connector!ConnectionEnds, Connector!Connections, Connections
    <3>3. CASE ConnectorStep
        BY <3>3, Zenon DEF ConnectorStep, Connector!Next, Connector!Continue
    <3>4. QED
        BY <2>1, <3>1, <3>2, <3>3, Zenon DEF ClientStep
  <2>2. CASE WorkerStep \/ UNCHANGED vars
    <3>1. UNCHANGED connectorVars
        BY <2>2, Zenon DEF WorkerStep, send, send_next, LoadIsSending,
           get_connection, NextMessage, ExchangeIsSending, AsyncSend,
           handle_sent_message, SentMessage, ClearIsSending, vars
    <3>2. QED
        BY <3>1, Zenon DEF connectorVars, Connector!vars
  <2>3. QED
      BY <2>1, <2>2, StepKinds
<1>2. Init => Connector!Init
    BY DEF Init
<1>3. QED
    BY <1>1, <1>2, PTL DEF Spec
=============================================================================
