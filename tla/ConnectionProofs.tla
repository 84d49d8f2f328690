--------------------------- MODULE ConnectionProofs ---------------------------
(***************************************************************************)
(* Proofs about module Connection, for any number of messages, of calls    *)
(* and of faults.                                                          *)
(***************************************************************************)
EXTENDS Connection, TLAPS

\* Before start() nothing has happened to the connection.
NotStarted ==
    state_ = "INIT" =>
        /\ tasks = <<>>
        /\ ~reading
        /\ writing = <<>>
        /\ closed = <<>>
        /\ socket = "open"

\* The read posted by start() runs before any other handler.
FirstRead ==
    \A i \in 1..Len(tasks) :
        tasks[i].op = "read_next" =>
            i = 1 /\ state_ = "PROCESSING" /\ ~reading /\ writing = <<>>

\* An operation on the socket is aborted only by a stop.
AbortedByStop ==
    \A i \in 1..Len(tasks) :
        tasks[i].error = "aborted" => state_ = "STOPPED"

\* Closing leaves no operation behind on the socket, and the socket is closed
\* only by a stop.
ClosedSocketIsIdle ==
    socket = "closed" => state_ = "STOPPED" /\ ~reading /\ writing = <<>>

\* The inductive invariant.
IInv ==
    /\ TypeOK
    /\ state_ # "STARTING"
    /\ NotStarted
    /\ FirstRead
    /\ AbortedByStop
    /\ OneReadChain
    /\ ClosedSocketIsIdle
    /\ StopReported

-----------------------------------------------------------------------------
(* Facts about the queue of handlers.                                      *)

\* What Append does to a queue.
LEMMA AppendHandler ==
    ASSUME NEW S, NEW q \in Seq(S), NEW h \in S
    PROVE  /\ Append(q, h) \in Seq(S)
           /\ Len(Append(q, h)) = Len(q) + 1
           /\ \A i \in 1..Len(q) : Append(q, h)[i] = q[i]
           /\ Append(q, h)[Len(q) + 1] = h
OBVIOUS

\* What is left of a queue after its first element was taken.
LEMMA TailHandler ==
    ASSUME NEW S, NEW q \in Seq(S), q # <<>>
    PROVE  /\ Tail(q) \in Seq(S)
           /\ Head(q) \in S
           /\ Head(q) = q[1]
           /\ Len(Tail(q)) = Len(q) - 1
           /\ Len(q) >= 1
           /\ \A i \in 1..Len(Tail(q)) : Tail(q)[i] = q[i + 1]
OBVIOUS

\* Where the elements of two queues are after they were joined.
LEMMA ConcatHandlers ==
    ASSUME NEW S, NEW q \in Seq(S), NEW r \in Seq(S)
    PROVE  /\ q \o r \in Seq(S)
           /\ Len(q \o r) = Len(q) + Len(r)
           /\ \A i \in 1..Len(q) : (q \o r)[i] = q[i]
           /\ \A i \in Len(q) + 1..Len(q) + Len(r) : (q \o r)[i] = r[i - Len(q)]
OBVIOUS

\* on_closed_ is called with a status.
LEMMA ReportStatus ==
    ASSUME NEW S, NEW q \in Seq(S), NEW status \in S
    PROVE  Append(q, status) \in Seq(S) /\ Append(q, status) # <<>>
<1>1. Append(q, status) \in Seq(S) /\ Len(Append(q, status)) = Len(q) + 1
    BY AppendHandler
<1>2. Len(q) \in Nat /\ Len(<<>>) = 0
    OBVIOUS
<1>3. Append(q, status) # <<>>
    BY <1>1, <1>2
<1>4. QED
    BY <1>1, <1>3

\* The handlers that the operations of the connection make ready.
LEMMA HandlerTypes ==
    /\ Handler("read_next", "none", <<>>) \in Handlers
    /\ Handler("close", "none", <<>>) \in Handlers
    /\ \A e \in Errors, d \in Seq(Items \cup {Bad}) :
            Handler("read_done", e, d) \in Handlers
    /\ \A m \in Nat : Handler("send", "none", <<m>>) \in Handlers
    /\ \A e \in Errors, m \in Nat : Handler("write_done", e, <<m>>) \in Handlers
BY DEF Handler, Handlers

\* The fields of a handler.
LEMMA HandlerFields ==
    \A op, e, d : /\ Handler(op, e, d).op = op
                  /\ Handler(op, e, d).error = e
                  /\ Handler(op, e, d).data = d
BY DEF Handler

-----------------------------------------------------------------------------
(* Every action preserves the invariant.                                   *)

\* The invariant holds initially.
LEMMA InitIInv == Init => IInv
<1> SUFFICES ASSUME Init PROVE IInv
    OBVIOUS
<1>1. \A S : <<>> \in Seq(S)
    OBVIOUS
<1>2. /\ tasks \in Seq(Handlers) /\ inbound \in Seq(Items \cup {Bad})
      /\ received \in Seq(Items)
      /\ closed \in Seq({"SUCCESS", "INVALID_MESSAGE"})
      /\ writing \in Seq(Nat) /\ asked \in Seq(Nat) /\ written \in Seq(Nat)
    BY <1>1, Zenon DEF Init
<1>3. TypeOK
    BY <1>2 DEF Init, TypeOK, States, PeerFaults
<1>4. QED
    BY <1>3 DEF Init, IInv, NotStarted, FirstRead, AbortedByStop, OneReadChain,
       ReadHandlers, ClosedSocketIsIdle, StopReported, is_processing

\* start() posts the first read.
LEMMA StartStep == IInv /\ start => IInv'
<1> SUFFICES ASSUME IInv, start PROVE IInv'
    OBVIOUS
<1> USE DEF IInv, start, netVars, callVars
<1>1. /\ tasks = <<>> /\ Handler("read_next", "none", <<>>) \in Handlers
      /\ tasks \in Seq(Handlers)
    BY HandlerTypes DEF TypeOK, NotStarted
<1>2. /\ tasks' \in Seq(Handlers) /\ Len(tasks') = 1
      /\ tasks'[1] = Handler("read_next", "none", <<>>)
    BY <1>1, AppendHandler
<1>3. tasks'[1].op = "read_next" /\ tasks'[1].error = "none"
    BY <1>2, HandlerFields
<1>4. TypeOK'
    BY <1>2 DEF TypeOK, States
<1>5. FirstRead' /\ AbortedByStop'
    BY <1>2, <1>3 DEF FirstRead, AbortedByStop, NotStarted
<1>6. OneReadChain'
    BY <1>2, <1>3 DEF OneReadChain, ReadHandlers, ReadOps, NotStarted
<1>7. QED
    BY <1>4, <1>5, <1>6 DEF NotStarted, ClosedSocketIsIdle, StopReported

\* async_send() posts a write, or does nothing.
LEMMA AsyncSendStep ==
    ASSUME NEW message \in Nat, IInv, async_send(message) PROVE IInv'
<1> USE DEF IInv, async_send, netVars
<1>1. CASE ~is_processing
  <2>1. /\ asked' \in Seq(Nat)
        /\ UNCHANGED <<state_, socket, tasks, reading, writing, taken, received,
                       written, closed, thrown, peer, inbound, closeAsked,
                       overlapped>>
      BY <1>1 DEF TypeOK
  <2>2. TypeOK' /\ NotStarted'
      BY <2>1 DEF TypeOK, NotStarted
  <2>3. FirstRead' /\ AbortedByStop'
      BY <2>1 DEF FirstRead, AbortedByStop
  <2>4. OneReadChain' /\ ClosedSocketIsIdle' /\ StopReported'
      BY <2>1 DEF OneReadChain, ReadHandlers, ClosedSocketIsIdle, StopReported,
         is_processing
  <2>5. QED
      BY <2>1, <2>2, <2>3, <2>4
<1>2. CASE is_processing
  <2> DEFINE h == Handler("send", "none", <<message>>)
  <2>1. /\ h \in Handlers /\ h.op = "send" /\ h.error = "none"
        /\ tasks \in Seq(Handlers) /\ tasks' = Append(tasks, h)
      BY <1>2, HandlerTypes, HandlerFields DEF TypeOK
  <2> HIDE DEF h
  <2>2. /\ tasks' \in Seq(Handlers) /\ Len(tasks') = Len(tasks) + 1
        /\ \A i \in 1..Len(tasks) : tasks'[i] = tasks[i]
        /\ tasks'[Len(tasks) + 1].op = "send"
        /\ tasks'[Len(tasks) + 1].error = "none"
        /\ Len(tasks) \in Nat
      BY <2>1, AppendHandler
  <2>3. TypeOK'
      BY <2>2 DEF TypeOK
  <2>4. FirstRead'
      BY <2>2 DEF FirstRead
  <2>5. ReadHandlers' = ReadHandlers
      BY <2>2 DEF ReadHandlers, ReadOps
  <2>6. OneReadChain'
      BY <2>5 DEF OneReadChain, is_processing
  <2>7. AbortedByStop'
      BY <2>2 DEF AbortedByStop
  <2>8. QED
      BY <2>3, <2>4, <2>6, <2>7 DEF NotStarted, ClosedSocketIsIdle, StopReported
<1>3. QED
  BY <1>1, <1>2

\* async_close() posts a close.
LEMMA AsyncCloseStep == IInv /\ async_close => IInv'
<1> SUFFICES ASSUME IInv, async_close PROVE IInv'
    OBVIOUS
<1> USE DEF IInv, async_close, netVars
<1> DEFINE h == Handler("close", "none", <<>>)
<1>1. /\ h \in Handlers /\ h.op = "close" /\ h.error = "none"
      /\ tasks \in Seq(Handlers) /\ tasks' = Append(tasks, h)
    BY HandlerTypes, HandlerFields DEF TypeOK
<1> HIDE DEF h
<1>2. /\ tasks' \in Seq(Handlers) /\ Len(tasks') = Len(tasks) + 1
      /\ \A i \in 1..Len(tasks) : tasks'[i] = tasks[i]
      /\ tasks'[Len(tasks) + 1].op = "close"
      /\ tasks'[Len(tasks) + 1].error = "none"
      /\ Len(tasks) \in Nat
    BY <1>1, AppendHandler
<1>3. TypeOK'
    BY <1>2 DEF TypeOK
<1>4. FirstRead' /\ AbortedByStop'
    BY <1>2 DEF FirstRead, AbortedByStop
<1>5. ReadHandlers' = ReadHandlers
    BY <1>2 DEF ReadHandlers, ReadOps
<1>6. OneReadChain'
    BY <1>5 DEF OneReadChain, is_processing
<1>7. QED
    BY <1>3, <1>4, <1>6 DEF NotStarted, ClosedSocketIsIdle, StopReported

-----------------------------------------------------------------------------
(* Handlers.  The facts that every handler starts from.                    *)

\* A handler takes the first element of the queue.
LEMMA TakeHandler ==
    ASSUME IInv, NEW op, IsNext(op)
    PROVE  /\ tasks \in Seq(Handlers) /\ Tail(tasks) \in Seq(Handlers)
           /\ Len(tasks) \in Nat /\ Len(tasks) >= 1
           /\ Len(Tail(tasks)) = Len(tasks) - 1
           /\ tasks[1] = Head(tasks) /\ tasks[1].op = op
           /\ tasks[1] \in Handlers
           /\ \A i \in 1..(Len(tasks) - 1) : Tail(tasks)[i] = tasks[i + 1]
           /\ state_ \in {"PROCESSING", "STOPPED"}
           /\ ~thrown
<1>1. tasks \in Seq(Handlers) /\ tasks # <<>> /\ Head(tasks).op = op /\ ~thrown
    BY DEF IInv, TypeOK, IsNext
<1>2. state_ \in {"PROCESSING", "STOPPED"}
    BY <1>1 DEF IInv, TypeOK, States, NotStarted
<1>3. QED
    BY <1>1, <1>2, TailHandler

\* If a read is taken, no other is left; otherwise the read that is in the
\* queue, if there is one, stays.
LEMMA TakeRead ==
    ASSUME IInv, NEW op, IsNext(op), tasks' = Tail(tasks)
    PROVE  /\ op \in ReadOps => ReadHandlers' = {} /\ ~reading
           /\ op \notin ReadOps =>
                /\ \A i, j \in ReadHandlers' : i = j
                /\ ReadHandlers' = {} <=> ReadHandlers = {}
           /\ \A i \in 1..Len(tasks') : tasks'[i].op # "read_next"
           /\ state_ # "STOPPED" =>
                \A i \in 1..Len(tasks') : tasks'[i].error # "aborted"
<1>1. \A i \in 1..Len(tasks') : i + 1 \in 1..Len(tasks) /\ tasks'[i] = tasks[i + 1]
    BY TakeHandler
<1>2. op \in ReadOps => 1 \in ReadHandlers
    BY TakeHandler DEF ReadHandlers
<1>3. op \in ReadOps => ReadHandlers' = {} /\ ~reading
    BY <1>1, <1>2 DEF IInv, OneReadChain, ReadHandlers
<1>4. ASSUME op \notin ReadOps
      PROVE  /\ \A i, j \in ReadHandlers' : i = j
             /\ ReadHandlers' = {} <=> ReadHandlers = {}
  <2>1. \A i \in ReadHandlers' : i \in Nat /\ i + 1 \in ReadHandlers
      BY <1>1, TakeHandler DEF ReadHandlers
  <2>2. \A i \in ReadHandlers : i - 1 \in ReadHandlers'
    <3> SUFFICES ASSUME NEW i \in ReadHandlers PROVE i - 1 \in ReadHandlers'
        OBVIOUS
    <3>1. i # 1 /\ i \in 1..Len(tasks) /\ tasks[i].op \in ReadOps
        BY <1>4, TakeHandler DEF ReadHandlers
    <3>2. i - 1 \in 1..Len(tasks') /\ tasks'[i - 1] = tasks[i]
        BY <3>1, TakeHandler
    <3>3. QED
        BY <3>1, <3>2 DEF ReadHandlers
  <2>3. QED
      BY <2>1, <2>2 DEF IInv, OneReadChain
<1>5. \A i \in 1..Len(tasks') : tasks'[i].op # "read_next"
    BY <1>1, TakeHandler DEF IInv, FirstRead
<1>6. state_ # "STOPPED" =>
        \A i \in 1..Len(tasks') : tasks'[i].error # "aborted"
    BY <1>1 DEF IInv, AbortedByStop
<1>7. QED
    BY <1>3, <1>4, <1>5, <1>6

\* A handler that only takes itself out of the queue.
LEMMA IgnoreStep ==
    ASSUME IInv, NEW op, IsNext(op), Ignore,
           op \in ReadOps => state_ # "PROCESSING"
    PROVE  IInv'
<1> USE DEF Ignore, netVars, callVars
<1>1. TypeOK'
    BY TakeHandler DEF IInv, TypeOK
<1>2. FirstRead' /\ AbortedByStop'
    BY TakeRead DEF FirstRead, AbortedByStop
<1>3. OneReadChain'
  <2>1. CASE op \in ReadOps
    BY <2>1, TakeRead DEF OneReadChain, is_processing
  <2>2. CASE op \notin ReadOps
    BY <2>2, TakeRead DEF IInv, OneReadChain, is_processing
  <2>3. QED
    BY <2>1, <2>2
<1>4. QED
    BY <1>1, <1>2, <1>3, TakeHandler
    DEF IInv, NotStarted, ClosedSocketIsIdle, StopReported

\* A handler that reports that the peer has gone.
LEMMA ClosedByPeerStep ==
    ASSUME IInv, NEW op, IsNext(op), ClosedByPeer
    PROVE  IInv'
<1> USE DEF ClosedByPeer, netVars, callVars
<1>1. closed' \in Seq({"SUCCESS", "INVALID_MESSAGE"}) /\ closed' # <<>>
    BY ReportStatus DEF IInv, TypeOK
<1>2. TypeOK'
    BY <1>1, TakeHandler DEF IInv, TypeOK, States
<1>3. FirstRead' /\ AbortedByStop'
    BY TakeRead DEF FirstRead, AbortedByStop
<1>4. OneReadChain'
  <2>1. CASE op \in ReadOps
    BY <2>1, TakeRead DEF OneReadChain, is_processing
  <2>2. CASE op \notin ReadOps
    BY <2>2, TakeRead DEF IInv, OneReadChain, is_processing
  <2>3. QED
    BY <2>1, <2>2
<1>5. QED
    BY <1>1, <1>2, <1>3, <1>4
    DEF IInv, NotStarted, ClosedSocketIsIdle, StopReported

\* A handler that throws.
LEMMA ThrowStep ==
    ASSUME IInv, NEW op, IsNext(op), Throw
    PROVE  IInv'
<1> USE DEF Throw, netVars, callVars
<1>1. TypeOK'
    BY TakeHandler DEF IInv, TypeOK
<1>2. FirstRead' /\ AbortedByStop'
    BY TakeRead DEF FirstRead, AbortedByStop
<1>3. OneReadChain'
  <2>1. CASE op \in ReadOps
    BY <2>1, TakeRead DEF OneReadChain, is_processing
  <2>2. CASE op \notin ReadOps
    BY <2>2, TakeRead DEF IInv, OneReadChain, is_processing
  <2>3. QED
    BY <2>1, <2>2
<1>4. QED
    BY <1>1, <1>2, <1>3, TakeHandler
    DEF IInv, NotStarted, ClosedSocketIsIdle, StopReported

-----------------------------------------------------------------------------
(* Handlers that start an operation.                                       *)

\* The first read: the socket is open, since nothing has stopped yet.
LEMMA RunReadNextStep == IInv /\ RunReadNext => IInv'
<1> SUFFICES ASSUME IInv, RunReadNext PROVE IInv'
    OBVIOUS
<1> USE DEF RunReadNext, netVars, callVars
<1>1. state_ = "PROCESSING" /\ writing = <<>>
    BY TakeHandler DEF IInv, FirstRead
<1>2. socket = "open"
    BY <1>1 DEF IInv, ClosedSocketIsIdle, TypeOK
<1>3. reading' = TRUE /\ tasks' = Tail(tasks)
    BY <1>2 DEF async_read_next
<1>4. /\ ReadHandlers' = {}
      /\ \A i \in 1..Len(tasks') : tasks'[i].op # "read_next"
      /\ \A i \in 1..Len(tasks') : tasks'[i].error # "aborted"
    BY <1>1, <1>3, TakeRead DEF ReadOps
<1>5. TypeOK'
    BY <1>3, TakeHandler DEF IInv, TypeOK
<1>6. FirstRead' /\ AbortedByStop'
    BY <1>4 DEF FirstRead, AbortedByStop
<1>7. OneReadChain'
    BY <1>3, <1>4 DEF OneReadChain
<1>8. QED
    BY <1>1, <1>2, <1>5, <1>6, <1>7
    DEF IInv, NotStarted, ClosedSocketIsIdle, StopReported

\* A posted write starts, or fails at once on a closed socket.
LEMMA AsyncSendInThreadStep == IInv /\ async_send_in_thread => IInv'
<1> SUFFICES ASSUME IInv, async_send_in_thread PROVE IInv'
    OBVIOUS
<1> USE DEF async_send_in_thread, netVars, callVars
<1> DEFINE message == Head(Head(tasks).data)
<1>1. "send" \notin ReadOps /\ "write_done" \notin ReadOps
    BY DEF ReadOps
<1>2. message \in Nat
  <2>1. Head(tasks).data \in Seq(Nat) /\ Head(tasks).data # <<>>
      BY TakeHandler DEF Handlers
  <2>2. QED
      BY <2>1, TailHandler
<1> HIDE DEF message
<1>3. CASE socket = "open"
  <2>1. tasks' = Tail(tasks) /\ writing' = Append(writing, message)
      BY <1>3 DEF message
  <2>2. writing' \in Seq(Nat)
      BY <1>2, <2>1 DEF IInv, TypeOK
  <2>3. TypeOK'
      BY <1>3, <2>1, <2>2, TakeHandler DEF IInv, TypeOK
  <2>4. FirstRead' /\ AbortedByStop'
      BY <2>1, TakeRead DEF FirstRead, AbortedByStop
  <2>5. OneReadChain'
      BY <1>1, <2>1, TakeRead DEF IInv, OneReadChain, is_processing
  <2>6. QED
      BY <1>3, <2>3, <2>4, <2>5, TakeHandler
      DEF IInv, NotStarted, ClosedSocketIsIdle, StopReported
<1>4. CASE socket # "open"
  <2> DEFINE h == Handler("write_done", "failed", <<message>>)
  <2>1. /\ h \in Handlers /\ h.op = "write_done"
      BY <1>2, HandlerTypes, HandlerFields DEF Errors
  <2>2. tasks' = Append(Tail(tasks), h) /\ UNCHANGED writing
      BY <1>4 DEF message
  <2> HIDE DEF h
  <2>3. /\ tasks' \in Seq(Handlers) /\ Len(tasks') = Len(tasks)
        /\ Len(tasks) \in Nat /\ Len(tasks) >= 1
        /\ \A i \in 1..(Len(tasks) - 1) : tasks'[i] = tasks[i + 1]
        /\ tasks'[Len(tasks)].op = "write_done"
        /\ tasks[1].op = "send"
      BY <2>1, <2>2, TakeHandler, AppendHandler
  <2>4. state_ = "STOPPED" /\ ~reading /\ socket = "closed" /\ writing = <<>>
      BY <1>4 DEF IInv, ClosedSocketIsIdle, TypeOK
  <2>5. \A i \in 1..Len(tasks') :
            \/ i + 1 \in 1..Len(tasks) /\ tasks'[i] = tasks[i + 1]
            \/ tasks'[i].op = "write_done"
      BY <2>3
  <2>6. TypeOK'
      BY <1>4, <2>2, <2>3 DEF IInv, TypeOK
  <2>7. FirstRead' /\ AbortedByStop'
      BY <2>3, <2>4, <2>5 DEF IInv, FirstRead, AbortedByStop
  <2>8. \A i \in ReadHandlers' : i \in Nat /\ i + 1 \in ReadHandlers
      BY <1>1, <2>5 DEF ReadHandlers
  <2>9. OneReadChain'
      BY <2>4, <2>8 DEF IInv, OneReadChain, is_processing
  <2>10. QED
      BY <2>2, <2>4, <2>6, <2>7, <2>9
      DEF IInv, NotStarted, ClosedSocketIsIdle, StopReported
<1>5. QED
  BY <1>3, <1>4

-----------------------------------------------------------------------------
(* Completions and the peer.                                               *)

\* The peer sends something.
LEMMA PeerSendStep ==
    ASSUME NEW item \in Items \cup {Bad}, IInv, PeerSend(item) PROVE IInv'
<1> USE DEF PeerSend, callVars
<1>1. inbound' \in Seq(Items \cup {Bad})
    BY AppendHandler DEF IInv, TypeOK
<1>2. TypeOK'
    BY <1>1 DEF IInv, TypeOK
<1>3. QED
    BY <1>2 DEF IInv, NotStarted, FirstRead, AbortedByStop, OneReadChain,
       ReadHandlers, ClosedSocketIsIdle, StopReported, is_processing

\* Something happens to the peer.
LEMMA PeerFaultStep ==
    ASSUME NEW fault \in Faults, IInv, PeerFault(fault) PROVE IInv'
<1> USE DEF PeerFault, callVars
<1>1. TypeOK'
    BY FaultsAssumption DEF IInv, TypeOK
<1>2. QED
    BY <1>1 DEF IInv, NotStarted, FirstRead, AbortedByStop, OneReadChain,
       ReadHandlers, ClosedSocketIsIdle, StopReported, is_processing

\* The outstanding read completes.
LEMMA ReadCompletesStep == IInv /\ ReadCompletes => IInv'
<1> SUFFICES ASSUME IInv, ReadCompletes PROVE IInv'
    OBVIOUS
<1> USE DEF netVars, callVars
<1>1. PICK h \in Handlers : /\ tasks' = Append(tasks, h)
                            /\ h.op = "read_done" /\ h.error # "aborted"
                            /\ taken' \in Nat
  <2>1. ASSUME NEW n \in taken..Len(inbound),
               tasks' = Append(tasks, Handler("read_done", "none",
                                              SubSeq(inbound, taken + 1, n))),
               taken' = n
        PROVE  \E h \in Handlers : /\ tasks' = Append(tasks, h)
                                   /\ h.op = "read_done"
                                   /\ h.error # "aborted"
                                   /\ taken' \in Nat
    <3>1. SubSeq(inbound, taken + 1, n) \in Seq(Items \cup {Bad}) /\ n \in Nat
        BY DEF IInv, TypeOK
    <3> DEFINE g == Handler("read_done", "none", SubSeq(inbound, taken + 1, n))
    <3>2. g \in Handlers /\ g.op = "read_done" /\ g.error = "none"
        BY <3>1 DEF Handler, Handlers, Errors
    <3>3. tasks' = Append(tasks, g)
        BY <2>1
    <3> HIDE DEF g
    <3>4. QED
        BY <2>1, <3>1, <3>2, <3>3
  <2>2. \A e \in {"gone", "failed"} :
            /\ Handler("read_done", e, <<>>) \in Handlers
            /\ Handler("read_done", e, <<>>).op = "read_done"
            /\ Handler("read_done", e, <<>>).error # "aborted"
      BY DEF Handler, Handlers, Errors
  <2>3. ASSUME NEW e \in {"gone", "failed"}, UNCHANGED taken,
               tasks' = Append(tasks, Handler("read_done", e, <<>>))
        PROVE  \E h \in Handlers : /\ tasks' = Append(tasks, h)
                                   /\ h.op = "read_done"
                                   /\ h.error # "aborted"
                                   /\ taken' \in Nat
      BY <2>2, <2>3 DEF IInv, TypeOK
  <2>4. QED
      BY <2>1, <2>3, Zenon DEF ReadCompletes
<1>2. /\ reading /\ reading' = FALSE
      /\ UNCHANGED <<state_, socket, writing, received, written, closed, thrown,
                     peer, inbound, asked, closeAsked, overlapped>>
    BY DEF ReadCompletes
<1>3. /\ tasks \in Seq(Handlers) /\ tasks' \in Seq(Handlers)
      /\ Len(tasks') = Len(tasks) + 1 /\ Len(tasks) \in Nat
      /\ \A i \in 1..Len(tasks) : tasks'[i] = tasks[i]
      /\ tasks'[Len(tasks) + 1] = h
    BY <1>1, AppendHandler DEF IInv, TypeOK
<1>4. \A i \in 1..Len(tasks) : tasks[i].op \notin ReadOps
    BY <1>2 DEF IInv, OneReadChain, ReadHandlers
<1>5. ReadHandlers' = {Len(tasks) + 1}
    BY <1>1, <1>3, <1>4 DEF ReadHandlers, ReadOps
<1>6. TypeOK'
    BY <1>1, <1>2, <1>3 DEF IInv, TypeOK
<1>7. FirstRead'
    BY <1>1, <1>3, <1>4 DEF FirstRead, ReadOps
<1>8. AbortedByStop'
    BY <1>1, <1>2, <1>3 DEF IInv, AbortedByStop
<1>9. OneReadChain'
    BY <1>2, <1>5 DEF OneReadChain
<1>10. QED
    BY <1>2, <1>6, <1>7, <1>8, <1>9
    DEF IInv, NotStarted, ClosedSocketIsIdle, StopReported

\* The oldest outstanding write completes.
LEMMA WriteCompletesStep == IInv /\ WriteCompletes => IInv'
<1> SUFFICES ASSUME IInv, WriteCompletes PROVE IInv'
    OBVIOUS
<1> USE DEF netVars, callVars
<1>1. /\ writing # <<>> /\ Head(writing) \in Nat /\ writing' = Tail(writing)
      /\ writing' \in Seq(Nat)
      /\ UNCHANGED <<state_, socket, reading, taken, received, closed, thrown,
                     peer, inbound, asked, closeAsked, overlapped>>
    BY TailHandler DEF WriteCompletes, IInv, TypeOK
<1>2. PICK h \in Handlers : /\ tasks' = Append(tasks, h)
                            /\ h.op = "write_done" /\ h.error # "aborted"
  <2>1. \A e \in {"none", "gone", "failed"} :
            LET h == Handler("write_done", e, <<Head(writing)>>)
            IN h \in Handlers /\ h.op = "write_done" /\ h.error # "aborted"
      BY <1>1, HandlerTypes, HandlerFields DEF Errors
  <2>2. QED
      BY <2>1 DEF WriteCompletes
<1>3. written' \in Seq(Nat)
  <2>1. written \in Seq(Nat) /\ Append(written, Head(writing)) \in Seq(Nat)
      BY <1>1, AppendHandler DEF IInv, TypeOK
  <2>2. written' \in {written, Append(written, Head(writing))}
      BY DEF WriteCompletes
  <2>3. QED
      BY <2>1, <2>2
<1>4. /\ tasks \in Seq(Handlers) /\ tasks' \in Seq(Handlers)
      /\ Len(tasks') = Len(tasks) + 1 /\ Len(tasks) \in Nat
      /\ \A i \in 1..Len(tasks) : tasks'[i] = tasks[i]
      /\ tasks'[Len(tasks) + 1].op = "write_done"
      /\ tasks'[Len(tasks) + 1].error # "aborted"
    BY <1>2, AppendHandler DEF IInv, TypeOK
<1>5. ReadHandlers' = ReadHandlers
    BY <1>4 DEF ReadHandlers, ReadOps
<1>6. TypeOK'
    BY <1>1, <1>3, <1>4 DEF IInv, TypeOK
<1>7. FirstRead' /\ AbortedByStop'
  <2>1. \A i \in 1..Len(tasks) : tasks[i].op # "read_next"
      BY <1>1 DEF IInv, FirstRead
  <2>2. FirstRead'
      BY <1>4, <2>1 DEF FirstRead
  <2>3. AbortedByStop'
    <3>1. /\ AbortedByStop /\ state_' = state_
          /\ Len(tasks) \in Nat /\ Len(tasks') = Len(tasks) + 1
        BY <1>1, <1>4 DEF IInv
    <3>2. SUFFICES ASSUME NEW i \in 1..Len(tasks'), tasks'[i].error = "aborted"
                   PROVE  state_' = "STOPPED"
        BY DEF AbortedByStop
    <3>3. i # Len(tasks) + 1
        BY <1>4, <3>2
    <3>4. i \in 1..Len(tasks) /\ tasks'[i] = tasks[i]
        BY <1>4, <3>1, <3>3
    <3>5. QED
        BY <3>1, <3>2, <3>4 DEF AbortedByStop
  <2>4. QED
      BY <2>2, <2>3
<1>8. OneReadChain'
    BY <1>1, <1>5 DEF IInv, OneReadChain, is_processing
<1>9. QED
    BY <1>1, <1>6, <1>7, <1>8
    DEF IInv, NotStarted, ClosedSocketIsIdle, StopReported

\* The oldest write goes behind the others.
LEMMA WritePartType ==
    ASSUME IInv, WritePart
    PROVE  /\ writing # <<>> /\ writing' \in Seq(Nat) /\ writing' # <<>>
           /\ Len(writing) > 1
           /\ UNCHANGED <<state_, socket, tasks, reading, taken, received, written,
                          closed, thrown, peer, inbound, asked, closeAsked,
                          overlapped>>
<1>1. writing \in Seq(Nat) /\ Len(writing) > 1 /\ writing # <<>>
    BY DEF WritePart, IInv, TypeOK
<1>2. Tail(writing) \in Seq(Nat) /\ Head(writing) \in Nat
    BY <1>1, TailHandler
<1>3. writing' \in Seq(Nat) /\ writing' # <<>>
    BY <1>2, ReportStatus DEF WritePart
<1>4. QED
    BY <1>1, <1>3 DEF WritePart, netVars, callVars

LEMMA WritePartStep == IInv /\ WritePart => IInv'
<1> SUFFICES ASSUME IInv, WritePart PROVE IInv'
    OBVIOUS
<1>1. /\ writing # <<>> /\ writing' \in Seq(Nat)
      /\ UNCHANGED <<state_, socket, tasks, reading, taken, received, written,
                     closed, thrown, peer, inbound, asked, closeAsked, overlapped>>
    BY WritePartType
<1>2. TypeOK'
    BY <1>1 DEF IInv, TypeOK
<1>3. FirstRead' /\ AbortedByStop'
    BY <1>1 DEF IInv, FirstRead, AbortedByStop
<1>4. OneReadChain' /\ StopReported'
    BY <1>1 DEF IInv, OneReadChain, ReadHandlers, StopReported, is_processing
<1>5. NotStarted' /\ ClosedSocketIsIdle'
    BY <1>1 DEF IInv, NotStarted, ClosedSocketIsIdle
<1>6. QED
    BY <1>1, <1>2, <1>3, <1>4, <1>5 DEF IInv

-----------------------------------------------------------------------------
(* Closing, and the handler of a read.                                     *)

\* What close_in_thread() makes ready: the outstanding read, if there is one,
\* and the outstanding writes.
LEMMA AbortedHandlersType ==
    ASSUME IInv
    PROVE  /\ AbortedHandlers \in Seq(Handlers)
           /\ \A i \in 1..Len(AbortedHandlers) :
                \/ AbortedHandlers[i].op = "write_done"
                \/ i = 1 /\ reading /\ AbortedHandlers[i].op = "read_done"
           /\ Len(AbortedHandlers) =
                IF reading THEN Len(writing) + 1 ELSE Len(writing)
           /\ reading => AbortedHandlers[1].op = "read_done"
<1> DEFINE r == IF reading
                THEN <<Handler("read_done", "aborted", <<>>)>> ELSE <<>>
           w == [i \in 1..Len(writing) |->
                    Handler("write_done", "aborted", <<writing[i]>>)]
<1>1. /\ r \in Seq(Handlers) /\ Len(r) = IF reading THEN 1 ELSE 0
      /\ reading => r[1].op = "read_done"
  <2>1. Handler("read_done", "aborted", <<>>) \in Handlers
      BY DEF Handler, Handlers, Errors
  <2>2. Handler("read_done", "aborted", <<>>).op = "read_done"
      BY HandlerFields
  <2>3. QED
      BY <2>1, <2>2
<1>2. /\ w \in Seq(Handlers) /\ Len(w) = Len(writing)
      /\ \A i \in 1..Len(w) : w[i].op = "write_done"
  <2>1. writing \in Seq(Nat)
      BY DEF IInv, TypeOK
  <2>2. \A i \in 1..Len(writing) :
            /\ Handler("write_done", "aborted", <<writing[i]>>) \in Handlers
            /\ Handler("write_done", "aborted", <<writing[i]>>).op = "write_done"
      BY <2>1, HandlerTypes, HandlerFields DEF Errors
  <2>3. QED
      BY <2>1, <2>2
<1>3. AbortedHandlers = r \o w
    BY DEF AbortedHandlers
<1> HIDE DEF r, w
<1>4. /\ r \o w \in Seq(Handlers) /\ Len(r \o w) = Len(r) + Len(w)
      /\ Len(w) \in Nat
      /\ \A i \in 1..Len(r) : (r \o w)[i] = r[i]
      /\ \A i \in Len(r) + 1..Len(r) + Len(w) : (r \o w)[i] = w[i - Len(r)]
  <2>1. r \in Seq(Handlers) /\ w \in Seq(Handlers)
      BY <1>1, <1>2
  <2>2. QED
      BY <2>1, ConcatHandlers
<1>5. ASSUME NEW i \in 1..Len(r \o w)
      PROVE  \/ (r \o w)[i].op = "write_done"
             \/ i = 1 /\ reading /\ (r \o w)[i].op = "read_done"
  <2>1. CASE i \in 1..Len(r)
      BY <1>1, <1>4, <2>1
  <2>2. CASE i \notin 1..Len(r)
    <3>1. i \in Len(r) + 1..Len(r) + Len(w) /\ i - Len(r) \in 1..Len(w)
        BY <1>1, <1>4, <2>2
    <3>2. QED
        BY <1>2, <1>4, <3>1
  <2>3. QED
      BY <2>1, <2>2
<1>6. reading => (r \o w)[1].op = "read_done"
    BY <1>1, <1>4
<1>7. QED
    BY <1>1, <1>2, <1>3, <1>4, <1>5, <1>6

\* close_in_thread() as the end of a handler that leaves queue behind.
LEMMA CloseInThreadStep ==
    ASSUME IInv, ~thrown, state_ # "INIT",
           NEW status \in {"SUCCESS", "INVALID_MESSAGE"},
           NEW queue \in Seq(Handlers),
           \A i \in 1..Len(queue) : queue[i].op # "read_next",
           \A i, j \in 1..Len(queue) :
                queue[i].op \in ReadOps /\ queue[j].op \in ReadOps => i = j,
           \A i \in 1..Len(queue) : queue[i].op \in ReadOps => ~reading,
           close_in_thread(status, queue),
           UNCHANGED <<peer, inbound, taken, written, asked, overlapped>>,
           received' \in Seq(Items), closeAsked' \in Nat
    PROVE  IInv'
<1>1. CASE state_ = "STOPPED"
  <2>1. /\ tasks' = queue
        /\ UNCHANGED <<state_, socket, reading, writing, closed, thrown>>
      BY <1>1 DEF close_in_thread, CloseSocket, cancel
  <2>2. TypeOK'
      BY <2>1 DEF IInv, TypeOK
  <2>3. FirstRead' /\ AbortedByStop'
      BY <1>1, <2>1 DEF FirstRead, AbortedByStop
  <2>4. OneReadChain'
      BY <1>1, <2>1 DEF OneReadChain, ReadHandlers, is_processing
  <2>5. QED
      BY <1>1, <2>1, <2>2, <2>3, <2>4
      DEF IInv, NotStarted, ClosedSocketIsIdle, StopReported
<1>2. CASE state_ # "STOPPED"
  <2>1. /\ state_' = "STOPPED" /\ reading' = FALSE /\ writing' = <<>>
        /\ tasks' = queue \o AbortedHandlers
        /\ socket' \in {socket, "closed"}
        /\ \/ thrown' = TRUE /\ UNCHANGED closed
           \/ closed' = Append(closed, status) /\ UNCHANGED thrown
      BY <1>2 DEF close_in_thread, CloseSocket, cancel
  <2> DEFINE A == AbortedHandlers
  <2>2. /\ A \in Seq(Handlers) /\ Len(A) \in Nat /\ Len(queue) \in Nat
        /\ \A i \in 1..Len(A) :
                \/ A[i].op = "write_done"
                \/ i = 1 /\ reading /\ A[i].op = "read_done"
      BY AbortedHandlersType
  <2> HIDE DEF A
  <2>3. /\ tasks' \in Seq(Handlers) /\ Len(tasks') = Len(queue) + Len(A)
        /\ \A i \in 1..Len(queue) : tasks'[i] = queue[i]
        /\ \A i \in Len(queue) + 1..Len(queue) + Len(A) :
                tasks'[i] = A[i - Len(queue)]
      BY <2>1, <2>2, ConcatHandlers DEF A
  <2>4. \A i \in 1..Len(tasks') :
            \/ i \in 1..Len(queue) /\ tasks'[i] = queue[i]
            \/ tasks'[i].op = "write_done"
            \/ i = Len(queue) + 1 /\ reading /\ tasks'[i].op = "read_done"
    <3> SUFFICES ASSUME NEW i \in 1..Len(tasks'), i \notin 1..Len(queue)
                 PROVE  \/ tasks'[i].op = "write_done"
                        \/ /\ i = Len(queue) + 1 /\ reading
                           /\ tasks'[i].op = "read_done"
        BY <2>3
    <3>1. /\ i \in Len(queue) + 1..Len(queue) + Len(A)
          /\ i - Len(queue) \in 1..Len(A)
        BY <2>2, <2>3
    <3>2. PICK k \in 1..Len(A) : k = i - Len(queue) /\ tasks'[i] = A[k]
        BY <2>3, <3>1
    <3>3. i = Len(queue) + 1 <=> k = 1
        BY <2>2, <3>1, <3>2
    <3>4. QED
        BY <2>2, <3>2, <3>3
  <2>5. closed' \in Seq({"SUCCESS", "INVALID_MESSAGE"})
        /\ (closed' # <<>> \/ thrown')
      BY <2>1, ReportStatus DEF IInv, TypeOK
  <2>6. TypeOK'
    <3>1. thrown' \in BOOLEAN
        BY <2>1, Zenon DEF IInv, TypeOK
    <3>2. socket' \in {"open", "closed"} /\ <<>> \in Seq(Nat)
        BY <2>1 DEF IInv, TypeOK
    <3>3. QED
        BY <2>1, <2>3, <2>5, <3>1, <3>2 DEF IInv, TypeOK, States
  <2>7. FirstRead' /\ AbortedByStop'
      BY <2>1, <2>4 DEF FirstRead, AbortedByStop
  <2>8. \A i, j \in ReadHandlers' : i = j
      BY <2>4 DEF ReadHandlers, ReadOps
  <2>9. OneReadChain'
      BY <2>1, <2>8 DEF OneReadChain, is_processing
  <2>10. QED
      BY <2>1, <2>5, <2>6, <2>7, <2>9
      DEF IInv, NotStarted, ClosedSocketIsIdle, StopReported
<1>3. QED
  BY <1>1, <1>2

\* The handler posted by async_close().
LEMMA RunCloseStep == IInv /\ RunClose => IInv'
<1> SUFFICES ASSUME IInv, RunClose PROVE IInv'
    OBVIOUS
<1> DEFINE queue == Tail(tasks)
<1>1. /\ IsNext("close") /\ close_in_thread("SUCCESS", queue)
      /\ UNCHANGED <<peer, inbound, taken, written, asked, received, closeAsked,
                     overlapped>>
    BY DEF RunClose, netVars, callVars
<1>2. /\ queue \in Seq(Handlers) /\ ~thrown /\ state_ # "INIT"
      /\ \A i \in 1..Len(queue) : i + 1 \in 1..Len(tasks) /\ queue[i] = tasks[i + 1]
    BY <1>1, TakeHandler
<1> HIDE DEF queue
<1>3. \A i \in 1..Len(queue) : queue[i].op # "read_next"
    BY <1>2 DEF IInv, FirstRead
<1>4. \A i, j \in 1..Len(queue) :
            queue[i].op \in ReadOps /\ queue[j].op \in ReadOps => i = j
    BY <1>2 DEF IInv, OneReadChain, ReadHandlers
<1>5. \A i \in 1..Len(queue) : queue[i].op \in ReadOps => ~reading
    BY <1>2 DEF IInv, OneReadChain, ReadHandlers
<1>6. received' \in Seq(Items) /\ closeAsked' \in Nat
    BY <1>1 DEF IInv, TypeOK
<1>7. QED
    BY <1>1, <1>2, <1>3, <1>4, <1>5, <1>6, CloseInThreadStep

\* The items that try_parse() accepts are messages.
LEMMA ParsedItems ==
    ASSUME NEW items \in Seq(Items \cup {Bad}), NEW n, Parsable(items, n)
    PROVE  SubSeq(items, 1, n) \in Seq(Items) /\ n \in Nat /\ n =< Len(items)
<1>1. n \in 0..Len(items) /\ \A i \in 1..n : items[i] # Bad
    BY DEF Parsable
<1>2. n \in Nat /\ n =< Len(items) /\ Len(items) \in Nat
    BY <1>1
<1>3. /\ SubSeq(items, 1, n) \in Seq(Items \cup {Bad})
      /\ Len(SubSeq(items, 1, n)) = n
      /\ \A i \in 1..n : SubSeq(items, 1, n)[i] = items[i]
    BY <1>2
<1>4. \A i \in 1..n : items[i] \in Items
    BY <1>1, <1>2
<1>5. SubSeq(items, 1, n) \in Seq(Items)
    BY <1>2, <1>3, <1>4
<1>6. QED
    BY <1>2, <1>5

\* A read with data: messages are passed on, then the connection closes after
\* a parse error and otherwise reads on if it is still processing.
LEMMA ProcessReadBytesStep ==
    ASSUME IInv, NEW n, NEW closes \in Nat, process_read_bytes(n, closes)
    PROVE  IInv'
<1> DEFINE posted == [i \in 1..closes |-> Handler("close", "none", <<>>)]
           queue == Tail(tasks) \o posted
           data == Head(tasks).data
<1>1. /\ IsNext("read_done") /\ Head(tasks).error = "none"
      /\ Parsable(data, n)
      /\ received' = received \o SubSeq(data, 1, n)
      /\ closeAsked' = closeAsked + closes
      /\ UNCHANGED <<taken, written, peer, inbound, asked, overlapped>>
      /\ IF n < Len(data)
         THEN close_in_thread("INVALID_MESSAGE", queue)
         ELSE /\ IF is_processing
                 THEN async_read_next(queue)
                 ELSE tasks' = queue /\ UNCHANGED reading
              /\ UNCHANGED <<state_, socket, writing, closed, thrown>>
    BY Zenon DEF process_read_bytes, ParseFails, ReadOn, IsReadDone, netVars
<1>2. received' \in Seq(Items) /\ closeAsked' \in Nat
  <2>1. data \in Seq(Items \cup {Bad})
    <3>1. Head(tasks) \in Handlers /\ Head(tasks).op = "read_done"
        BY <1>1, TakeHandler
    <3>2. QED
        BY <3>1 DEF Handlers
  <2>2. SubSeq(data, 1, n) \in Seq(Items)
      BY <1>1, <2>1, ParsedItems
  <2>3. received \in Seq(Items) /\ closeAsked \in Nat
      BY DEF IInv, TypeOK
  <2>4. received \o SubSeq(data, 1, n) \in Seq(Items)
      BY <2>2, <2>3, ConcatHandlers
  <2>5. QED
      BY <1>1, <2>3, <2>4
<1>3. /\ posted \in Seq(Handlers) /\ Len(posted) = closes
      /\ \A i \in 1..closes : posted[i].op = "close" /\ posted[i].error = "none"
  <2>1. Handler("close", "none", <<>>) \in Handlers
      BY HandlerTypes
  <2>2. /\ Handler("close", "none", <<>>).op = "close"
        /\ Handler("close", "none", <<>>).error = "none"
      BY HandlerFields
  <2>3. QED
      BY <2>1, <2>2
<1>4. /\ Tail(tasks) \in Seq(Handlers) /\ ~thrown /\ state_ # "INIT"
      /\ Len(Tail(tasks)) \in Nat
      /\ \A i \in 1..Len(Tail(tasks)) : Tail(tasks)[i].op \notin ReadOps
      /\ ~reading
  <2>1. 1 \in ReadHandlers
      BY <1>1, TakeHandler DEF ReadHandlers, ReadOps
  <2>2. \A i \in 1..Len(Tail(tasks)) :
            i + 1 \in 1..Len(tasks) /\ Tail(tasks)[i] = tasks[i + 1] /\ i + 1 # 1
      BY <1>1, TakeHandler
  <2>3. \A i \in 1..Len(Tail(tasks)) : Tail(tasks)[i].op \notin ReadOps
    <3> SUFFICES ASSUME NEW i \in 1..Len(Tail(tasks)),
                        Tail(tasks)[i].op \in ReadOps
                 PROVE  FALSE
        OBVIOUS
    <3>1. i + 1 \in ReadHandlers
        BY <2>2 DEF ReadHandlers
    <3>2. i + 1 = 1
        BY <2>1, <3>1 DEF IInv, OneReadChain
    <3>3. QED
        BY <2>2, <3>2
  <2>4. ~reading
      BY <2>1 DEF IInv, OneReadChain
  <2>5. /\ Tail(tasks) \in Seq(Handlers) /\ ~thrown /\ state_ # "INIT"
        /\ Len(Tail(tasks)) \in Nat
    <3>1. IsNext("read_done")
        BY <1>1
    <3>2. Len(tasks) - 1 \in Nat /\ Len(Tail(tasks)) = Len(tasks) - 1
        BY <3>1, TakeHandler
    <3>3. QED
        BY <3>1, <3>2, TakeHandler
  <2>6. QED
      BY <2>3, <2>4, <2>5
<1> HIDE DEF posted, data
<1>5. /\ queue \in Seq(Handlers)
      /\ \A i \in 1..Len(queue) : queue[i].op \notin ReadOps
  <2>1. /\ queue \in Seq(Handlers) /\ Len(queue) = Len(Tail(tasks)) + closes
        /\ \A i \in 1..Len(Tail(tasks)) : queue[i] = Tail(tasks)[i]
        /\ \A i \in Len(Tail(tasks)) + 1..Len(Tail(tasks)) + closes :
                queue[i] = posted[i - Len(Tail(tasks))]
      BY <1>3, <1>4, ConcatHandlers
  <2>2. "close" \notin ReadOps
      BY DEF ReadOps
  <2> HIDE DEF queue
  <2>3. ASSUME NEW i \in 1..Len(queue) PROVE queue[i].op \notin ReadOps
    <3>1. CASE i \in 1..Len(Tail(tasks))
        BY <1>4, <2>1, <3>1
    <3>2. CASE i \notin 1..Len(Tail(tasks))
      <4>1. /\ i \in Len(Tail(tasks)) + 1..Len(Tail(tasks)) + closes
            /\ i - Len(Tail(tasks)) \in 1..closes
          BY <1>4, <2>1, <3>2
      <4>2. QED
          BY <1>3, <2>1, <2>2, <4>1
    <3>3. QED
        BY <3>1, <3>2
  <2>4. QED
      BY <2>1, <2>3
<1>6. is_processing => \A i \in 1..Len(queue) : queue[i].error # "aborted"
  <2>1. /\ Len(queue) = Len(Tail(tasks)) + closes
        /\ \A i \in 1..Len(Tail(tasks)) : queue[i] = Tail(tasks)[i]
        /\ \A i \in Len(Tail(tasks)) + 1..Len(Tail(tasks)) + closes :
                queue[i] = posted[i - Len(Tail(tasks))]
      BY <1>3, <1>4, ConcatHandlers
  <2> HIDE DEF queue
  <2>2. ASSUME is_processing, NEW i \in 1..Len(queue)
        PROVE  queue[i].error # "aborted"
    <3>1. CASE i \in 1..Len(Tail(tasks))
      <4>1. i + 1 \in 1..Len(tasks) /\ queue[i] = tasks[i + 1]
          BY <1>4, <2>1, <3>1, TakeHandler
      <4>2. QED
          BY <2>2, <4>1 DEF IInv, AbortedByStop, is_processing
    <3>2. CASE i \notin 1..Len(Tail(tasks))
      <4>1. /\ i \in Len(Tail(tasks)) + 1..Len(Tail(tasks)) + closes
            /\ i - Len(Tail(tasks)) \in 1..closes
          BY <1>4, <2>1, <2>2, <3>2
      <4>2. QED
          BY <1>3, <2>1, <4>1
    <3>3. QED
        BY <3>1, <3>2
  <2>3. QED
      BY <2>2
<1> HIDE DEF queue
<1>7. \A i \in 1..Len(queue) : queue[i].op \notin {"read_next", "read_done"}
    BY <1>5 DEF ReadOps
<1>8. CASE n < Len(data)
  <2>1. close_in_thread("INVALID_MESSAGE", queue)
      BY <1>1, <1>8
  <2>2. QED
      BY <1>1, <1>2, <1>4, <1>5, <1>7, <2>1, CloseInThreadStep
<1>9. CASE ~(n < Len(data))
  <2>1. UNCHANGED <<state_, socket, writing, closed, thrown>>
      BY <1>1, <1>9
  <2>2. tasks' = queue /\ reading' = is_processing
    <3>1. CASE is_processing
      <4>1. socket = "open"
          BY <3>1 DEF IInv, ClosedSocketIsIdle, TypeOK, is_processing
      <4>2. QED
          BY <1>1, <1>9, <3>1, <4>1 DEF async_read_next
    <3>2. CASE ~is_processing
      <4>1. tasks' = queue /\ reading' = reading
          BY <1>1, <1>9, <3>2
      <4>2. reading = FALSE /\ is_processing = FALSE
          BY <1>4, <3>2 DEF IInv, TypeOK, is_processing
      <4>3. QED
          BY <4>1, <4>2
    <3>3. QED
        BY <3>1, <3>2
  <2>3. ReadHandlers' = {}
      BY <1>5, <2>2 DEF ReadHandlers
  <2>4. TypeOK'
    <3>1. reading' \in BOOLEAN
        BY <2>2 DEF is_processing
    <3>2. QED
        BY <1>1, <1>2, <1>5, <2>1, <2>2, <3>1 DEF IInv, TypeOK
  <2>5. FirstRead'
      BY <1>7, <2>2 DEF FirstRead
  <2>6. AbortedByStop'
    <3>1. CASE is_processing
      <4>1. tasks' = queue
          BY <2>2
      <4>2. QED
          BY <1>6, <3>1, <4>1 DEF AbortedByStop, is_processing
    <3>2. CASE ~is_processing
      <4>1. state_ = "STOPPED"
          BY <1>1, <3>2, TakeHandler DEF is_processing
      <4>2. QED
          BY <2>1, <4>1 DEF AbortedByStop
    <3>3. QED
        BY <3>1, <3>2
  <2>7. OneReadChain'
      BY <2>1, <2>2, <2>3 DEF OneReadChain, is_processing
  <2>8. ClosedSocketIsIdle'
      BY <2>1, <2>2 DEF IInv, ClosedSocketIsIdle, is_processing
  <2>9. QED
      BY <1>4, <2>1, <2>4, <2>5, <2>6, <2>7, <2>8 DEF IInv, NotStarted, StopReported
<1>10. QED
  BY <1>8, <1>9

-----------------------------------------------------------------------------
(* The order of what is read.                                              *)

\* A handler that may hand over messages of the peer, or start the first read.
HandsOver(h) == h.op = "read_next" \/ (h.op = "read_done" /\ h.error = "none")

\* What was read and not yet passed to on_received_ is held by the one handler
\* of a read, and continues what was passed to it.
ReadsInOrder ==
    /\ Len(received) =< taken /\ taken =< Len(inbound)
    /\ \A i \in 1..Len(received) : received[i] = inbound[i]
    /\ reading \/ state_ = "INIT" => taken = Len(received)
    /\ \A i \in 1..Len(tasks) :
        HandsOver(tasks[i]) =>
            /\ taken = Len(received) + Len(tasks[i].data)
            /\ \A k \in 1..Len(tasks[i].data) :
                    tasks[i].data[k] = inbound[Len(received) + k]

\* Handlers that a step makes ready behind the others: they neither send a
\* message nor hand one over, and one that will throw is a write to a closed
\* socket.
Fresh(h) ==
    /\ h.op # "send"
    /\ ~HandsOver(h)
    /\ h.error = "failed" =>
            socket = "closed" /\ tasks # <<>> /\ Head(tasks).op = "send"

\* The queue is what was ready but for the first d handlers, and fresh ones.
Shifted(queue, d) ==
    /\ queue \in Seq(Handlers)
    /\ \A i \in 1..Len(tasks) - d : i \in 1..Len(queue) /\ queue[i] = tasks[i + d]
    /\ \A i \in 1..Len(queue) : i + d =< Len(tasks) \/ Fresh(queue[i])

\* A handler leaves the others behind.
LEMMA TailShifted ==
    ASSUME IInv, NEW op, IsNext(op) PROVE Shifted(Tail(tasks), 1)
BY TakeHandler DEF Shifted

\* Before a step adds a handler.
LEMMA SameShifted == IInv => Shifted(tasks, 0)
BY DEF IInv, TypeOK, Shifted

\* A fresh handler is added.
LEMMA OneShifted ==
    ASSUME NEW queue, NEW d \in {0, 1}, Shifted(queue, d), tasks \in Seq(Handlers),
           NEW h \in Handlers, Fresh(h)
    PROVE  Shifted(Append(queue, h), d)
<1> DEFINE q == Append(queue, h)
<1>1. /\ q \in Seq(Handlers) /\ Len(q) = Len(queue) + 1 /\ Len(queue) \in Nat
      /\ \A i \in 1..Len(queue) : q[i] = queue[i]
      /\ q[Len(queue) + 1] = h
    BY AppendHandler DEF Shifted
<1> HIDE DEF q
<1>2. \A i \in 1..Len(tasks) - d : i \in 1..Len(q) /\ q[i] = tasks[i + d]
    BY <1>1 DEF Shifted
<1>3. ASSUME NEW i \in 1..Len(q)
      PROVE  i + d =< Len(tasks) \/ Fresh(q[i])
  <2>1. CASE i = Len(queue) + 1
      BY <1>1, <2>1
  <2>2. CASE i # Len(queue) + 1
      BY <1>1, <2>2 DEF Shifted
  <2>3. QED
      BY <2>1, <2>2
<1>4. QED
    BY <1>1, <1>2, <1>3 DEF Shifted, q

\* Several fresh handlers are added.
LEMMA MoreShifted ==
    ASSUME NEW queue, NEW d \in {0, 1}, Shifted(queue, d), tasks \in Seq(Handlers),
           NEW more \in Seq(Handlers), \A i \in 1..Len(more) : Fresh(more[i])
    PROVE  Shifted(queue \o more, d)
<1> DEFINE q == queue \o more
<1>1. /\ q \in Seq(Handlers) /\ Len(q) = Len(queue) + Len(more)
      /\ \A i \in 1..Len(queue) : q[i] = queue[i]
      /\ \A i \in Len(queue) + 1..Len(queue) + Len(more) :
            q[i] = more[i - Len(queue)]
      /\ Len(queue) \in Nat /\ Len(more) \in Nat
    BY ConcatHandlers DEF Shifted
<1> HIDE DEF q
<1>2. \A i \in 1..Len(tasks) - d : i \in 1..Len(q) /\ q[i] = tasks[i + d]
    BY <1>1 DEF Shifted
<1>3. ASSUME NEW i \in 1..Len(q)
      PROVE  i + d =< Len(tasks) \/ Fresh(q[i])
  <2>1. CASE i \in 1..Len(queue)
      BY <1>1, <2>1 DEF Shifted
  <2>2. CASE i \notin 1..Len(queue)
    <3>1. /\ i \in Len(queue) + 1..Len(queue) + Len(more)
          /\ i - Len(queue) \in 1..Len(more)
        BY <1>1, <2>2
    <3>2. QED
        BY <1>1, <3>1
  <2>3. QED
      BY <2>1, <2>2
<1>4. QED
    BY <1>1, <1>2, <1>3 DEF Shifted, q

\* An aborted read hands over nothing.
LEMMA AbortedIsFresh ==
    ASSUME IInv
    PROVE  \A i \in 1..Len(AbortedHandlers) : Fresh(AbortedHandlers[i])
<1> DEFINE r == IF reading
                THEN <<Handler("read_done", "aborted", <<>>)>> ELSE <<>>
           w == [i \in 1..Len(writing) |->
                    Handler("write_done", "aborted", <<writing[i]>>)]
<1>1. \A m : /\ Fresh(Handler("read_done", "aborted", m))
             /\ Fresh(Handler("write_done", "aborted", m))
    BY HandlerFields DEF Fresh, HandsOver
<1>2. writing \in Seq(Nat)
    BY DEF IInv, TypeOK
<1>3. /\ r \in Seq(Handlers) /\ Len(r) \in Nat
      /\ \A i \in 1..Len(r) : Fresh(r[i])
  <2>1. Handler("read_done", "aborted", <<>>) \in Handlers
      BY DEF Handler, Handlers, Errors
  <2>2. QED
      BY <1>1, <2>1
<1>4. /\ w \in Seq(Handlers) /\ Len(w) \in Nat
      /\ \A i \in 1..Len(w) : Fresh(w[i])
  <2>1. \A i \in 1..Len(writing) :
            Handler("write_done", "aborted", <<writing[i]>>) \in Handlers
      BY <1>2, HandlerTypes DEF Errors
  <2>2. QED
      BY <1>1, <1>2, <2>1
<1>5. AbortedHandlers = r \o w
    BY DEF AbortedHandlers
<1> HIDE DEF r, w
<1>6. /\ Len(r \o w) = Len(r) + Len(w)
      /\ \A i \in 1..Len(r) : (r \o w)[i] = r[i]
      /\ \A i \in Len(r) + 1..Len(r) + Len(w) : (r \o w)[i] = w[i - Len(r)]
    BY <1>3, <1>4, ConcatHandlers
<1>7. ASSUME NEW i \in 1..Len(r \o w)
      PROVE  Fresh((r \o w)[i])
  <2>1. CASE i \in 1..Len(r)
      BY <1>3, <1>6, <2>1
  <2>2. CASE i \notin 1..Len(r)
    <3>1. i \in Len(r) + 1..Len(r) + Len(w) /\ i - Len(r) \in 1..Len(w)
        BY <1>3, <1>4, <1>6, <2>2
    <3>2. QED
        BY <1>4, <1>6, <3>1
  <2>3. QED
      BY <2>1, <2>2
<1>8. QED
    BY <1>5, <1>7

\* close_in_thread() adds aborted operations only.
LEMMA CloseShifted ==
    ASSUME IInv, NEW queue, Shifted(queue, 1), NEW status,
           close_in_thread(status, queue)
    PROVE  Shifted(tasks', 1) /\ (reading' => reading)
<1>1. CASE state_ = "STOPPED"
    BY <1>1 DEF close_in_thread, CloseSocket, cancel
<1>2. CASE state_ # "STOPPED"
  <2>1. tasks' = queue \o AbortedHandlers /\ reading' = FALSE
      BY <1>2 DEF close_in_thread, CloseSocket, cancel
  <2>2. AbortedHandlers \in Seq(Handlers) /\ tasks \in Seq(Handlers)
      BY AbortedHandlersType DEF IInv, TypeOK
  <2>3. QED
      BY <2>1, <2>2, AbortedIsFresh, MoreShifted
<1>3. QED
    BY <1>1, <1>2

\* Handlers that do not call back into the owner.
LEMMA QuietShifted ==
    ASSUME IInv, QuietHandler
    PROVE  /\ Shifted(tasks', 1)
           /\ reading' => reading \/ RunReadNext
           /\ UNCHANGED <<inbound, taken, received, asked, written, peer>>
<1> USE DEF netVars, callVars
<1>1. CASE RunReadNext
  <2>1. IsNext("read_next") /\ state_ = "PROCESSING"
      BY <1>1, TakeHandler DEF RunReadNext, IInv, FirstRead
  <2>2. socket = "open"
      BY <2>1 DEF IInv, ClosedSocketIsIdle, TypeOK
  <2>3. tasks' = Tail(tasks)
      BY <1>1, <2>2 DEF RunReadNext, async_read_next
  <2>4. QED
      BY <1>1, <2>1, <2>3, TailShifted DEF RunReadNext
<1>2. CASE RunClose
    BY <1>2, TailShifted, CloseShifted DEF RunClose
<1>3. CASE async_send_in_thread
  <2> DEFINE message == Head(Head(tasks).data)
             h == Handler("write_done", "failed", <<message>>)
  <2>1. Shifted(Tail(tasks), 1) /\ tasks \in Seq(Handlers)
      BY <1>3, TailShifted DEF async_send_in_thread, IInv, TypeOK
  <2>2. h \in Handlers /\ (socket # "open" => Fresh(h))
    <3>1. Head(tasks).data \in Seq(Nat) /\ Head(tasks).data # <<>>
        BY <1>3, TakeHandler DEF async_send_in_thread, Handlers
    <3>2. message \in Nat
        BY <3>1, TailHandler
    <3>3. h \in Handlers /\ h.op = "write_done" /\ h.error = "failed"
        BY <3>2, HandlerTypes, HandlerFields DEF Errors
    <3>4. tasks # <<>> /\ Head(tasks).op = "send"
        BY <1>3 DEF async_send_in_thread, IsNext
    <3>5. socket # "open" => socket = "closed"
        BY DEF IInv, TypeOK
    <3> HIDE DEF h
    <3>6. QED
        BY <3>3, <3>4, <3>5 DEF Fresh, HandsOver
  <2>3. IF socket = "open" THEN tasks' = Tail(tasks)
                           ELSE tasks' = Append(Tail(tasks), h)
      BY <1>3 DEF async_send_in_thread
  <2> HIDE DEF h
  <2>4. Shifted(tasks', 1)
      BY <2>1, <2>2, <2>3, OneShifted
  <2>5. QED
      BY <1>3, <2>4 DEF async_send_in_thread
<1>4. CASE \/ ReadAborted \/ ReadPeerGone \/ ReadFailed
           \/ WriteAborted \/ WritePeerGone \/ WriteFailed
  <2>1. /\ IsNext("read_done") \/ IsNext("write_done")
        /\ Ignore \/ ClosedByPeer \/ Throw
      BY <1>4, Zenon DEF ReadAborted, ReadPeerGone, ReadFailed, WriteAborted,
         WritePeerGone, WriteFailed, IsReadDone, IsWriteDone
  <2>2. Shifted(Tail(tasks), 1)
      BY <2>1, TailShifted
  <2>3. /\ tasks' = Tail(tasks) /\ UNCHANGED reading
        /\ UNCHANGED <<inbound, taken, received, asked, written, peer>>
      BY <2>1 DEF Ignore, ClosedByPeer, Throw
  <2>4. QED
      BY <2>2, <2>3
<1>5. QED
    BY <1>1, <1>2, <1>3, <1>4 DEF QuietHandler

\* They run after start() only.
LEMMA QuietStarted ==
    ASSUME IInv, QuietHandler
    PROVE  state_ # "INIT" /\ state_' \in {state_, "STOPPED"}
<1>1. PICK op : IsNext(op)
    BY Zenon DEF QuietHandler, RunReadNext, RunClose, async_send_in_thread,
       ReadAborted, ReadPeerGone, ReadFailed, WriteAborted, WritePeerGone,
       WriteFailed, IsReadDone, IsWriteDone
<1>2. state_ # "INIT"
    BY <1>1, TakeHandler
<1>3. state_' \in {state_, "STOPPED"}
    BY DEF QuietHandler, RunReadNext, RunClose, async_send_in_thread,
       ReadAborted, ReadPeerGone, ReadFailed, WriteAborted, WritePeerGone,
       WriteFailed, Ignore, ClosedByPeer, Throw, close_in_thread, CloseSocket
<1>4. QED
    BY <1>2, <1>3

\* The handler of a read, which may start the next one.
LEMMA ProcessShifted ==
    ASSUME IInv, NEW n, NEW closes \in Nat, process_read_bytes(n, closes)
    PROVE  /\ Shifted(tasks', 1)
           /\ reading' => n = Len(Head(tasks).data) /\ ~reading
<1> DEFINE posted == [i \in 1..closes |-> Handler("close", "none", <<>>)]
           queue == Tail(tasks) \o posted
           data == Head(tasks).data
<1>1. /\ IsNext("read_done") /\ Head(tasks) \in Handlers
      /\ Parsable(data, n)
      /\ n < Len(data) => close_in_thread("INVALID_MESSAGE", queue)
      /\ ~(n < Len(data)) => IF is_processing
                             THEN async_read_next(queue)
                             ELSE tasks' = queue /\ UNCHANGED reading
  <2>1. IsNext("read_done")
      BY DEF process_read_bytes, IsReadDone
  <2>2. Head(tasks) \in Handlers
      BY <2>1, TakeHandler
  <2>3. QED
      BY <2>1, <2>2, Zenon DEF process_read_bytes, ParseFails, ReadOn
<1>2. /\ posted \in Seq(Handlers) /\ tasks \in Seq(Handlers)
      /\ \A i \in 1..Len(posted) : Fresh(posted[i])
  <2>1. /\ Handler("close", "none", <<>>) \in Handlers
        /\ Fresh(Handler("close", "none", <<>>))
      BY HandlerTypes, HandlerFields DEF Fresh, HandsOver
  <2>2. QED
      BY <2>1 DEF IInv, TypeOK
<1> HIDE DEF posted
<1>3. Shifted(queue, 1)
    BY <1>1, <1>2, TailShifted, MoreShifted
<1> HIDE DEF queue
<1>4. ~reading
    BY <1>1, TakeHandler DEF IInv, OneReadChain, ReadHandlers, ReadOps
<1>5. n \in Nat /\ Len(data) \in Nat /\ n =< Len(data)
  <2>1. data \in Seq(Items \cup {Bad})
      BY <1>1, TakeHandler DEF Handlers
  <2>2. QED
      BY <1>1, <2>1, ParsedItems
<1>6. CASE n < Len(data)
    BY <1>1, <1>3, <1>4, <1>6, CloseShifted
<1>7. CASE ~(n < Len(data))
  <2>1. is_processing => socket = "open"
      BY DEF IInv, ClosedSocketIsIdle, TypeOK, is_processing
  <2>2. tasks' = queue
      BY <1>1, <1>7, <2>1 DEF async_read_next
  <2>3. n = Len(data)
      BY <1>5, <1>7
  <2>4. QED
      BY <1>3, <1>4, <2>2, <2>3
<1>8. QED
    BY <1>6, <1>7

\* A step that reads nothing and passes nothing on.
LEMMA ReadsKept ==
    ASSUME IInv, ReadsInOrder, UNCHANGED <<inbound, taken, received>>,
           reading' \/ state_' = "INIT" => taken = Len(received),
           \A i \in 1..Len(tasks') : HandsOver(tasks'[i]) =>
                \/ \E j \in 1..Len(tasks) : tasks'[i] = tasks[j]
                \/ tasks'[i].data = <<>> /\ taken = Len(received)
    PROVE  ReadsInOrder'
<1>1. Len(received) \in Nat
    BY DEF IInv, TypeOK
<1>2. ASSUME NEW i \in 1..Len(tasks'), HandsOver(tasks'[i])
      PROVE  /\ taken = Len(received) + Len(tasks'[i].data)
             /\ \A k \in 1..Len(tasks'[i].data) :
                    tasks'[i].data[k] = inbound[Len(received) + k]
  <2>1. CASE \E j \in 1..Len(tasks) : tasks'[i] = tasks[j]
    <3>1. PICK j \in 1..Len(tasks) : tasks'[i] = tasks[j]
        BY <2>1
    <3>2. HandsOver(tasks[j])
        BY <1>2, <3>1
    <3>3. QED
        BY <3>1, <3>2 DEF ReadsInOrder
  <2>2. CASE tasks'[i].data = <<>> /\ taken = Len(received)
    <3>1. Len(tasks'[i].data) = 0
        BY <2>2
    <3>2. QED
        BY <1>1, <2>2, <3>1
  <2>3. QED
      BY <1>2, <2>1, <2>2
<1>3. QED
    BY <1>2 DEF ReadsInOrder, HandsOver

\* So it is if the step takes handlers and adds fresh ones.
LEMMA ShiftedReads ==
    ASSUME IInv, NEW d \in {0, 1}, Shifted(tasks', d)
    PROVE  \A i \in 1..Len(tasks') : HandsOver(tasks'[i]) =>
                /\ i + d \in 1..Len(tasks)
                /\ tasks'[i] = tasks[i + d]
<1> SUFFICES ASSUME NEW i \in 1..Len(tasks'), HandsOver(tasks'[i])
             PROVE  i + d \in 1..Len(tasks) /\ tasks'[i] = tasks[i + d]
    OBVIOUS
<1>1. i + d =< Len(tasks) /\ Len(tasks) \in Nat
    BY DEF Shifted, Fresh, IInv, TypeOK
<1>2. i + d \in 1..Len(tasks) /\ i \in 1..Len(tasks) - d
    BY <1>1
<1>3. QED
    BY <1>2 DEF Shifted

\* start() posts the first read.
LEMMA StartReads == IInv /\ ReadsInOrder /\ start => ReadsInOrder'
<1> SUFFICES ASSUME IInv, ReadsInOrder, start PROVE ReadsInOrder'
    OBVIOUS
<1> DEFINE h == Handler("read_next", "none", <<>>)
<1>1. tasks = <<>> /\ ~reading
    BY DEF IInv, NotStarted, start
<1>2. h \in Handlers /\ h.data = <<>> /\ tasks' = Append(tasks, h)
    BY HandlerTypes, HandlerFields DEF start
<1> HIDE DEF h
<1>3. Len(tasks') = 1 /\ tasks'[1] = h
  <2>1. tasks \in Seq(Handlers) /\ Len(tasks) = 0
      BY <1>1 DEF IInv, TypeOK
  <2>2. QED
      BY <1>2, <2>1, AppendHandler
<1>4. /\ UNCHANGED <<inbound, taken, received, reading>>
      /\ state_' # "INIT" /\ taken = Len(received)
    BY DEF start, netVars, ReadsInOrder
<1>5. QED
    BY <1>1, <1>2, <1>3, <1>4, ReadsKept

\* async_send() and async_close() read nothing.
LEMMA OwnerReads ==
    ASSUME IInv, ReadsInOrder, NEW h \in Handlers, ~HandsOver(h),
           tasks' \in {tasks, Append(tasks, h)},
           UNCHANGED <<state_, inbound, taken, received, reading>>
    PROVE  ReadsInOrder'
<1>1. tasks \in Seq(Handlers) /\ Len(tasks) \in Nat
    BY DEF IInv, TypeOK
<1>2. /\ Len(Append(tasks, h)) = Len(tasks) + 1
      /\ \A i \in 1..Len(tasks) : Append(tasks, h)[i] = tasks[i]
      /\ Append(tasks, h)[Len(tasks) + 1] = h
    BY <1>1, AppendHandler
<1>3. \A i \in 1..Len(tasks') : HandsOver(tasks'[i]) =>
            i \in 1..Len(tasks) /\ tasks'[i] = tasks[i]
  <2>1. CASE tasks' = tasks
      BY <2>1
  <2>2. CASE tasks' = Append(tasks, h)
    <3> SUFFICES ASSUME NEW i \in 1..Len(tasks'), HandsOver(tasks'[i])
                 PROVE  i \in 1..Len(tasks) /\ tasks'[i] = tasks[i]
        OBVIOUS
    <3>1. i # Len(tasks) + 1
        BY <1>2, <2>2
    <3>2. QED
        BY <1>1, <1>2, <2>2, <3>1
  <2>3. QED
      BY <2>1, <2>2
<1>4. QED
    BY <1>3, ReadsKept DEF ReadsInOrder

\* Handlers that do not call back into the owner.
LEMMA QuietReads ==
    ASSUME IInv, ReadsInOrder, QuietHandler PROVE ReadsInOrder'
<1>1. /\ \A i \in 1..Len(tasks') : HandsOver(tasks'[i]) =>
                \E j \in 1..Len(tasks) : tasks'[i] = tasks[j]
      /\ reading' => reading \/ RunReadNext
      /\ UNCHANGED <<inbound, taken, received>> /\ state_' # "INIT"
    BY QuietShifted, QuietStarted, ShiftedReads
<1>2. RunReadNext => taken = Len(received)
  <2> SUFFICES ASSUME RunReadNext PROVE taken = Len(received)
      OBVIOUS
  <2>1. /\ 1 \in 1..Len(tasks) /\ tasks[1].op = "read_next"
        /\ tasks[1] \in Handlers
      BY TakeHandler DEF RunReadNext
  <2>2. tasks[1].data = <<>> /\ HandsOver(tasks[1])
      BY <2>1 DEF Handlers, HandsOver
  <2>3. Len(received) \in Nat /\ Len(tasks[1].data) = 0
      BY <2>2 DEF IInv, TypeOK
  <2>4. taken = Len(received) + Len(tasks[1].data)
      BY <2>1, <2>2 DEF ReadsInOrder
  <2>5. QED
      BY <2>3, <2>4
<1>3. QED
    BY <1>1, <1>2, ReadsKept DEF ReadsInOrder

\* The handler of a read passes on what was read, or the part of it before
\* bytes that are no message.
LEMMA ProcessReads ==
    ASSUME IInv, ReadsInOrder, NEW n, NEW closes \in Nat,
           process_read_bytes(n, closes)
    PROVE  ReadsInOrder'
<1> DEFINE data == Head(tasks).data
<1>1. /\ IsNext("read_done") /\ Head(tasks).error = "none" /\ Parsable(data, n)
      /\ received' = received \o SubSeq(data, 1, n)
      /\ UNCHANGED <<inbound, taken>>
    BY Zenon DEF process_read_bytes, IsReadDone, netVars
<1>2. /\ data \in Seq(Items \cup {Bad})
      /\ 1 \in 1..Len(tasks) /\ tasks[1] = Head(tasks) /\ HandsOver(tasks[1])
      /\ state_ # "INIT"
  <2>1. /\ 1 \in 1..Len(tasks) /\ tasks[1] = Head(tasks) /\ state_ # "INIT"
        /\ tasks[1] \in Handlers /\ tasks[1].op = "read_done"
      BY <1>1, TakeHandler
  <2>2. tasks[1].data \in Seq(Items \cup {Bad})
      BY <2>1 DEF Handlers
  <2>3. QED
      BY <1>1, <2>1, <2>2 DEF HandsOver
<1>3. /\ taken = Len(received) + Len(data)
      /\ \A k \in 1..Len(data) : data[k] = inbound[Len(received) + k]
    BY <1>2 DEF ReadsInOrder
<1> HIDE DEF data
<1>4. n \in Nat /\ n =< Len(data) /\ SubSeq(data, 1, n) \in Seq(Items)
    BY <1>1, <1>2, ParsedItems
<1>5. /\ Len(SubSeq(data, 1, n)) = n
      /\ \A k \in 1..n : SubSeq(data, 1, n)[k] = data[k]
    BY <1>2, <1>4
<1>6. /\ Len(received) \in Nat /\ Len(data) \in Nat
      /\ Len(received') = Len(received) + n
      /\ \A i \in 1..Len(received) : received'[i] = received[i]
      /\ \A i \in Len(received) + 1..Len(received) + n :
            received'[i] = SubSeq(data, 1, n)[i - Len(received)]
  <2>1. received \in Seq(Items) /\ Len(received) \in Nat /\ Len(data) \in Nat
      BY <1>2 DEF IInv, TypeOK
  <2>2. /\ Len(received \o SubSeq(data, 1, n)) = Len(received) + n
        /\ \A i \in 1..Len(received) :
              (received \o SubSeq(data, 1, n))[i] = received[i]
        /\ \A i \in Len(received) + 1..Len(received) + n :
              (received \o SubSeq(data, 1, n))[i]
                  = SubSeq(data, 1, n)[i - Len(received)]
      BY <1>4, <1>5, <2>1, ConcatHandlers
  <2>3. QED
      BY <1>1, <2>1, <2>2
<1>7. Len(received') =< taken
    BY <1>3, <1>4, <1>6
<1>8. ASSUME NEW i \in 1..Len(received')
      PROVE  received'[i] = inbound[i]
  <2>1. CASE i \in 1..Len(received)
      BY <1>6, <2>1 DEF ReadsInOrder
  <2>2. CASE i \notin 1..Len(received)
    <3>1. PICK k \in 1..n : i = Len(received) + k
      <4>1. /\ i - Len(received) \in 1..n
            /\ i = Len(received) + (i - Len(received))
          BY <1>4, <1>6, <2>2
      <4>2. QED
          BY <4>1
    <3>2. /\ i \in Len(received) + 1..Len(received) + n
          /\ i - Len(received) = k /\ k \in 1..Len(data)
        BY <1>4, <1>6, <3>1
    <3>3. received'[i] = data[k]
        BY <1>5, <1>6, <3>1, <3>2
    <3>4. QED
        BY <1>3, <3>1, <3>2, <3>3
  <2>3. QED
      BY <2>1, <2>2
<1>9. reading' => taken = Len(received')
  <2>1. reading' => n = Len(data)
      BY ProcessShifted DEF data
  <2>2. QED
      BY <1>3, <1>6, <2>1
<1>10. ASSUME NEW i \in 1..Len(tasks'), HandsOver(tasks'[i])
       PROVE  FALSE
  <2>1. i + 1 \in 1..Len(tasks) /\ HandsOver(tasks[i + 1])
      BY <1>10, ProcessShifted, ShiftedReads
  <2>2. i + 1 \in ReadHandlers /\ 1 \in ReadHandlers
      BY <1>2, <2>1 DEF ReadHandlers, HandsOver, ReadOps
  <2>3. i + 1 = 1
      BY <2>2 DEF IInv, OneReadChain
  <2>4. QED
      BY <2>3
<1>11. state_' # "INIT"
    BY <1>2 DEF process_read_bytes, ParseFails, ReadOn, close_in_thread,
       CloseSocket
<1>12. QED
    BY <1>1, <1>7, <1>8, <1>9, <1>10, <1>11 DEF ReadsInOrder

\* A read takes what follows.
LEMMA NetworkReads ==
    ASSUME IInv, ReadsInOrder, Network PROVE ReadsInOrder'
<1> USE DEF netVars, callVars
<1>1. /\ tasks \in Seq(Handlers) /\ Len(tasks) \in Nat
      /\ inbound \in Seq(Items \cup {Bad}) /\ Len(inbound) \in Nat
      /\ taken \in Nat /\ Len(received) \in Nat
      /\ Len(received) =< taken /\ taken =< Len(inbound)
    BY DEF IInv, TypeOK, ReadsInOrder
<1>2. ASSUME NEW item \in Items \cup {Bad}, PeerSend(item)
      PROVE  ReadsInOrder'
  <2>1. /\ Len(inbound') = Len(inbound) + 1
        /\ \A i \in 1..Len(inbound) : inbound'[i] = inbound[i]
      BY <1>1, <1>2, AppendHandler DEF PeerSend
  <2>2. /\ UNCHANGED <<taken, received, reading, tasks, state_>>
        /\ \A i \in 1..taken : inbound'[i] = inbound[i]
        /\ taken =< Len(inbound')
      BY <1>1, <1>2, <2>1 DEF PeerSend
  <2>3. ASSUME NEW i \in 1..Len(tasks), HandsOver(tasks[i])
        PROVE  /\ taken = Len(received) + Len(tasks[i].data)
               /\ \A k \in 1..Len(tasks[i].data) :
                      tasks[i].data[k] = inbound'[Len(received) + k]
    <3>1. /\ taken = Len(received) + Len(tasks[i].data)
          /\ \A k \in 1..Len(tasks[i].data) :
                    tasks[i].data[k] = inbound[Len(received) + k]
        BY <2>3 DEF ReadsInOrder
    <3>2. Len(tasks[i].data) \in Nat
        BY <1>1 DEF Handlers
    <3>3. \A k \in 1..Len(tasks[i].data) : Len(received) + k \in 1..taken
        BY <1>1, <3>1, <3>2
    <3>4. QED
        BY <2>2, <3>1, <3>3
  <2>4. QED
      BY <1>1, <2>2, <2>3 DEF ReadsInOrder
<1>3. ASSUME NEW fault \in Faults, PeerFault(fault)
      PROVE  ReadsInOrder'
    BY <1>3 DEF PeerFault, ReadsInOrder
<1>4. CASE WriteCompletes
  <2>1. PICK h \in Handlers : tasks' = Append(tasks, h) /\ h.op = "write_done"
    <3>1. writing # <<>> /\ Head(writing) \in Nat
        BY <1>4, TailHandler DEF WriteCompletes, IInv, TypeOK
    <3>2. QED
        BY <1>4, <3>1, HandlerTypes, HandlerFields DEF WriteCompletes, Errors
  <2>2. QED
      BY <1>4, <2>1, OwnerReads DEF WriteCompletes, HandsOver
<1>5. CASE ReadCompletes
  <2>1. /\ reading /\ reading' = FALSE /\ taken = Len(received)
        /\ UNCHANGED <<state_, received, inbound>>
        /\ \A i \in 1..Len(tasks) : ~HandsOver(tasks[i])
      BY <1>5 DEF ReadCompletes, ReadsInOrder, IInv, OneReadChain, ReadHandlers,
         ReadOps, HandsOver
  <2>2. CASE UNCHANGED taken
    <3>1. PICK h : /\ tasks' = Append(tasks, h)
                   /\ h \in Handlers
                   /\ ~HandsOver(h) \/ h.data = <<>>
      <4>1. <<>> \in Seq(Items \cup {Bad}) /\ SubSeq(inbound, taken + 1, taken) = <<>>
          BY <1>1
      <4>2. \A e \in Errors :
                /\ Handler("read_done", e, <<>>) \in Handlers
                /\ Handler("read_done", e, <<>>).data = <<>>
        <5>1. \A e \in Errors : Handler("read_done", e, <<>>) \in Handlers
            BY <4>1, HandlerTypes, Zenon
        <5>2. \A e \in Errors : Handler("read_done", e, <<>>).data = <<>>
            BY HandlerFields
        <5>3. QED
            BY <5>1, <5>2
      <4>3. \E e \in Errors : tasks' = Append(tasks, Handler("read_done", e, <<>>))
        <5>1. {"none", "gone", "failed"} \subseteq Errors
            BY DEF Errors
        <5>2. CASE \E n \in taken..Len(inbound) :
                    /\ taken' = n
                    /\ tasks' = Append(tasks, Handler("read_done", "none",
                                                  SubSeq(inbound, taken + 1, n)))
            BY <2>2, <4>1, <5>1, <5>2
        <5>3. CASE \/ tasks' = Append(tasks, Handler("read_done", "gone", <<>>))
                   \/ tasks' = Append(tasks, Handler("read_done", "failed", <<>>))
            BY <5>1, <5>3
        <5>4. QED
            BY <1>5, <5>2, <5>3, Zenon DEF ReadCompletes
      <4>4. QED
          BY <4>2, <4>3
    <3>2. /\ Len(tasks') = Len(tasks) + 1
          /\ \A i \in 1..Len(tasks) : tasks'[i] = tasks[i]
          /\ tasks'[Len(tasks) + 1] = h
        BY <1>1, <3>1, AppendHandler
    <3>3. \A i \in 1..Len(tasks') : HandsOver(tasks'[i]) => tasks'[i].data = <<>>
      <4> SUFFICES ASSUME NEW i \in 1..Len(tasks'), HandsOver(tasks'[i])
                   PROVE  tasks'[i].data = <<>>
          OBVIOUS
      <4>1. i = Len(tasks) + 1
          BY <1>1, <2>1, <3>2
      <4>2. QED
          BY <3>1, <3>2, <4>1
    <3>4. QED
        BY <2>1, <2>2, <3>3, ReadsKept
  <2>3. ASSUME NEW m \in taken..Len(inbound), taken' = m,
               tasks' = Append(tasks, Handler("read_done", "none",
                                              SubSeq(inbound, taken + 1, m)))
        PROVE  ReadsInOrder'
    <3> DEFINE data == SubSeq(inbound, taken + 1, m)
               h == Handler("read_done", "none", data)
    <3>1. /\ data \in Seq(Items \cup {Bad}) /\ Len(data) = m - taken
          /\ \A k \in 1..m - taken : data[k] = inbound[taken + k]
          /\ m \in Nat
        BY <1>1
    <3>2. tasks' = Append(tasks, h)
        BY <2>3
    <3> HIDE DEF data
    <3>3. h \in Handlers /\ h.data = data
      <4>1. "none" \in Errors
          BY DEF Errors
      <4>2. QED
          BY <3>1, <4>1, HandlerTypes, HandlerFields
    <3> HIDE DEF h
    <3>4. /\ Len(tasks') = Len(tasks) + 1
          /\ \A i \in 1..Len(tasks) : tasks'[i] = tasks[i]
          /\ tasks'[Len(tasks) + 1] = h
        BY <1>1, <3>3, <3>2, AppendHandler
    <3>5. \A i \in 1..Len(tasks') : HandsOver(tasks'[i]) => tasks'[i].data = data
      <4> SUFFICES ASSUME NEW i \in 1..Len(tasks'), HandsOver(tasks'[i])
                   PROVE  tasks'[i].data = data
          OBVIOUS
      <4>1. i = Len(tasks) + 1
          BY <1>1, <2>1, <3>4
      <4>2. QED
          BY <3>3, <3>4, <4>1
    <3>6. /\ taken' = Len(received) + Len(data)
          /\ \A k \in 1..Len(data) : data[k] = inbound[Len(received) + k]
          /\ Len(received) =< taken' /\ taken' =< Len(inbound)
        BY <1>1, <2>1, <2>3, <3>1
    <3>7. state_ # "INIT"
        BY <2>1 DEF IInv, NotStarted
    <3>8. QED
        BY <2>1, <3>5, <3>6, <3>7 DEF ReadsInOrder
  <2>4. QED
      BY <1>5, <2>2, <2>3, Zenon DEF ReadCompletes
<1>6. CASE WritePart
    BY <1>6, WritePartType DEF ReadsInOrder
<1>7. QED
    BY <1>2, <1>3, <1>4, <1>5, <1>6 DEF Network

\* The calls of the owner.
LEMMA AsyncSendReads ==
    ASSUME IInv, ReadsInOrder, NEW m \in Nat, async_send(m)
    PROVE  ReadsInOrder'
<1> DEFINE h == Handler("send", "none", <<m>>)
<1>1. h \in Handlers /\ ~HandsOver(h)
    BY HandlerTypes, HandlerFields DEF HandsOver
<1>2. /\ tasks' \in {tasks, Append(tasks, h)}
      /\ UNCHANGED <<state_, inbound, taken, received, reading>>
    BY DEF async_send, netVars
<1> HIDE DEF h
<1>3. QED
    BY <1>1, <1>2, OwnerReads

LEMMA AsyncCloseReads == IInv /\ ReadsInOrder /\ async_close => ReadsInOrder'
<1> SUFFICES ASSUME IInv, ReadsInOrder, async_close PROVE ReadsInOrder'
    OBVIOUS
<1> DEFINE h == Handler("close", "none", <<>>)
<1>1. h \in Handlers /\ ~HandsOver(h)
    BY HandlerTypes, HandlerFields DEF HandsOver
<1>2. /\ tasks' \in {tasks, Append(tasks, h)}
      /\ UNCHANGED <<state_, inbound, taken, received, reading>>
    BY DEF async_close, netVars
<1> HIDE DEF h
<1>3. QED
    BY <1>1, <1>2, OwnerReads

\* The end of a write reads nothing.
LEMMA OnSentReads == IInv /\ ReadsInOrder /\ on_sent => ReadsInOrder'
<1> SUFFICES ASSUME IInv, ReadsInOrder, on_sent PROVE ReadsInOrder'
    OBVIOUS
<1>1. Shifted(tasks', 1) /\ state_ # "INIT"
  <2>1. IsNext("write_done") /\ tasks' = Tail(tasks)
      BY DEF on_sent, IsWriteDone, Ignore
  <2>2. QED
      BY <2>1, TakeHandler, TailShifted
<1>2. UNCHANGED <<state_, inbound, taken, received, reading>>
    BY DEF on_sent, Ignore, netVars
<1>3. \A i \in 1..Len(tasks') : HandsOver(tasks'[i]) =>
            \E j \in 1..Len(tasks) : tasks'[i] = tasks[j]
    BY <1>1, ShiftedReads
<1>4. QED
    BY <1>2, <1>3, ReadsKept DEF ReadsInOrder

\* Before anything is read.
LEMMA InitReads == Init => ReadsInOrder
<1> SUFFICES ASSUME Init PROVE ReadsInOrder
    OBVIOUS
<1>1. Len(received) = 0 /\ Len(inbound) = 0 /\ Len(tasks) = 0 /\ taken = 0
    BY DEF Init
<1>2. QED
    BY <1>1 DEF ReadsInOrder

-----------------------------------------------------------------------------
(* The theorems.                                                           *)

\* Handlers that do not call back into the owner.
LEMMA QuietHandlerStep == IInv /\ QuietHandler => IInv'
<1> SUFFICES ASSUME IInv, QuietHandler PROVE IInv'
    OBVIOUS
<1>1. CASE RunReadNext
    BY <1>1, RunReadNextStep
<1>2. CASE RunClose
    BY <1>2, RunCloseStep
<1>3. CASE async_send_in_thread
    BY <1>3, AsyncSendInThreadStep
<1>4. CASE ReadAborted
  <2>1. IsNext("read_done") /\ Ignore /\ Head(tasks).error = "aborted"
      BY <1>4 DEF ReadAborted, IsReadDone
  <2>2. state_ = "STOPPED"
      BY <2>1, TakeHandler DEF IInv, AbortedByStop
  <2>3. QED
      BY <2>1, <2>2, IgnoreStep
<1>5. CASE ReadPeerGone
    BY <1>5, ClosedByPeerStep DEF ReadPeerGone, IsReadDone
<1>6. CASE ReadFailed
    BY <1>6, ThrowStep DEF ReadFailed, IsReadDone
<1>7. CASE WriteAborted
    BY <1>7, IgnoreStep DEF WriteAborted, IsWriteDone, ReadOps
<1>8. CASE WritePeerGone
    BY <1>8, ClosedByPeerStep DEF WritePeerGone, IsWriteDone
<1>9. CASE WriteFailed
    BY <1>9, ThrowStep DEF WriteFailed, IsWriteDone
<1>10. QED
    BY <1>1, <1>2, <1>3, <1>4, <1>5, <1>6, <1>7, <1>8, <1>9 DEF QuietHandler

\* Steps of the network.
LEMMA NetworkStep == IInv /\ Network => IInv'
BY PeerSendStep, PeerFaultStep, ReadCompletesStep, WriteCompletesStep,
   WritePartStep
DEF Network

\* Every step of the connection preserves the invariant.
LEMMA NextIInv == IInv /\ [Next]_vars => IInv'
<1> SUFFICES ASSUME IInv, [Next]_vars PROVE IInv'
    OBVIOUS
<1>1. CASE start
    BY <1>1, StartStep
<1>2. CASE async_send(Len(asked) + 1)
  <2>1. Len(asked) + 1 \in Nat
      BY DEF IInv, TypeOK
  <2>2. QED
      BY <1>2, <2>1, AsyncSendStep
<1>3. CASE async_close
    BY <1>3, AsyncCloseStep
<1>4. CASE QuietHandler
    BY <1>4, QuietHandlerStep
<1>5. CASE \E n \in 0..Len(inbound) : process_read_bytes(n, 0)
    BY <1>5, ProcessReadBytesStep
<1>6. CASE on_sent
    BY <1>6, IgnoreStep DEF on_sent, IsWriteDone, ReadOps
<1>7. CASE Network
    BY <1>7, NetworkStep
<1>8. CASE UNCHANGED vars
    BY <1>8 DEF vars, IInv, TypeOK, NotStarted, FirstRead, AbortedByStop,
       OneReadChain, ReadHandlers, ClosedSocketIsIdle, StopReported,
       is_processing
<1>9. QED
    BY <1>1, <1>2, <1>3, <1>4, <1>5, <1>6, <1>7, <1>8 DEF Next, Owner, Thread

\* The inductive invariant holds in every reachable state.
LEMMA SpecIInv == Spec => []IInv
BY InitIInv, NextIInv, PTL DEF Spec

\* Type correctness of a connection, for any number of messages, calls of
\* async_send() and async_close(), and faults of the peer.
THEOREM TypeCorrect == Spec => []TypeOK
<1>1. IInv => TypeOK
    BY DEF IInv
<1>2. QED
    BY <1>1, SpecIInv, PTL

\* A connection never has two reads, and has one while it is processing.
THEOREM ReadChain == Spec => []OneReadChain
<1>1. IInv => OneReadChain
    BY DEF IInv
<1>2. QED
    BY <1>1, SpecIInv, PTL

\* on_received_ gets the messages of the peer in order, without gaps and without
\* repetitions (process_read_bytes()), however they are cut into reads.
THEOREM ReadsKeepOrder == Spec => []ReceivedInOrder
<1>1. IInv /\ ReadsInOrder /\ [Next]_vars => ReadsInOrder'
  <2> SUFFICES ASSUME IInv, ReadsInOrder, [Next]_vars PROVE ReadsInOrder'
      OBVIOUS
  <2>1. CASE start
      BY <2>1, StartReads
  <2>2. CASE async_send(Len(asked) + 1)
    <3>1. Len(asked) + 1 \in Nat
        BY DEF IInv, TypeOK
    <3>2. QED
        BY <2>2, <3>1, AsyncSendReads
  <2>3. CASE async_close
      BY <2>3, AsyncCloseReads
  <2>4. CASE QuietHandler
      BY <2>4, QuietReads
  <2>5. CASE \E n \in 0..Len(inbound) : process_read_bytes(n, 0)
      BY <2>5, ProcessReads
  <2>6. CASE on_sent
      BY <2>6, OnSentReads
  <2>7. CASE Network
      BY <2>7, NetworkReads
  <2>8. CASE UNCHANGED vars
      BY <2>8 DEF vars, ReadsInOrder
  <2>9. QED
      BY <2>1, <2>2, <2>3, <2>4, <2>5, <2>6, <2>7, <2>8 DEF Next, Owner, Thread
<1>2. IInv /\ ReadsInOrder => ReceivedInOrder
  <2> SUFFICES ASSUME IInv, ReadsInOrder PROVE ReceivedInOrder
      OBVIOUS
  <2>1. Len(received) \in Nat /\ taken \in Nat /\ Len(inbound) \in Nat
      BY DEF IInv, TypeOK
  <2>2. QED
      BY <2>1 DEF ReadsInOrder, ReceivedInOrder
<1>3. QED
    BY InitReads, <1>1, <1>2, SpecIInv, PTL DEF Spec

\* on_closed_ has been called exactly when the connection has stopped.
THEOREM StopsAreReported == Spec => []StopReported
<1>1. IInv => StopReported
    BY DEF IInv
<1>2. QED
    BY <1>1, SpecIInv, PTL

\* A connection that has stopped stays stopped and starts no further read.
THEOREM StopsForGood == Spec => StopIsFinal
<1> DEFINE Final == state_ = "STOPPED" =>
                        state_' = "STOPPED" /\ (reading' => reading)
<1>1. IInv /\ [Next]_vars => [Final]_vars
  <2> SUFFICES ASSUME IInv, Next, state_ = "STOPPED"
               PROVE  state_' = "STOPPED" /\ (reading' => reading)
      OBVIOUS
  <2>1. CASE Owner
      BY <2>1 DEF Owner, start, async_send, async_close
  <2>2. CASE RunReadNext
      BY <2>2, TakeHandler DEF RunReadNext, IInv, FirstRead
  <2>3. CASE RunClose
      BY <2>3 DEF RunClose, close_in_thread, CloseSocket, cancel
  <2>4. CASE async_send_in_thread
      BY <2>4 DEF async_send_in_thread
  <2>5. CASE ReadAborted \/ WriteAborted \/ on_sent
      BY <2>5 DEF ReadAborted, WriteAborted, on_sent, Ignore
  <2>6. CASE ReadPeerGone \/ WritePeerGone
      BY <2>6 DEF ReadPeerGone, WritePeerGone, ClosedByPeer
  <2>7. CASE ReadFailed \/ WriteFailed
      BY <2>7 DEF ReadFailed, WriteFailed, Throw
  <2>8. CASE \E n \in 0..Len(inbound) : process_read_bytes(n, 0)
    <3>1. state_' = state_ /\ reading' = reading
        BY <2>8 DEF process_read_bytes, ParseFails, ReadOn, close_in_thread,
           CloseSocket,
           is_processing
    <3>2. QED
        BY <3>1
  <2>9. CASE Network
      BY <2>9 DEF Network, PeerSend, PeerFault, ReadCompletes, WriteCompletes,
         WritePart
  <2>10. QED
      BY <2>1, <2>2, <2>3, <2>4, <2>5, <2>6, <2>7, <2>8, <2>9
      DEF Next, Thread, QuietHandler
<1>2. Spec => [][Final]_vars
    BY <1>1, SpecIInv, PTL DEF Spec
<1>3. QED
    BY <1>2 DEF StopIsFinal

-----------------------------------------------------------------------------
(* Writes.  An owner that calls async_send() only when no write is pending *)
(* never has two: lemmas by which the owners of a connection prove that    *)
(* their writes do not overlap, stay in order and are not forgotten.       *)

WriteHandlers == {i \in 1..Len(tasks) : tasks[i].op \in WriteOps}

\* No write is posted, outstanding or being completed.
NoWrite == WriteHandlers = {} /\ writing = <<>>

\* At most one is.
OneWrite ==
    /\ \A i, j \in WriteHandlers : i = j
    /\ Len(writing) =< 1
    /\ writing # <<>> => WriteHandlers = {}

\* What a step may do to the pending writes without adding one.
NoNewWrite == (NoWrite => NoWrite') /\ (OneWrite => OneWrite')

\* A number between 1 and 1.
LEMMA One == \A n \in Nat : n >= 1 /\ n =< 1 => n = 1
OBVIOUS

\* The writes in the queue keep their order and move up by d.
LEMMA WritesMoveUp ==
    ASSUME NEW d \in {0, 1}, UNCHANGED writing,
           \A i \in WriteHandlers' : i \in Nat /\ i + d \in WriteHandlers
    PROVE  NoNewWrite
BY DEF NoNewWrite, NoWrite, OneWrite

\* A handler takes itself out of the queue.
LEMMA TakeWrite ==
    ASSUME IInv, NEW op, IsNext(op), tasks' = Tail(tasks)
    PROVE  \A i \in WriteHandlers' :
                i \in Nat /\ i >= 1 /\ i + 1 \in WriteHandlers
<1>1. \A i \in 1..Len(tasks') : i + 1 \in 1..Len(tasks) /\ tasks'[i] = tasks[i + 1]
    BY TakeHandler
<1>2. QED
    BY <1>1 DEF WriteHandlers

\* Another handler than that of a write is made ready.
LEMMA AppendNoWrite ==
    ASSUME IInv, NEW h \in Handlers, h.op \notin WriteOps,
           tasks' = Append(tasks, h)
    PROVE  WriteHandlers' = WriteHandlers
<1>1. /\ tasks' \in Seq(Handlers) /\ Len(tasks') = Len(tasks) + 1
      /\ \A i \in 1..Len(tasks) : tasks'[i] = tasks[i]
      /\ tasks'[Len(tasks) + 1] = h /\ Len(tasks) \in Nat
    BY AppendHandler DEF IInv, TypeOK
<1>2. QED
    BY <1>1 DEF WriteHandlers

\* start() adds no write.
LEMMA StartWrite == IInv /\ start => NoNewWrite
<1> SUFFICES ASSUME IInv, start PROVE NoNewWrite
    OBVIOUS
<1>1. WriteHandlers' = WriteHandlers
    BY AppendNoWrite, HandlerTypes, HandlerFields DEF start, WriteOps
<1>2. \A i \in WriteHandlers' : i \in Nat /\ i + 0 \in WriteHandlers
    BY <1>1 DEF WriteHandlers
<1>3. QED
    BY <1>2, WritesMoveUp DEF start

\* async_close() adds no write.
LEMMA AsyncCloseWrite == IInv /\ async_close => NoNewWrite
<1> SUFFICES ASSUME IInv, async_close PROVE NoNewWrite
    OBVIOUS
<1>1. WriteHandlers' = WriteHandlers
    BY AppendNoWrite, HandlerTypes, HandlerFields DEF async_close, WriteOps
<1>2. \A i \in WriteHandlers' : i \in Nat /\ i + 0 \in WriteHandlers
    BY <1>1 DEF WriteHandlers
<1>3. QED
    BY <1>2, WritesMoveUp DEF async_close

\* async_send() adds at most one.
LEMMA AsyncSendWrite ==
    ASSUME NEW message \in Nat, IInv, async_send(message), NoWrite
    PROVE  OneWrite'
<1>1. CASE ~is_processing
    BY <1>1 DEF async_send, NoWrite, OneWrite, WriteHandlers
<1>2. CASE is_processing
  <2> DEFINE h == Handler("send", "none", <<message>>)
  <2>1. h \in Handlers /\ tasks' = Append(tasks, h) /\ UNCHANGED writing
      BY <1>2, HandlerTypes DEF async_send
  <2> HIDE DEF h
  <2>2. /\ tasks' \in Seq(Handlers) /\ Len(tasks') = Len(tasks) + 1
        /\ \A i \in 1..Len(tasks) : tasks'[i] = tasks[i]
        /\ Len(tasks) \in Nat
      BY <2>1, AppendHandler DEF IInv, TypeOK
  <2>3. \A i \in WriteHandlers' : i = Len(tasks) + 1
      BY <2>2 DEF NoWrite, WriteHandlers
  <2>4. QED
      BY <2>1, <2>3 DEF NoWrite, OneWrite
<1>3. QED
  BY <1>1, <1>2

\* When the handler of a write runs, no other write is pending.
LEMMA OnlyWrite ==
    ASSUME IInv, OneWrite, NEW op \in WriteOps, IsNext(op)
    PROVE  WriteHandlers = {1} /\ writing = <<>>
<1>1. 1 \in WriteHandlers
    BY TakeHandler DEF WriteHandlers
<1>2. QED
    BY <1>1 DEF OneWrite

\* As long as writes are handed over one at a time, none overlaps.
LEMMA OneWriteApart ==
    ASSUME IInv, OneWrite, ~overlapped,
           \/ start \/ async_close \/ QuietHandler \/ Network \/ on_sent
           \/ \E message : async_send(message)
           \/ \E n, closes : process_read_bytes(n, closes)
    PROVE  ~overlapped'
<1>1. CASE async_send_in_thread
  <2>1. writing = <<>>
      BY <1>1, OnlyWrite DEF async_send_in_thread, WriteOps
  <2>2. QED
      BY <1>1, <2>1 DEF async_send_in_thread
<1>2. CASE UNCHANGED overlapped
    BY <1>2
<1>3. CASE QuietHandler
    BY <1>1, <1>2, <1>3 DEF QuietHandler, RunReadNext, RunClose, ReadAborted,
       ReadPeerGone, ReadFailed, WriteAborted, WritePeerGone, WriteFailed,
       ClosedByPeer, Throw, Ignore, netVars
<1>4. CASE Network
    BY <1>2, <1>4 DEF Network, PeerSend, PeerFault, ReadCompletes, WritePart,
       WriteCompletes, netVars
<1>5. QED
    BY <1>2, <1>3, <1>4 DEF start, async_close, on_sent, Ignore, async_send,
       process_read_bytes, netVars

\* The end of a write that succeeded leaves none.
LEMMA OnSentWrite == IInv /\ OneWrite /\ on_sent => NoWrite'
<1> SUFFICES ASSUME IInv, OneWrite, on_sent PROVE NoWrite'
    OBVIOUS
<1>1. IsNext("write_done") /\ tasks' = Tail(tasks) /\ UNCHANGED writing
    BY DEF on_sent, IsWriteDone, Ignore
<1>2. WriteHandlers = {1} /\ writing = <<>>
    BY <1>1, OnlyWrite DEF WriteOps
<1>3. QED
    BY <1>1, <1>2, TakeWrite DEF NoWrite

\* A handler that takes itself out of the queue and starts nothing.
LEMMA LeaveWrite ==
    ASSUME IInv, NEW op, IsNext(op), tasks' = Tail(tasks), UNCHANGED writing
    PROVE  NoNewWrite
<1>1. \A i \in WriteHandlers' : i \in Nat /\ i + 1 \in WriteHandlers
    BY TakeWrite
<1>2. QED
    BY <1>1, WritesMoveUp

\* A posted write becomes an operation of the socket, or fails at once.
LEMMA AsyncSendInThreadWrite == IInv /\ async_send_in_thread => NoNewWrite
<1> SUFFICES ASSUME IInv, async_send_in_thread PROVE NoNewWrite
    OBVIOUS
<1>1. IsNext("send") /\ "send" \in WriteOps
    BY DEF async_send_in_thread, WriteOps
<1>2. ~NoWrite
    BY <1>1, TakeHandler DEF NoWrite, WriteHandlers
<1>3. ASSUME OneWrite PROVE OneWrite'
  <2> DEFINE message == Head(Head(tasks).data)
  <2>1. WriteHandlers = {1} /\ writing = <<>>
      BY <1>1, <1>3, OnlyWrite
  <2>2. message \in Nat
    <3>1. Head(tasks) \in Handlers /\ Head(tasks).op = "send"
        BY <1>1, TakeHandler
    <3>2. Head(tasks).data \in Seq(Nat) /\ Head(tasks).data # <<>>
        BY <3>1 DEF Handlers
    <3>3. QED
        BY <3>2, TailHandler
  <2>3. CASE socket = "open"
    <3>1. tasks' = Tail(tasks) /\ writing' = Append(writing, message)
        BY <2>3 DEF async_send_in_thread
    <3> HIDE DEF message
    <3>2. WriteHandlers' = {}
        BY <1>1, <2>1, <3>1, TakeWrite
    <3>3. Len(writing') = 1
      <4>1. writing \in Seq(Nat)
          BY DEF IInv, TypeOK
      <4>2. Len(Append(writing, message)) = Len(writing) + 1
          BY <2>2, <4>1, AppendHandler
      <4>3. Len(writing) = 0
          BY <2>1
      <4>4. QED
          BY <3>1, <4>2, <4>3
    <3>4. QED
        BY <3>2, <3>3 DEF OneWrite
  <2>4. CASE socket # "open"
    <3> DEFINE h == Handler("write_done", "failed", <<message>>)
    <3>1. h \in Handlers
        BY <2>2, HandlerTypes DEF Errors
    <3>2. tasks' = Append(Tail(tasks), h) /\ UNCHANGED writing
        BY <2>4 DEF async_send_in_thread
    <3> HIDE DEF h
    <3>3. /\ Tail(tasks) \in Seq(Handlers) /\ Len(Tail(tasks)) = Len(tasks) - 1
          /\ Len(tasks) \in Nat /\ Len(tasks) >= 1
          /\ \A i \in 1..(Len(tasks) - 1) : Tail(tasks)[i] = tasks[i + 1]
        BY <1>1, TakeHandler
    <3>4. /\ Len(tasks') = Len(tasks)
          /\ \A i \in 1..(Len(tasks) - 1) : tasks'[i] = tasks[i + 1]
        BY <3>1, <3>2, <3>3, AppendHandler
    <3>5. \A i \in WriteHandlers' : i = Len(tasks)
      <4> SUFFICES ASSUME NEW i \in WriteHandlers', i # Len(tasks) PROVE FALSE
          OBVIOUS
      <4>1. i \in 1..(Len(tasks) - 1) /\ tasks'[i].op \in WriteOps
        <5>1. i \in 1..Len(tasks') /\ tasks'[i].op \in WriteOps
            BY DEF WriteHandlers
        <5>2. Len(tasks') = Len(tasks) /\ Len(tasks) \in Nat
            BY <3>3, <3>4
        <5>3. QED
            BY <5>1, <5>2
      <4>2. i + 1 \in WriteHandlers /\ i + 1 # 1
        <5>1. tasks[i + 1].op \in WriteOps
            BY <3>4, <4>1
        <5>2. Len(tasks) \in Nat
            BY <3>3
        <5>3. i + 1 \in 1..Len(tasks) /\ i + 1 # 1
            BY <4>1, <5>2
        <5>4. QED
            BY <5>1, <5>3 DEF WriteHandlers
      <4>3. QED
          BY <2>1, <4>2
    <3>6. writing' = <<>> /\ Len(writing') = 0
        BY <2>1, <3>2
    <3>7. QED
        BY <3>5, <3>6 DEF OneWrite
  <2>5. QED
      BY <2>3, <2>4
<1>4. QED
  BY <1>2, <1>3 DEF NoNewWrite

\* The end of an operation makes its handler ready.
LEMMA WriteCompletesWrite == IInv /\ WriteCompletes => NoNewWrite
<1> SUFFICES ASSUME IInv, WriteCompletes PROVE NoNewWrite
    OBVIOUS
<1>1. /\ writing # <<>> /\ Head(writing) \in Nat /\ writing' = Tail(writing)
      /\ writing \in Seq(Nat)
    BY TailHandler DEF WriteCompletes, IInv, TypeOK
<1>2. ~NoWrite
    BY <1>1 DEF NoWrite
<1>3. ASSUME OneWrite PROVE OneWrite'
  <2>1. WriteHandlers = {} /\ Len(writing) = 1
    <3>1. Len(writing) >= 1 /\ Len(writing) \in Nat
        BY <1>1, TailHandler
    <3>2. WriteHandlers = {} /\ Len(writing) =< 1
        BY <1>1, <1>3, Zenon DEF OneWrite
    <3>3. Len(writing) = 1
        BY <3>1, <3>2, One, Zenon
    <3>4. QED
        BY <3>2, <3>3, Zenon
  <2>2. writing' \in Seq(Nat) /\ Len(writing') = 0
      BY <1>1, <2>1, TailHandler
  <2>3. writing' = <<>>
      BY <2>2
  <2>4. PICK h \in Handlers : tasks' = Append(tasks, h)
      BY <1>1, HandlerTypes DEF WriteCompletes, Errors
  <2>5. /\ Len(tasks') = Len(tasks) + 1 /\ Len(tasks) \in Nat
        /\ \A i \in 1..Len(tasks) : tasks'[i] = tasks[i]
      BY <2>4, AppendHandler DEF IInv, TypeOK
  <2>6. \A i \in WriteHandlers' : i = Len(tasks) + 1
      BY <2>1, <2>5 DEF WriteHandlers
  <2>7. QED
      BY <2>2, <2>3, <2>6 DEF OneWrite
<1>4. QED
  BY <1>2, <1>3 DEF NoNewWrite

\* The end of a read adds no write.
LEMMA ReadCompletesWrite == IInv /\ ReadCompletes => NoNewWrite
<1> SUFFICES ASSUME IInv, ReadCompletes PROVE NoNewWrite
    OBVIOUS
<1>1. PICK e \in Errors, d \in Seq(Items \cup {Bad}) :
            tasks' = Append(tasks, Handler("read_done", e, d))
  <2>1. <<>> \in Seq(Items \cup {Bad})
        /\ \A n \in taken..Len(inbound) :
                SubSeq(inbound, taken + 1, n) \in Seq(Items \cup {Bad})
      BY DEF IInv, TypeOK
  <2>2. "none" \in Errors /\ "gone" \in Errors /\ "failed" \in Errors
      BY DEF Errors
  <2>3. QED
      BY <2>1, <2>2, Zenon DEF ReadCompletes
<1> DEFINE h == Handler("read_done", e, d)
<1>2. h \in Handlers /\ h.op \notin WriteOps
    BY DEF Handler, Handlers, WriteOps
<1> HIDE DEF h
<1>3. WriteHandlers' = WriteHandlers
    BY <1>1, <1>2, AppendNoWrite DEF h
<1>4. \A i \in WriteHandlers' : i \in Nat /\ i + 0 \in WriteHandlers
    BY <1>3 DEF WriteHandlers
<1>5. QED
    BY <1>4, WritesMoveUp DEF ReadCompletes

\* close_in_thread() turns the outstanding write into a handler.
LEMMA CloseInThreadWrite ==
    ASSUME IInv, NEW status, NEW queue \in Seq(Handlers),
           \A i \in 1..Len(queue) :
                queue[i].op \in WriteOps => i + 1 \in WriteHandlers,
           close_in_thread(status, queue)
    PROVE  NoNewWrite
<1>1. CASE state_ = "STOPPED"
  <2>1. tasks' = queue /\ UNCHANGED writing
      BY <1>1 DEF close_in_thread, CloseSocket, cancel
  <2>2. \A i \in WriteHandlers' : i \in Nat /\ i + 1 \in WriteHandlers
      BY <2>1 DEF WriteHandlers
  <2>3. QED
      BY <2>1, <2>2, WritesMoveUp
<1>2. CASE state_ # "STOPPED"
  <2> DEFINE A == AbortedHandlers
  <2>1. tasks' = queue \o A /\ writing' = <<>> /\ Len(writing') = 0
      BY <1>2 DEF close_in_thread, CloseSocket, cancel
  <2>2. /\ A \in Seq(Handlers) /\ Len(A) \in Nat /\ Len(queue) \in Nat
        /\ Len(A) = IF reading THEN Len(writing) + 1 ELSE Len(writing)
        /\ reading => A[1].op = "read_done"
      BY AbortedHandlersType
  <2> HIDE DEF A
  <2>3. /\ Len(tasks') = Len(queue) + Len(A)
        /\ \A i \in 1..Len(queue) : tasks'[i] = queue[i]
        /\ \A i \in Len(queue) + 1..Len(queue) + Len(A) :
                tasks'[i] = A[i - Len(queue)]
    <3>1. A \in Seq(Handlers)
        BY <2>2
    <3>2. QED
        BY <2>1, <3>1, ConcatHandlers
  <2>4. Len(writing) \in Nat /\ (writing = <<>> <=> Len(writing) = 0)
      BY DEF IInv, TypeOK
  <2>5. ASSUME NEW i \in WriteHandlers'
        PROVE  \/ i \in Nat /\ i + 1 \in WriteHandlers
               \/ /\ writing # <<>>
                  /\ i > Len(queue) + (Len(A) - Len(writing))
                  /\ i =< Len(queue) + Len(A)
    <3>1. i \in 1..Len(tasks') /\ tasks'[i].op \in WriteOps
        BY DEF WriteHandlers
    <3>2. CASE i \in 1..Len(queue)
        BY <2>3, <3>1, <3>2
    <3>3. CASE i \notin 1..Len(queue)
      <4>1. i \in Len(queue) + 1..Len(queue) + Len(A)
          BY <2>2, <2>3, <3>1, <3>3
      <4>2. tasks'[i] = A[i - Len(queue)]
          BY <2>3, <4>1
      <4>3. reading => i - Len(queue) # 1
          BY <2>2, <3>1, <4>2 DEF WriteOps
      <4>4. QED
          BY <2>2, <2>4, <4>1, <4>3
    <3>4. QED
        BY <3>2, <3>3
  <2>6. NoWrite => NoWrite'
      BY <2>1, <2>5 DEF NoWrite
  <2>7. ASSUME OneWrite PROVE OneWrite'
    <3>1. CASE writing = <<>>
        BY <2>1, <2>5, <2>7, <3>1 DEF OneWrite
    <3>2. CASE writing # <<>>
      <4>1. WriteHandlers = {} /\ Len(writing) = 1
        <5>1. WriteHandlers = {} /\ Len(writing) =< 1
            BY <2>7, <3>2, Zenon DEF OneWrite
        <5>2. writing \in Seq(Nat)
            BY DEF IInv, TypeOK
        <5>3. Len(writing) >= 1 /\ Len(writing) \in Nat
            BY <3>2, <5>2, TailHandler
        <5>4. Len(writing) = 1
            BY <5>1, <5>3, One, Zenon
        <5>5. QED
            BY <5>1, <5>4, Zenon
      <4>2. \A i \in WriteHandlers' : i = Len(queue) + Len(A)
        <5> SUFFICES ASSUME NEW i \in WriteHandlers' PROVE i = Len(queue) + Len(A)
            OBVIOUS
        <5>1. i \in Nat
            BY DEF WriteHandlers
        <5>2. QED
            BY <2>2, <2>5, <4>1, <5>1
      <4>3. QED
          BY <2>1, <4>2 DEF OneWrite
    <3>3. QED
        BY <3>1, <3>2
  <2>8. QED
      BY <2>6, <2>7 DEF NoNewWrite
<1>3. QED
  BY <1>1, <1>2

\* The handler of a read adds no write.
LEMMA ProcessReadBytesWrite ==
    ASSUME IInv, NEW n, NEW closes \in Nat, process_read_bytes(n, closes)
    PROVE  NoNewWrite
<1> DEFINE posted == [i \in 1..closes |-> Handler("close", "none", <<>>)]
           queue == Tail(tasks) \o posted
           more == n < Len(Head(tasks).data)
<1>1. /\ IsNext("read_done")
      /\ more => close_in_thread("INVALID_MESSAGE", queue)
      /\ ~more => /\ IF is_processing
                     THEN async_read_next(queue)
                     ELSE tasks' = queue /\ UNCHANGED reading
                  /\ UNCHANGED <<state_, socket, writing, closed, thrown>>
    BY Zenon DEF process_read_bytes, ParseFails, ReadOn, IsReadDone
<1>2. IsNext("read_done")
    BY <1>1
<1>3. /\ posted \in Seq(Handlers) /\ Len(posted) = closes
      /\ \A i \in 1..closes : posted[i].op \notin WriteOps
  <2>1. Handler("close", "none", <<>>) \in Handlers
      BY HandlerTypes
  <2>2. Handler("close", "none", <<>>).op \notin WriteOps
      BY HandlerFields DEF WriteOps
  <2>3. QED
      BY <2>1, <2>2
<1> HIDE DEF posted, more
<1>4. /\ Tail(tasks) \in Seq(Handlers) /\ Len(Tail(tasks)) \in Nat
      /\ \A i \in 1..Len(Tail(tasks)) :
            i + 1 \in 1..Len(tasks) /\ Tail(tasks)[i] = tasks[i + 1]
    BY <1>2, TakeHandler
<1>5. /\ queue \in Seq(Handlers) /\ Len(queue) = Len(Tail(tasks)) + closes
      /\ \A i \in 1..Len(Tail(tasks)) : queue[i] = Tail(tasks)[i]
      /\ \A i \in Len(Tail(tasks)) + 1..Len(Tail(tasks)) + closes :
            queue[i] = posted[i - Len(Tail(tasks))]
    BY <1>3, <1>4, ConcatHandlers
<1> HIDE DEF queue
<1>6. ASSUME NEW i \in 1..Len(queue), queue[i].op \in WriteOps
      PROVE  i + 1 \in WriteHandlers
  <2>1. CASE i \in 1..Len(Tail(tasks))
      BY <1>4, <1>5, <1>6, <2>1 DEF WriteHandlers
  <2>2. CASE i \notin 1..Len(Tail(tasks))
    <3>1. /\ i \in Len(Tail(tasks)) + 1..Len(Tail(tasks)) + closes
          /\ i - Len(Tail(tasks)) \in 1..closes
        BY <1>4, <1>5, <2>2
    <3>2. QED
        BY <1>3, <1>5, <1>6, <3>1
  <2>3. QED
      BY <2>1, <2>2
<1>7. CASE more
    BY <1>1, <1>5, <1>6, <1>7, CloseInThreadWrite
<1>8. CASE ~more
  <2>1. tasks' = queue /\ UNCHANGED writing
    <3>1. is_processing => socket = "open"
        BY DEF IInv, ClosedSocketIsIdle, TypeOK, is_processing
    <3>2. QED
        BY <1>1, <1>8, <3>1 DEF async_read_next
  <2>2. \A i \in WriteHandlers' : i \in Nat /\ i + 1 \in WriteHandlers
      BY <1>6, <2>1 DEF WriteHandlers
  <2>3. QED
      BY <2>1, <2>2, WritesMoveUp
<1>9. QED
  BY <1>7, <1>8

\* No handler that is quiet towards the owner adds a write.
LEMMA QuietHandlerWrite == IInv /\ QuietHandler => NoNewWrite
<1> SUFFICES ASSUME IInv, QuietHandler PROVE NoNewWrite
    OBVIOUS
<1>1. CASE RunReadNext
  <2>1. IsNext("read_next") /\ state_ = "PROCESSING"
      BY <1>1, TakeHandler DEF RunReadNext, IInv, FirstRead
  <2>2. socket = "open"
      BY <2>1 DEF IInv, ClosedSocketIsIdle, TypeOK
  <2>3. QED
      BY <1>1, <2>1, <2>2, LeaveWrite DEF RunReadNext, async_read_next
<1>2. CASE RunClose
  <2>1. IsNext("close") /\ close_in_thread("SUCCESS", Tail(tasks))
      BY <1>2 DEF RunClose
  <2>2. /\ Tail(tasks) \in Seq(Handlers)
        /\ \A i \in 1..Len(Tail(tasks)) :
                i + 1 \in 1..Len(tasks) /\ Tail(tasks)[i] = tasks[i + 1]
      BY <2>1, TakeHandler
  <2>3. \A i \in 1..Len(Tail(tasks)) :
            Tail(tasks)[i].op \in WriteOps => i + 1 \in WriteHandlers
      BY <2>2 DEF WriteHandlers
  <2>4. QED
      BY <2>1, <2>2, <2>3, CloseInThreadWrite
<1>3. CASE async_send_in_thread
    BY <1>3, AsyncSendInThreadWrite
<1>4. CASE ReadAborted \/ WriteAborted
    BY <1>4, LeaveWrite
    DEF ReadAborted, WriteAborted, IsReadDone, IsWriteDone, Ignore
<1>5. CASE ReadPeerGone \/ WritePeerGone
    BY <1>5, LeaveWrite
    DEF ReadPeerGone, WritePeerGone, IsReadDone, IsWriteDone, ClosedByPeer
<1>6. CASE ReadFailed \/ WriteFailed
    BY <1>6, LeaveWrite
    DEF ReadFailed, WriteFailed, IsReadDone, IsWriteDone, Throw
<1>7. QED
    BY <1>1, <1>2, <1>3, <1>4, <1>5, <1>6 DEF QuietHandler

\* Nor does the network.
LEMMA NetworkWrite == IInv /\ Network => NoNewWrite
<1> SUFFICES ASSUME IInv, Network PROVE NoNewWrite
    OBVIOUS
<1>1. CASE \/ \E item \in Items \cup {Bad} : PeerSend(item)
           \/ \E fault \in Faults : PeerFault(fault)
    BY <1>1 DEF PeerSend, PeerFault, NoNewWrite, NoWrite, OneWrite, WriteHandlers
<1>2. CASE WritePart
    BY <1>2, WritePartType DEF NoNewWrite, NoWrite, OneWrite
<1>3. QED
    BY <1>1, <1>2, ReadCompletesWrite, WriteCompletesWrite DEF Network

-----------------------------------------------------------------------------
(* The order of what is written.  Messages are numbered by the calls of    *)
(* async_send().                                                           *)

\* The posted writes of a queue, and their messages.
SendsIn(queue) == {i \in 1..Len(queue) : queue[i].op = "send"}
MessageAt(queue, i) == Head(queue[i].data)

\* The posted writes are, in order, those of messages h+1, h+2 and so on, of
\* which there are n.
InOrder(queue, h, n) ==
    /\ \A i \in SendsIn(queue) :
        /\ MessageAt(queue, i) \in h + 1..n
        /\ \A m \in h + 1..MessageAt(queue, i) - 1 :
            \E j \in SendsIn(queue) : j < i /\ MessageAt(queue, j) = m
    /\ \A i, j \in SendsIn(queue) :
        i < j => MessageAt(queue, i) < MessageAt(queue, j)

\* None is missing.
AllPosted(queue, h, n) ==
    \A m \in h + 1..n : \E j \in SendsIn(queue) : MessageAt(queue, j) = m

\* Messages that were handed to the socket, and whether it may still write.
Handed == Len(written) + Len(writing)
Writable == socket = "open" /\ peer \in {"up", "fin"}

\* What was written, what is being written and what is posted are the messages
\* of async_send() from the first on, as long as anything can be written; none
\* is missing at the end while the connection is processing.
WritesInOrder ==
    /\ state_ = "INIT" => asked = <<>>
    /\ \A k \in 1..Len(asked) : asked[k] = k
    /\ Len(written) =< Len(asked)
    /\ \A k \in 1..Len(written) : written[k] = k
    /\ Writable =>
        /\ Handed =< Len(asked)
        /\ \A k \in 1..Len(writing) : writing[k] = Len(written) + k
        /\ InOrder(tasks, Handed, Len(asked))
        /\ is_processing => AllPosted(tasks, Handed, Len(asked))

\* Handlers may be taken from the front and added, but for writes.
LEMMA MoveUpInOrder ==
    ASSUME NEW d \in {0, 1}, NEW S, NEW q \in Seq(S), NEW r \in Seq(S),
           NEW h \in Nat, NEW n \in Nat, InOrder(q, h, n),
           \A i \in SendsIn(r) : i + d \in SendsIn(q) /\ r[i] = q[i + d],
           \A j \in SendsIn(q) : j - d \in SendsIn(r) /\ q[j] = r[j - d]
    PROVE  InOrder(r, h, n) /\ (AllPosted(q, h, n) => AllPosted(r, h, n))
<1>1. /\ \A i \in SendsIn(r) : MessageAt(r, i) = MessageAt(q, i + d)
      /\ \A j \in SendsIn(q) : MessageAt(q, j) = MessageAt(r, j - d)
    BY DEF MessageAt
<1>2. ASSUME NEW i \in SendsIn(r)
      PROVE  /\ MessageAt(r, i) \in h + 1..n
             /\ \A m \in h + 1..MessageAt(r, i) - 1 :
                    \E j \in SendsIn(r) : j < i /\ MessageAt(r, j) = m
  <2>1. MessageAt(r, i) \in h + 1..n
      BY <1>1 DEF InOrder
  <2>2. ASSUME NEW m \in h + 1..MessageAt(r, i) - 1
        PROVE  \E j \in SendsIn(r) : j < i /\ MessageAt(r, j) = m
    <3>1. PICK j \in SendsIn(q) : j < i + d /\ MessageAt(q, j) = m
        BY <1>1 DEF InOrder
    <3>2. j - d \in SendsIn(r) /\ MessageAt(r, j - d) = m
        BY <1>1, <3>1
    <3>3. j - d < i
        BY <3>1 DEF SendsIn
    <3>4. QED
        BY <3>2, <3>3
  <2>3. QED
      BY <2>1, <2>2
<1>3. ASSUME NEW i \in SendsIn(r), NEW j \in SendsIn(r), i < j
      PROVE  MessageAt(r, i) < MessageAt(r, j)
  <2>1. i + d < j + d
      BY <1>3 DEF SendsIn
  <2>2. QED
      BY <1>1, <2>1 DEF InOrder
<1>4. AllPosted(q, h, n) => AllPosted(r, h, n)
    BY <1>1 DEF AllPosted
<1>5. QED
    BY <1>2, <1>3, <1>4 DEF InOrder

\* The next message is posted.
LEMMA PostInOrder ==
    ASSUME NEW S, NEW q \in Seq(S), NEW w \in S, w.op = "send",
           NEW h \in Nat, NEW n \in Nat, h =< n, Head(w.data) = n + 1,
           InOrder(q, h, n), AllPosted(q, h, n)
    PROVE  InOrder(Append(q, w), h, n + 1) /\ AllPosted(Append(q, w), h, n + 1)
<1> DEFINE r == Append(q, w)
<1>1. /\ Len(r) = Len(q) + 1 /\ Len(q) \in Nat
      /\ \A i \in 1..Len(q) : r[i] = q[i]
      /\ r[Len(q) + 1] = w
    BY AppendHandler
<1> HIDE DEF r
<1>2. /\ SendsIn(r) = SendsIn(q) \cup {Len(q) + 1}
      /\ \A i \in SendsIn(q) : /\ MessageAt(r, i) = MessageAt(q, i)
                               /\ i < Len(q) + 1
      /\ MessageAt(r, Len(q) + 1) = n + 1
  <2>1. SendsIn(r) = SendsIn(q) \cup {Len(q) + 1}
      BY <1>1 DEF SendsIn
  <2>2. \A i \in SendsIn(q) : MessageAt(r, i) = MessageAt(q, i) /\ i < Len(q) + 1
      BY <1>1 DEF SendsIn, MessageAt
  <2>3. QED
      BY <1>1, <2>1, <2>2 DEF MessageAt
<1>3. ASSUME NEW i \in SendsIn(r)
      PROVE  /\ MessageAt(r, i) \in h + 1..n + 1
             /\ \A m \in h + 1..MessageAt(r, i) - 1 :
                    \E j \in SendsIn(r) : j < i /\ MessageAt(r, j) = m
  <2>1. CASE i \in SendsIn(q)
    <3>1. /\ MessageAt(q, i) \in h + 1..n
          /\ \A m \in h + 1..MessageAt(q, i) - 1 :
                \E j \in SendsIn(q) : j < i /\ MessageAt(q, j) = m
        BY <2>1 DEF InOrder
    <3>2. QED
        BY <1>2, <2>1, <3>1
  <2>2. CASE i = Len(q) + 1
    <3>1. \A m \in h + 1..n : \E j \in SendsIn(q) : MessageAt(q, j) = m
        BY DEF AllPosted
    <3>2. MessageAt(r, i) - 1 = n /\ MessageAt(r, i) \in h + 1..n + 1
        BY <1>2, <2>2
    <3>3. QED
        BY <1>2, <2>2, <3>1, <3>2
  <2>3. QED
      BY <1>2, <2>1, <2>2
<1>4. ASSUME NEW i \in SendsIn(r), NEW j \in SendsIn(r), i < j
      PROVE  MessageAt(r, i) < MessageAt(r, j)
  <2>1. i \in SendsIn(q)
    <3>1. j =< Len(q) + 1 /\ i \in Nat /\ j \in Nat
        BY <1>1 DEF SendsIn
    <3>2. i # Len(q) + 1
        BY <1>1, <1>4, <3>1
    <3>3. QED
        BY <1>2, <3>2
  <2>2. MessageAt(r, i) \in h + 1..n
      BY <1>2, <2>1 DEF InOrder
  <2>3. CASE j = Len(q) + 1
      BY <1>2, <2>2, <2>3
  <2>4. CASE j \in SendsIn(q)
      BY <1>2, <1>4, <2>1, <2>4 DEF InOrder
  <2>5. QED
      BY <1>2, <2>3, <2>4
<1>5. AllPosted(r, h, n + 1)
  <2>1. ASSUME NEW m \in h + 1..n + 1
        PROVE  \E j \in SendsIn(r) : MessageAt(r, j) = m
    <3>1. CASE m = n + 1
        BY <1>2, <3>1
    <3>2. CASE m # n + 1
      <4>1. m \in h + 1..n
          BY <3>2
      <4>2. PICK j \in SendsIn(q) : MessageAt(q, j) = m
          BY <4>1 DEF AllPosted
      <4>3. QED
          BY <1>2, <4>2
    <3>3. QED
        BY <3>1, <3>2
  <2>2. QED
      BY <2>1 DEF AllPosted
<1>6. QED
    BY <1>3, <1>4, <1>5 DEF InOrder, r

\* The first posted write is that of the next message.
LEMMA TakeInOrder ==
    ASSUME NEW S, NEW q \in Seq(S), 1 \in SendsIn(q),
           NEW h \in Nat, NEW n \in Nat, InOrder(q, h, n)
    PROVE  /\ MessageAt(q, 1) = h + 1 /\ h + 1 =< n
           /\ InOrder(Tail(q), h + 1, n)
           /\ AllPosted(q, h, n) => AllPosted(Tail(q), h + 1, n)
<1> DEFINE r == Tail(q)
<1>1. /\ Len(q) \in Nat /\ Len(q) >= 1 /\ Len(r) = Len(q) - 1
      /\ \A i \in 1..Len(r) : r[i] = q[i + 1]
  <2>1. q # <<>>
      BY DEF SendsIn
  <2>2. QED
      BY <2>1, TailHandler
<1> HIDE DEF r
<1>2. /\ \A i \in SendsIn(r) : /\ i \in Nat /\ i >= 1 /\ i + 1 \in SendsIn(q)
                               /\ MessageAt(r, i) = MessageAt(q, i + 1)
      /\ \A j \in SendsIn(q) : j # 1 => /\ j - 1 \in SendsIn(r)
                                        /\ MessageAt(r, j - 1) = MessageAt(q, j)
  <2>1. ASSUME NEW i \in SendsIn(r)
        PROVE  /\ i \in Nat /\ i >= 1 /\ i + 1 \in SendsIn(q)
               /\ MessageAt(r, i) = MessageAt(q, i + 1)
      BY <1>1 DEF SendsIn, MessageAt
  <2>2. ASSUME NEW j \in SendsIn(q), j # 1
        PROVE  /\ j - 1 \in SendsIn(r)
               /\ MessageAt(r, j - 1) = MessageAt(q, j)
    <3>1. j - 1 \in 1..Len(r) /\ (j - 1) + 1 = j /\ q[j].op = "send"
        BY <1>1, <2>2 DEF SendsIn
    <3>2. r[j - 1] = q[j]
        BY <1>1, <3>1
    <3>3. QED
        BY <3>1, <3>2 DEF SendsIn, MessageAt
  <2>3. QED
      BY <2>1, <2>2
<1>3. MessageAt(q, 1) = h + 1 /\ h + 1 =< n
  <2>1. MessageAt(q, 1) \in h + 1..n
      BY DEF InOrder
  <2>2. ASSUME MessageAt(q, 1) # h + 1
        PROVE  FALSE
    <3>1. h + 1 \in h + 1..MessageAt(q, 1) - 1
        BY <2>1, <2>2
    <3>2. PICK j \in SendsIn(q) : j < 1
        BY <3>1 DEF InOrder
    <3>3. QED
        BY <3>2 DEF SendsIn
  <2>3. QED
      BY <2>1, <2>2
<1>4. ASSUME NEW i \in SendsIn(r)
      PROVE  /\ MessageAt(r, i) \in (h + 1) + 1..n
             /\ \A m \in (h + 1) + 1..MessageAt(r, i) - 1 :
                    \E j \in SendsIn(r) : j < i /\ MessageAt(r, j) = m
  <2>1. PICK k \in SendsIn(q) : /\ k = i + 1 /\ k > 1
                                /\ MessageAt(r, i) = MessageAt(q, k)
      BY <1>2
  <2>2. /\ MessageAt(q, k) \in h + 1..n /\ MessageAt(q, 1) < MessageAt(q, k)
        /\ \A m \in h + 1..MessageAt(q, k) - 1 :
                \E j \in SendsIn(q) : j < k /\ MessageAt(q, j) = m
      BY <2>1 DEF InOrder
  <2>3. MessageAt(r, i) \in (h + 1) + 1..n
      BY <1>3, <2>1, <2>2
  <2>4. ASSUME NEW m \in (h + 1) + 1..MessageAt(r, i) - 1
        PROVE  \E j \in SendsIn(r) : j < i /\ MessageAt(r, j) = m
    <3>1. m \in h + 1..MessageAt(q, k) - 1 /\ m # h + 1
        BY <2>1, <2>2
    <3>2. PICK j \in SendsIn(q) : j < k /\ MessageAt(q, j) = m
        BY <2>2, <3>1
    <3>3. j # 1
        BY <1>3, <3>1, <3>2
    <3>4. j - 1 \in SendsIn(r) /\ MessageAt(r, j - 1) = m
        BY <1>2, <3>2, <3>3
    <3>5. j - 1 < i
        BY <1>2, <2>1, <3>2 DEF SendsIn
    <3>6. QED
        BY <3>4, <3>5
  <2>5. QED
      BY <2>3, <2>4
<1>5. ASSUME NEW i \in SendsIn(r), NEW j \in SendsIn(r), i < j
      PROVE  MessageAt(r, i) < MessageAt(r, j)
  <2>1. i + 1 < j + 1
      BY <1>2, <1>5
  <2>2. QED
      BY <1>2, <2>1 DEF InOrder
<1>6. ASSUME AllPosted(q, h, n)
      PROVE  AllPosted(r, h + 1, n)
  <2>1. ASSUME NEW m \in (h + 1) + 1..n
        PROVE  \E j \in SendsIn(r) : MessageAt(r, j) = m
    <3>1. m \in h + 1..n /\ m # h + 1
        OBVIOUS
    <3>2. PICK j \in SendsIn(q) : MessageAt(q, j) = m
        BY <1>6, <3>1 DEF AllPosted
    <3>3. j # 1
        BY <1>3, <3>1, <3>2
    <3>4. QED
        BY <1>2, <3>2, <3>3
  <2>2. QED
      BY <2>1 DEF AllPosted
<1>7. QED
    BY <1>3, <1>4, <1>5, <1>6 DEF InOrder, r

\* There may be more messages than are posted.
LEMMA MoreInOrder ==
    ASSUME NEW queue, NEW h \in Nat, NEW n \in Nat, InOrder(queue, h, n)
    PROVE  InOrder(queue, h, n + 1)
<1>1. \A i \in SendsIn(queue) : MessageAt(queue, i) \in h + 1..n + 1
    BY DEF InOrder
<1>2. QED
    BY <1>1 DEF InOrder

\* The types that the order is about.
LEMMA WriteTypes ==
    ASSUME IInv
    PROVE  /\ writing \in Seq(Nat) /\ Len(writing) \in Nat
           /\ written \in Seq(Nat) /\ Len(written) \in Nat
           /\ asked \in Seq(Nat) /\ Len(asked) \in Nat
           /\ tasks \in Seq(Handlers) /\ Handed \in Nat
BY DEF IInv, TypeOK, Handed

\* Where the posted writes are after a step that posts and starts none.
LEMMA SendsShifted ==
    ASSUME IInv, NEW d \in {0, 1}, Shifted(tasks', d),
           d = 1 => tasks # <<>> /\ Head(tasks).op # "send"
    PROVE  /\ \A i \in SendsIn(tasks') : /\ i + d \in SendsIn(tasks)
                                         /\ tasks'[i] = tasks[i + d]
           /\ \A j \in SendsIn(tasks) : /\ j - d \in SendsIn(tasks')
                                        /\ tasks[j] = tasks'[j - d]
<1>1. tasks \in Seq(Handlers) /\ tasks' \in Seq(Handlers) /\ Len(tasks) \in Nat
    BY WriteTypes DEF Shifted
<1>2. \A i \in SendsIn(tasks') : /\ i + d \in SendsIn(tasks)
                                 /\ tasks'[i] = tasks[i + d]
  <2> SUFFICES ASSUME NEW i \in SendsIn(tasks')
               PROVE  i + d \in SendsIn(tasks) /\ tasks'[i] = tasks[i + d]
      OBVIOUS
  <2>1. i \in 1..Len(tasks') /\ tasks'[i].op = "send"
      BY DEF SendsIn
  <2>2. i + d =< Len(tasks)
      BY <2>1 DEF Shifted, Fresh
  <2>3. i \in 1..Len(tasks) - d /\ i + d \in 1..Len(tasks)
      BY <1>1, <2>1, <2>2
  <2>4. tasks'[i] = tasks[i + d]
      BY <2>3 DEF Shifted
  <2>5. QED
      BY <2>1, <2>3, <2>4 DEF SendsIn
<1>3. \A j \in SendsIn(tasks) : /\ j - d \in SendsIn(tasks')
                                /\ tasks[j] = tasks'[j - d]
  <2> SUFFICES ASSUME NEW j \in SendsIn(tasks)
               PROVE  j - d \in SendsIn(tasks') /\ tasks[j] = tasks'[j - d]
      OBVIOUS
  <2>1. j \in 1..Len(tasks) /\ tasks[j].op = "send"
      BY DEF SendsIn
  <2>2. d = 1 => j # 1
      BY <1>1, <2>1, TailHandler
  <2>3. j - d \in 1..Len(tasks) - d /\ (j - d) + d = j
      BY <1>1, <2>1, <2>2
  <2>4. j - d \in 1..Len(tasks') /\ tasks'[j - d] = tasks[j]
      BY <2>3 DEF Shifted
  <2>5. QED
      BY <2>1, <2>4 DEF SendsIn
<1>4. QED
    BY <1>2, <1>3

\* A step that posts, starts and ends no write.
LEMMA WritesKept ==
    ASSUME IInv, WritesInOrder, NEW d \in {0, 1}, Shifted(tasks', d),
           d = 1 => tasks # <<>> /\ Head(tasks).op # "send",
           UNCHANGED <<asked, written>>,
           Writable' => Writable /\ UNCHANGED writing,
           state_' = "INIT" => state_ = "INIT",
           is_processing' => is_processing
    PROVE  WritesInOrder'
<1>1. tasks \in Seq(Handlers) /\ tasks' \in Seq(Handlers) /\ Handed \in Nat
      /\ Len(asked) \in Nat /\ Len(tasks) \in Nat
    BY WriteTypes DEF Shifted
<1>2. /\ \A i \in SendsIn(tasks') : /\ i + d \in SendsIn(tasks)
                                    /\ tasks'[i] = tasks[i + d]
      /\ \A j \in SendsIn(tasks) : /\ j - d \in SendsIn(tasks')
                                   /\ tasks[j] = tasks'[j - d]
    BY SendsShifted
<1>3. Writable => InOrder(tasks, Handed, Len(asked))
    BY DEF WritesInOrder
<1>4. Writable => /\ InOrder(tasks', Handed, Len(asked))
                  /\ AllPosted(tasks, Handed, Len(asked)) =>
                        AllPosted(tasks', Handed, Len(asked))
    BY <1>1, <1>2, <1>3, MoveUpInOrder
<1>5. Writable' => Writable /\ Handed' = Handed /\ UNCHANGED writing
    BY DEF Handed
<1>6. Writable' => /\ InOrder(tasks', Handed', Len(asked'))
                   /\ is_processing' => AllPosted(tasks', Handed', Len(asked'))
    BY <1>4, <1>5 DEF WritesInOrder
<1>7. QED
    BY <1>5, <1>6 DEF WritesInOrder

\* async_send() posts the message, or drops it after a stop.
LEMMA AsyncSendOrder ==
    ASSUME IInv, WritesInOrder, async_send(Len(asked) + 1)
    PROVE  WritesInOrder'
<1> DEFINE n == Len(asked)
           w == Handler("send", "none", <<n + 1>>)
<1>1. /\ n \in Nat /\ Handed \in Nat /\ asked \in Seq(Nat)
      /\ tasks \in Seq(Handlers)
    BY WriteTypes
<1>2. /\ asked' = Append(asked, n + 1) /\ state_' # "INIT"
      /\ UNCHANGED <<writing, written, socket, peer, state_>>
    BY DEF async_send, netVars
<1>3. Len(asked') = n + 1 /\ \A k \in 1..n + 1 : asked'[k] = k
  <2>1. /\ Len(Append(asked, n + 1)) = n + 1
        /\ \A k \in 1..n : Append(asked, n + 1)[k] = asked[k]
        /\ Append(asked, n + 1)[n + 1] = n + 1
      BY <1>1, AppendHandler
  <2>2. \A k \in 1..n : asked[k] = k
      BY DEF WritesInOrder
  <2>3. QED
      BY <1>1, <1>2, <2>1, <2>2
<1>4. /\ w \in Handlers /\ w.op = "send" /\ Head(w.data) = n + 1
      /\ tasks' = IF is_processing THEN Append(tasks, w) ELSE tasks
  <2>1. n + 1 \in Nat
      BY <1>1
  <2>2. QED
      BY <2>1, HandlerTypes, HandlerFields DEF async_send
<1> HIDE DEF n, w
<1>5. Writable => Handed =< n /\ InOrder(tasks, Handed, n)
    BY DEF WritesInOrder, n
<1>6. Writable => /\ InOrder(tasks', Handed, n + 1)
                  /\ is_processing => AllPosted(tasks', Handed, n + 1)
  <2>1. CASE Writable /\ is_processing
    <3>1. AllPosted(tasks, Handed, n)
        BY <2>1 DEF WritesInOrder, n
    <3>2. tasks' = Append(tasks, w)
        BY <1>4, <2>1
    <3>3. /\ InOrder(Append(tasks, w), Handed, n + 1)
          /\ AllPosted(Append(tasks, w), Handed, n + 1)
        BY <1>1, <1>4, <1>5, <2>1, <3>1, PostInOrder
    <3>4. QED
        BY <3>2, <3>3
  <2>2. CASE Writable /\ ~is_processing
    <3>1. tasks' = tasks
        BY <1>4, <2>2
    <3>2. InOrder(tasks, Handed, n + 1)
        BY <1>1, <1>5, <2>2, MoreInOrder
    <3>3. QED
        BY <2>2, <3>1, <3>2
  <2>3. QED
      BY <2>1, <2>2
<1>7. /\ Writable' <=> Writable
      /\ is_processing' <=> is_processing
      /\ Handed' = Handed
    BY <1>2 DEF Writable, is_processing, Handed
<1>8. Writable' => /\ InOrder(tasks', Handed', Len(asked'))
                   /\ is_processing' => AllPosted(tasks', Handed', Len(asked'))
                   /\ Handed' =< Len(asked')
    BY <1>1, <1>3, <1>5, <1>6, <1>7
<1>9. Len(written') =< Len(asked')
    BY <1>1, <1>2, <1>3, WriteTypes DEF WritesInOrder, n
<1>10. QED
    BY <1>2, <1>3, <1>7, <1>8, <1>9 DEF WritesInOrder

\* The posted write that runs is that of the next message.
LEMMA AsyncSendInThreadOrder ==
    ASSUME IInv, WritesInOrder, async_send_in_thread PROVE WritesInOrder'
<1> DEFINE message == MessageAt(tasks, 1)
<1>1. /\ 1 \in SendsIn(tasks) /\ Head(tasks) = tasks[1] /\ state_ # "INIT"
      /\ tasks \in Seq(Handlers) /\ Handed \in Nat /\ Len(asked) \in Nat
      /\ writing \in Seq(Nat) /\ Len(writing) \in Nat /\ Len(written) \in Nat
  <2>1. IsNext("send")
      BY DEF async_send_in_thread
  <2>2. /\ 1 \in 1..Len(tasks) /\ tasks[1].op = "send" /\ Head(tasks) = tasks[1]
        /\ state_ # "INIT"
      BY <2>1, TakeHandler
  <2>3. QED
      BY <2>2, WriteTypes DEF SendsIn
<1>2. UNCHANGED <<state_, socket, peer, asked, written>>
    BY DEF async_send_in_thread, netVars, callVars
<1>3. CASE Writable
  <2>1. tasks' = Tail(tasks) /\ writing' = Append(writing, message)
      BY <1>1, <1>3 DEF async_send_in_thread, Writable, MessageAt
  <2>2. /\ message = Handed + 1 /\ Handed + 1 =< Len(asked)
        /\ InOrder(Tail(tasks), Handed + 1, Len(asked))
        /\ is_processing => AllPosted(Tail(tasks), Handed + 1, Len(asked))
    <3>1. InOrder(tasks, Handed, Len(asked))
        BY <1>3 DEF WritesInOrder
    <3>2. /\ message = Handed + 1 /\ Handed + 1 =< Len(asked)
          /\ InOrder(Tail(tasks), Handed + 1, Len(asked))
          /\ AllPosted(tasks, Handed, Len(asked)) =>
                AllPosted(Tail(tasks), Handed + 1, Len(asked))
        BY <1>1, <3>1, TakeInOrder
    <3>3. QED
        BY <1>3, <3>2 DEF WritesInOrder
  <2> HIDE DEF message
  <2>3. /\ Len(writing') = Len(writing) + 1
        /\ \A k \in 1..Len(writing) : writing'[k] = writing[k]
        /\ writing'[Len(writing) + 1] = Handed + 1
    <3>1. Handed + 1 \in Nat
        BY <1>1
    <3>2. QED
        BY <1>1, <2>1, <2>2, <3>1, AppendHandler
  <2>4. Handed' = Handed + 1
      BY <1>1, <1>2, <2>3 DEF Handed
  <2>5. \A k \in 1..Len(writing') : writing'[k] = Len(written) + k
    <3>1. \A k \in 1..Len(writing) : writing[k] = Len(written) + k
        BY <1>3 DEF WritesInOrder
    <3>2. Handed + 1 = Len(written) + (Len(writing) + 1)
        BY <1>1 DEF Handed
    <3>3. ASSUME NEW k \in 1..Len(writing) + 1
          PROVE  writing'[k] = Len(written) + k
      <4>1. CASE k = Len(writing) + 1
          BY <2>3, <3>2, <4>1
      <4>2. CASE k # Len(writing) + 1
        <5>1. k \in 1..Len(writing)
            BY <1>1, <4>2
        <5>2. QED
            BY <2>3, <3>1, <5>1
      <4>3. QED
          BY <4>1, <4>2
    <3>4. QED
        BY <2>3, <3>3
  <2>6. is_processing' <=> is_processing
      BY <1>2 DEF is_processing
  <2>7. InOrder(tasks', Handed', Len(asked'))
        /\ (is_processing' => AllPosted(tasks', Handed', Len(asked')))
      BY <1>2, <2>1, <2>2, <2>4, <2>6
  <2>8. QED
      BY <1>1, <1>2, <2>2, <2>4, <2>5, <2>7 DEF WritesInOrder
<1>4. CASE ~Writable
    BY <1>1, <1>2, <1>4 DEF WritesInOrder, Writable
<1>5. QED
    BY <1>3, <1>4

\* After a stop by close_in_thread() nothing is written.
LEMMA CloseOrder ==
    ASSUME NEW status, NEW queue, close_in_thread(status, queue), UNCHANGED peer
    PROVE  /\ Writable' => Writable /\ UNCHANGED writing
           /\ state_' \in {state_, "STOPPED"}
<1>1. CASE state_ = "STOPPED"
    BY <1>1 DEF close_in_thread, CloseSocket, Writable
<1>2. CASE state_ # "STOPPED"
    BY <1>2 DEF close_in_thread, CloseSocket, Writable
<1>3. QED
    BY <1>1, <1>2

\* Handlers that do not call back into the owner post no write.
LEMMA QuietKept ==
    ASSUME IInv, QuietHandler, ~async_send_in_thread
    PROVE  /\ Shifted(tasks', 1) /\ tasks # <<>> /\ Head(tasks).op # "send"
           /\ UNCHANGED <<asked, written>>
           /\ Writable' => Writable /\ UNCHANGED writing
           /\ state_' # "INIT" /\ (is_processing' => is_processing)
<1>1. /\ Shifted(tasks', 1) /\ UNCHANGED <<asked, written, peer>>
      /\ state_ # "INIT" /\ state_' \in {state_, "STOPPED"}
    BY QuietShifted, QuietStarted
<1>2. tasks # <<>> /\ Head(tasks).op # "send"
    BY DEF QuietHandler, RunReadNext, RunClose, ReadAborted, ReadPeerGone,
       ReadFailed, WriteAborted, WritePeerGone, WriteFailed, IsReadDone,
       IsWriteDone, IsNext
<1>3. Writable' => Writable /\ UNCHANGED writing
  <2>1. CASE RunClose
      BY <1>1, <2>1, CloseOrder DEF RunClose
  <2>2. CASE ~RunClose
      BY <1>1, <2>2 DEF QuietHandler, RunReadNext, ReadAborted,
         ReadPeerGone, ReadFailed, WriteAborted, WritePeerGone, WriteFailed,
         Ignore, ClosedByPeer, Throw, Writable
  <2>3. QED
      BY <2>1, <2>2
<1>4. state_' # "INIT" /\ (is_processing' => is_processing)
    BY <1>1 DEF is_processing
<1>5. QED
    BY <1>1, <1>2, <1>3, <1>4

\* So does the handler of a read.
LEMMA ProcessKept ==
    ASSUME IInv, NEW n, NEW closes \in Nat, process_read_bytes(n, closes)
    PROVE  /\ Shifted(tasks', 1) /\ tasks # <<>> /\ Head(tasks).op = "read_done"
           /\ UNCHANGED <<asked, written>>
           /\ Writable' => Writable /\ UNCHANGED writing
           /\ state_' # "INIT" /\ (is_processing' => is_processing)
<1>1. /\ Shifted(tasks', 1) /\ IsNext("read_done")
      /\ UNCHANGED <<asked, written, peer>>
    BY ProcessShifted DEF process_read_bytes, IsReadDone, netVars
<1>2. /\ Writable' => Writable /\ UNCHANGED writing
      /\ state_' \in {state_, "STOPPED"}
  <2>1. \/ \E status, queue : close_in_thread(status, queue)
        \/ UNCHANGED <<state_, socket, writing>>
      BY Zenon DEF process_read_bytes, ParseFails, ReadOn
  <2>2. QED
      BY <1>1, <2>1, CloseOrder DEF Writable
<1>3. state_ # "INIT" /\ tasks # <<>> /\ Head(tasks).op = "read_done"
    BY <1>1, TakeHandler DEF IsNext
<1>4. state_' # "INIT" /\ (is_processing' => is_processing)
    BY <1>2, <1>3 DEF is_processing
<1>5. QED
    BY <1>1, <1>2, <1>3, <1>4

\* Handlers that do not call back into the owner.
LEMMA QuietOrder ==
    ASSUME IInv, WritesInOrder, QuietHandler PROVE WritesInOrder'
<1>1. CASE async_send_in_thread
    BY <1>1, AsyncSendInThreadOrder
<1>2. CASE ~async_send_in_thread
    BY <1>2, QuietKept, WritesKept
<1>3. QED
    BY <1>1, <1>2

\* The handler of a read.
LEMMA ProcessOrder ==
    ASSUME IInv, WritesInOrder, NEW n, NEW closes \in Nat,
           process_read_bytes(n, closes)
    PROVE  WritesInOrder'
BY ProcessKept, WritesKept

\* A write that completes is the oldest one.
LEMMA WriteCompletesOrder ==
    ASSUME IInv, WritesInOrder, WriteCompletes PROVE WritesInOrder'
<1>1. /\ writing # <<>> /\ writing' = Tail(writing) /\ Head(writing) = writing[1]
      /\ Len(writing) >= 1 /\ Len(writing') = Len(writing) - 1
      /\ \A k \in 1..Len(writing') : writing'[k] = writing[k + 1]
      /\ Head(writing) \in Nat
    BY TailHandler, WriteTypes DEF WriteCompletes
<1>2. /\ tasks \in Seq(Handlers) /\ Len(writing) \in Nat /\ Len(written) \in Nat
      /\ written \in Seq(Nat) /\ Len(asked) \in Nat /\ Handed \in Nat
    BY WriteTypes
<1>3. /\ socket = "open" /\ state_ # "INIT"
      /\ UNCHANGED <<state_, socket, asked, peer>>
    BY <1>1 DEF IInv, TypeOK, ClosedSocketIsIdle, NotStarted, WriteCompletes,
       netVars, callVars
<1>4. PICK error \in {"none", "gone", "failed"} :
          /\ error = "gone" <=> peer = "reset"
          /\ error = "failed" <=> peer = "lost"
          /\ tasks' = Append(tasks, Handler("write_done", error, <<Head(writing)>>))
          /\ written' = IF error = "none"
                        THEN Append(written, Head(writing)) ELSE written
    BY DEF WriteCompletes
<1>5. CASE Writable
  <2>1. written' = Append(written, Head(writing))
      BY <1>4, <1>5 DEF Writable
  <2>2. writing[1] = Len(written) + 1 /\ Handed =< Len(asked)
        /\ \A k \in 1..Len(writing) : writing[k] = Len(written) + k
      BY <1>1, <1>2, <1>5 DEF WritesInOrder
  <2>3. /\ Len(written') = Len(written) + 1
        /\ \A k \in 1..Len(written) : written'[k] = written[k]
        /\ written'[Len(written) + 1] = Len(written) + 1
      BY <1>1, <1>2, <2>1, <2>2, AppendHandler
  <2>4. \A k \in 1..Len(written') : written'[k] = k
    <3>1. \A k \in 1..Len(written) : written[k] = k
        BY DEF WritesInOrder
    <3>2. QED
        BY <1>2, <2>3, <3>1
  <2>5. Handed' = Handed /\ Len(written') =< Len(asked)
      BY <1>1, <1>2, <2>2, <2>3 DEF Handed
  <2>6. \A k \in 1..Len(writing') : writing'[k] = Len(written') + k
    <3>1. \A k \in 1..Len(writing') : k + 1 \in 1..Len(writing)
        BY <1>1, <1>2
    <3>2. QED
        BY <1>1, <1>2, <2>2, <2>3, <3>1
  <2>7. /\ InOrder(tasks', Handed', Len(asked'))
        /\ is_processing' => AllPosted(tasks', Handed', Len(asked'))
    <3> DEFINE w == Handler("write_done", error, <<Head(writing)>>)
    <3>1. w \in Handlers /\ w.op = "write_done" /\ tasks' = Append(tasks, w)
        BY <1>1, <1>4, HandlerTypes, HandlerFields DEF Errors
    <3> HIDE DEF w
    <3>2. /\ Len(tasks') = Len(tasks) + 1 /\ Len(tasks) \in Nat
          /\ \A i \in 1..Len(tasks) : tasks'[i] = tasks[i]
          /\ tasks'[Len(tasks) + 1] = w /\ tasks' \in Seq(Handlers)
        BY <1>2, <3>1, AppendHandler
    <3>3. \A i \in SendsIn(tasks') : /\ i + 0 \in SendsIn(tasks)
                                     /\ tasks'[i] = tasks[i + 0]
        BY <3>1, <3>2 DEF SendsIn
    <3>4. \A j \in SendsIn(tasks) : /\ j - 0 \in SendsIn(tasks')
                                    /\ tasks[j] = tasks'[j - 0]
        BY <3>2 DEF SendsIn
    <3>5. InOrder(tasks, Handed, Len(asked))
        BY <1>5 DEF WritesInOrder
    <3>6. /\ InOrder(tasks', Handed, Len(asked))
          /\ AllPosted(tasks, Handed, Len(asked)) =>
                AllPosted(tasks', Handed, Len(asked))
        BY <1>2, <3>2, <3>3, <3>4, <3>5, MoveUpInOrder
    <3>7. is_processing' <=> is_processing
        BY <1>3 DEF is_processing
    <3>8. QED
        BY <1>3, <1>5, <2>5, <3>6, <3>7 DEF WritesInOrder
  <2>8. QED
      BY <1>2, <1>3, <2>2, <2>4, <2>5, <2>6, <2>7 DEF WritesInOrder
<1>6. CASE ~Writable
  <2>1. UNCHANGED written
      BY <1>3, <1>4, <1>6 DEF Writable, IInv, TypeOK, PeerFaults
  <2>2. ~Writable'
      BY <1>3, <1>6 DEF Writable
  <2>3. QED
      BY <1>3, <2>1, <2>2 DEF WritesInOrder
<1>7. QED
    BY <1>5, <1>6

\* The end of a read makes its handler ready.
LEMMA ReadCompletesQueue ==
    ASSUME IInv, ReadCompletes
    PROVE  /\ tasks \in Seq(Handlers) /\ tasks' \in Seq(Handlers)
           /\ Len(tasks') = Len(tasks) + 1 /\ Len(tasks) \in Nat
           /\ \A i \in 1..Len(tasks) : tasks'[i] = tasks[i]
           /\ tasks'[Len(tasks) + 1].op = "read_done"
<1>1. \A m \in taken..Len(inbound) :
          SubSeq(inbound, taken + 1, m) \in Seq(Items \cup {Bad})
    BY DEF IInv, TypeOK
<1>2. /\ <<>> \in Seq(Items \cup {Bad})
      /\ {"none", "gone", "failed"} \subseteq Errors
    BY DEF Errors
<1>3. PICK e \in Errors, data \in Seq(Items \cup {Bad}) :
          tasks' = Append(tasks, Handler("read_done", e, data))
    BY <1>1, <1>2, Zenon DEF ReadCompletes
<1>4. /\ Handler("read_done", e, data) \in Handlers
      /\ Handler("read_done", e, data).op = "read_done"
    BY HandlerTypes, HandlerFields
<1>5. QED
    BY <1>3, <1>4, AppendHandler, WriteTypes

\* The other steps of the network.
LEMMA NetworkOrder ==
    ASSUME IInv, WritesInOrder, Network, Len(writing) =< 1 PROVE WritesInOrder'
<1>1. ASSUME NEW item \in Items \cup {Bad}, PeerSend(item)
      PROVE  WritesInOrder'
    BY <1>1 DEF PeerSend, callVars, WritesInOrder, Writable, Handed, is_processing
<1>2. ASSUME NEW fault \in Faults, PeerFault(fault)
      PROVE  WritesInOrder'
  <2>1. UNCHANGED <<state_, socket, tasks, writing, asked, written>>
      BY <1>2 DEF PeerFault, callVars
  <2>2. Writable' => Writable
      BY <1>2 DEF PeerFault, Writable
  <2>3. /\ Handed' = Handed
        /\ is_processing' <=> is_processing
      BY <2>1 DEF Handed, is_processing
  <2>4. QED
      BY <2>1, <2>2, <2>3 DEF WritesInOrder
<1>3. CASE ReadCompletes
  <2>1. /\ tasks \in Seq(Handlers) /\ tasks' \in Seq(Handlers)
        /\ Len(tasks') = Len(tasks) + 1 /\ Len(tasks) \in Nat
        /\ \A i \in 1..Len(tasks) : tasks'[i] = tasks[i]
        /\ tasks'[Len(tasks) + 1].op = "read_done"
      BY <1>3, ReadCompletesQueue
  <2>2. /\ \A i \in SendsIn(tasks') : /\ i + 0 \in SendsIn(tasks)
                                      /\ tasks'[i] = tasks[i + 0]
        /\ \A j \in SendsIn(tasks) : /\ j - 0 \in SendsIn(tasks')
                                     /\ tasks[j] = tasks'[j - 0]
      BY <2>1 DEF SendsIn
  <2>3. /\ UNCHANGED <<state_, socket, peer, writing, asked, written>>
        /\ (Writable' <=> Writable) /\ Handed' = Handed
        /\ (is_processing' <=> is_processing)
      BY <1>3 DEF ReadCompletes, netVars, callVars, Writable, Handed, is_processing
  <2>4. Writable => /\ InOrder(tasks', Handed, Len(asked))
                    /\ AllPosted(tasks, Handed, Len(asked)) =>
                          AllPosted(tasks', Handed, Len(asked))
    <3>1. Writable => InOrder(tasks, Handed, Len(asked))
        BY DEF WritesInOrder
    <3>2. Handed \in Nat /\ Len(asked) \in Nat
        BY WriteTypes
    <3>3. QED
        BY <2>1, <2>2, <3>1, <3>2, MoveUpInOrder
  <2>5. QED
      BY <2>3, <2>4 DEF WritesInOrder
<1>4. ~WritePart
    BY WriteTypes DEF WritePart
<1>5. QED
    BY <1>1, <1>2, <1>3, <1>4, WriteCompletesOrder DEF Network

\* async_close() posts no write, and the end of a write neither.
LEMMA AsyncCloseKept ==
    ASSUME IInv, async_close
    PROVE  /\ Shifted(tasks', 0) /\ UNCHANGED <<asked, written, writing, state_>>
           /\ (Writable' <=> Writable) /\ (is_processing' <=> is_processing)
<1> DEFINE w == Handler("close", "none", <<>>)
<1>1. w \in Handlers /\ Fresh(w)
    BY HandlerTypes, HandlerFields DEF Fresh, HandsOver
<1>2. tasks' = Append(tasks, w)
    BY DEF async_close
<1> HIDE DEF w
<1>3. Shifted(tasks', 0)
    BY <1>1, <1>2, SameShifted, OneShifted, WriteTypes
<1>4. QED
    BY <1>3 DEF async_close, netVars, Writable, is_processing

LEMMA OnSentKept ==
    ASSUME IInv, on_sent
    PROVE  /\ Shifted(tasks', 1) /\ tasks # <<>> /\ Head(tasks).op # "send"
           /\ UNCHANGED <<asked, written, writing, state_>>
           /\ (Writable' <=> Writable) /\ (is_processing' <=> is_processing)
<1>1. IsNext("write_done") /\ tasks' = Tail(tasks)
    BY DEF on_sent, IsWriteDone, Ignore
<1>2. Shifted(tasks', 1) /\ tasks # <<>> /\ Head(tasks).op # "send"
    BY <1>1, TailShifted DEF IsNext
<1>3. QED
    BY <1>2 DEF on_sent, Ignore, netVars, callVars, Writable, is_processing

\* Before anything is sent.
LEMMA InitOrder == Init => WritesInOrder
<1> SUFFICES ASSUME Init PROVE WritesInOrder
    OBVIOUS
<1>1. /\ Len(asked) = 0 /\ Len(written) = 0 /\ Len(writing) = 0
      /\ SendsIn(tasks) = {} /\ ~is_processing /\ asked = <<>>
    BY DEF Init, SendsIn, is_processing
<1>2. QED
    BY <1>1 DEF WritesInOrder, InOrder, Handed

\* A step keeps the order as long as no two writes are outstanding.
LEMMA NextOrder ==
    ASSUME IInv, WritesInOrder, Len(writing) =< 1, [Next]_vars
    PROVE  WritesInOrder'
<1>1. CASE start
  <2>1. /\ state_ = "INIT" /\ state_' = "PROCESSING" /\ asked = <<>>
        /\ tasks = <<>> /\ writing = <<>> /\ Len(written) = 0
        /\ UNCHANGED <<asked, written, writing>>
      BY <1>1, WriteTypes DEF start, WritesInOrder, callVars, IInv, NotStarted
  <2>2. SendsIn(tasks') = {}
    <3>1. /\ Len(tasks') = 1
          /\ tasks'[1] = Handler("read_next", "none", <<>>)
        BY <1>1, <2>1 DEF start
    <3>2. QED
        BY <3>1, HandlerFields DEF SendsIn
  <2>3. QED
      BY <2>1, <2>2 DEF WritesInOrder, InOrder, AllPosted, Handed
<1>2. CASE async_send(Len(asked) + 1)
    BY <1>2, AsyncSendOrder
<1>3. CASE async_close
    BY <1>3, AsyncCloseKept, WritesKept
<1>4. CASE QuietHandler
    BY <1>4, QuietOrder
<1>5. CASE \E n \in 0..Len(inbound) : process_read_bytes(n, 0)
    BY <1>5, ProcessOrder
<1>6. CASE on_sent
    BY <1>6, OnSentKept, WritesKept
<1>7. CASE Network
    BY <1>7, NetworkOrder
<1>8. CASE UNCHANGED vars
    BY <1>8 DEF vars, WritesInOrder, Writable, Handed, is_processing
<1>9. QED
    BY <1>1, <1>2, <1>3, <1>4, <1>5, <1>6, <1>7, <1>8 DEF Next, Owner, Thread

\* A write that starts beside another is noted, for good.
LEMMA NextOverlap ==
    ASSUME IInv, [Next]_vars
    PROVE  /\ overlapped => overlapped'
           /\ Len(writing) =< 1 /\ ~overlapped' => Len(writing') =< 1
<1> USE DEF netVars, callVars
<1>1. CASE UNCHANGED <<writing, overlapped>>
    BY <1>1
<1>2. CASE async_send_in_thread
  <2>1. CASE socket = "open"
    <3> DEFINE message == Head(Head(tasks).data)
    <3>1. /\ writing' = Append(writing, message)
          /\ overlapped' = IF writing = <<>> THEN overlapped ELSE TRUE
        BY <1>2, <2>1 DEF async_send_in_thread
    <3> HIDE DEF message
    <3>2. writing = <<>> => Len(writing') = 1
        BY <3>1
    <3>3. QED
        BY <3>1, <3>2
  <2>2. CASE socket # "open"
      BY <1>2, <2>2 DEF async_send_in_thread
  <2>3. QED
      BY <2>1, <2>2
<1>3. CASE WriteCompletes
  <2>1. /\ writing \in Seq(Nat) /\ writing # <<>> /\ writing' = Tail(writing)
        /\ UNCHANGED overlapped
      BY <1>3, WriteTypes DEF WriteCompletes
  <2>2. Len(writing') = Len(writing) - 1 /\ Len(writing) \in Nat
      BY <2>1, TailHandler
  <2>3. QED
      BY <2>1, <2>2
<1>4. CASE WritePart
    BY <1>4, WritePartType
<1>5. CASE \E status, queue : close_in_thread(status, queue) /\ UNCHANGED overlapped
  <2>1. PICK status, queue : close_in_thread(status, queue) /\ UNCHANGED overlapped
      BY <1>5
  <2>2. UNCHANGED writing \/ Len(writing') = 0
      BY <2>1 DEF close_in_thread, CloseSocket, cancel
  <2>3. QED
      BY <2>1, <2>2
<1>6. CASE start \/ async_close \/ \E message : async_send(message)
    BY <1>1, <1>6, Zenon DEF start, async_close, async_send
<1>7. CASE QuietHandler
  <2>1. CASE RunClose
      BY <1>5, <2>1 DEF RunClose
  <2>2. CASE ~RunClose /\ ~async_send_in_thread
      BY <1>1, <1>7, <2>2 DEF QuietHandler, RunReadNext, ReadAborted,
         ReadPeerGone, ReadFailed, WriteAborted, WritePeerGone, WriteFailed,
         Ignore, ClosedByPeer, Throw
  <2>3. QED
      BY <1>2, <2>1, <2>2
<1>8. CASE \E n \in 0..Len(inbound) : process_read_bytes(n, 0)
    BY <1>1, <1>5, <1>8, Zenon DEF process_read_bytes, ParseFails, ReadOn
<1>9. CASE on_sent
    BY <1>1, <1>9 DEF on_sent, Ignore
<1>10. CASE Network /\ ~WriteCompletes /\ ~WritePart
    BY <1>1, <1>10 DEF Network, PeerSend, PeerFault, ReadCompletes
<1>11. CASE UNCHANGED vars
    BY <1>1, <1>11 DEF vars
<1>12. QED
    BY <1>3, <1>4, <1>6, <1>7, <1>8, <1>9, <1>10, <1>11
    DEF Next, Owner, Thread

\* No two writes have overlapped so far, and the order has been kept.
OrderedSoFar == overlapped \/ (WritesInOrder /\ Len(writing) =< 1)

\* As long as the owner starts no write while another is outstanding, the
\* messages are written whole and in the order of the calls of async_send(), each
\* once and none left out, whatever happens to the peer and whenever the
\* connection is closed (async_send() and async_send_in_thread()).
THEOREM WritesKeepOrder == Spec => []WrittenInOrder
<1>1. Init => OrderedSoFar
  <2> SUFFICES ASSUME Init PROVE OrderedSoFar
      OBVIOUS
  <2>1. Len(writing) = 0
      BY DEF Init
  <2>2. QED
      BY <2>1, InitOrder DEF OrderedSoFar
<1>2. IInv /\ OrderedSoFar /\ [Next]_vars => OrderedSoFar'
    BY NextOrder, NextOverlap DEF OrderedSoFar
<1>3. IInv /\ OrderedSoFar => WrittenInOrder
  <2> SUFFICES ASSUME IInv, OrderedSoFar, ~overlapped
               PROVE  /\ Len(written) =< Len(asked)
                      /\ \A i \in 1..Len(written) : written[i] = asked[i]
      BY DEF WrittenInOrder
  <2>1. Len(written) \in Nat /\ Len(asked) \in Nat /\ WritesInOrder
      BY WriteTypes DEF OrderedSoFar
  <2>2. QED
      BY <2>1 DEF WritesInOrder
<1>4. QED
    BY <1>1, <1>2, <1>3, SpecIInv, PTL DEF Spec

-----------------------------------------------------------------------------
(* What makes a handler throw.                                             *)

\* The peer or the path to it broke, or a message met a closed socket.
Cause == peer \in {"reset", "lost"} \/ (socket = "closed" /\ asked # <<>>)

\* A handler that will throw has a cause, and a posted write was asked for.
ThrowsJustified ==
    /\ thrown => Cause
    /\ \A i \in 1..Len(tasks) :
        /\ tasks[i].error = "failed" => Cause
        /\ tasks[i].op = "send" => asked # <<>>

\* A step that takes handlers and adds fresh ones.
LEMMA ShiftedJustified ==
    ASSUME IInv, ThrowsJustified, NEW d \in {0, 1}, Shifted(tasks', d),
           Cause => Cause', asked # <<>> => asked' # <<>>,
           thrown' => thrown \/ Cause'
    PROVE  ThrowsJustified'
<1>1. tasks \in Seq(Handlers) /\ tasks' \in Seq(Handlers) /\ Len(tasks) \in Nat
    BY WriteTypes DEF Shifted
<1>2. ASSUME NEW i \in 1..Len(tasks')
      PROVE  /\ tasks'[i].error = "failed" => Cause'
             /\ tasks'[i].op = "send" => asked' # <<>>
  <2>1. CASE i + d =< Len(tasks)
    <3>1. i \in 1..Len(tasks) - d /\ i + d \in 1..Len(tasks)
        BY <1>1, <2>1
    <3>2. /\ tasks'[i] = tasks[i + d]
          /\ tasks[i + d].error = "failed" => Cause
          /\ tasks[i + d].op = "send" => asked # <<>>
        BY <3>1 DEF Shifted, ThrowsJustified
    <3>3. QED
        BY <3>2
  <2>2. CASE ~(i + d =< Len(tasks))
    <3>1. Fresh(tasks'[i])
        BY <2>2 DEF Shifted
    <3>2. ASSUME tasks # <<>>, Head(tasks).op = "send" PROVE asked # <<>>
      <4>1. 1 \in 1..Len(tasks) /\ Head(tasks) = tasks[1]
          BY <1>1, <3>2, TailHandler
      <4>2. QED
          BY <3>2, <4>1 DEF ThrowsJustified
    <3>3. QED
        BY <3>1, <3>2 DEF Fresh, Cause
  <2>3. QED
      BY <2>1, <2>2
<1>3. thrown' => Cause'
    BY DEF ThrowsJustified
<1>4. QED
    BY <1>2, <1>3 DEF ThrowsJustified

\* A step that adds one handler.
LEMMA AppendJustified ==
    ASSUME IInv, ThrowsJustified, NEW h \in Handlers,
           h.error = "failed" => Cause', h.op = "send" => asked' # <<>>,
           tasks' = Append(tasks, h), UNCHANGED thrown,
           Cause => Cause', asked # <<>> => asked' # <<>>
    PROVE  ThrowsJustified'
<1>1. /\ tasks \in Seq(Handlers) /\ Len(tasks') = Len(tasks) + 1
      /\ \A i \in 1..Len(tasks) : tasks'[i] = tasks[i]
      /\ tasks'[Len(tasks) + 1] = h /\ Len(tasks) \in Nat
    BY WriteTypes, AppendHandler
<1>2. ASSUME NEW i \in 1..Len(tasks')
      PROVE  /\ tasks'[i].error = "failed" => Cause'
             /\ tasks'[i].op = "send" => asked' # <<>>
  <2>1. CASE i = Len(tasks) + 1
      BY <1>1, <2>1
  <2>2. CASE i # Len(tasks) + 1
    <3>1. i \in 1..Len(tasks) /\ tasks'[i] = tasks[i]
        BY <1>1, <2>2
    <3>2. /\ tasks[i].error = "failed" => Cause
          /\ tasks[i].op = "send" => asked # <<>>
        BY <3>1 DEF ThrowsJustified
    <3>3. QED
        BY <3>1, <3>2
  <2>3. QED
      BY <2>1, <2>2
<1>3. thrown' => Cause'
    BY DEF ThrowsJustified
<1>4. QED
    BY <1>2, <1>3 DEF ThrowsJustified

\* shutdown() throws only when the peer has reset the connection: a second close
\* finds the connection stopped.
LEMMA CloseThrows ==
    ASSUME IInv, NEW status, NEW queue, close_in_thread(status, queue),
           UNCHANGED <<peer, asked>>
    PROVE  /\ thrown' => thrown \/ Cause'
           /\ Cause => Cause'
<1>1. state_ # "STOPPED" => socket # "closed"
    BY DEF IInv, ClosedSocketIsIdle
<1>2. QED
    BY <1>1 DEF close_in_thread, CloseSocket, Cause

\* Handlers that do not call back into the owner.
LEMMA QuietJustified ==
    ASSUME IInv, ThrowsJustified, QuietHandler PROVE ThrowsJustified'
<1>1. Shifted(tasks', 1) /\ UNCHANGED <<asked, peer>>
    BY QuietShifted
<1>2. CASE RunClose
  <2>1. (thrown' => thrown \/ Cause') /\ (Cause => Cause')
      BY <1>1, <1>2, CloseThrows DEF RunClose
  <2>2. QED
      BY <1>1, <2>1, ShiftedJustified
<1>3. CASE ~RunClose
  <2>1. UNCHANGED socket
      BY <1>3 DEF QuietHandler, RunReadNext, async_send_in_thread, ReadAborted,
         ReadPeerGone, ReadFailed, WriteAborted, WritePeerGone, WriteFailed,
         Ignore, ClosedByPeer, Throw
  <2>2. Cause' <=> Cause
      BY <1>1, <2>1 DEF Cause
  <2>3. CASE ReadFailed \/ WriteFailed
    <3>1. tasks # <<>> /\ Head(tasks).error = "failed"
        BY <2>3 DEF ReadFailed, WriteFailed, IsReadDone, IsWriteDone, IsNext
    <3>2. 1 \in 1..Len(tasks) /\ Head(tasks) = tasks[1]
        BY <3>1, TailHandler, WriteTypes
    <3>3. Cause
        BY <3>1, <3>2 DEF ThrowsJustified
    <3>4. QED
        BY <1>1, <2>2, <3>3, ShiftedJustified
  <2>4. CASE ~ReadFailed /\ ~WriteFailed
    <3>1. UNCHANGED thrown
        BY <1>3, <2>4 DEF QuietHandler, RunReadNext, async_send_in_thread,
           ReadAborted, ReadPeerGone, WriteAborted, WritePeerGone, Ignore,
           ClosedByPeer
    <3>2. QED
        BY <1>1, <2>2, <3>1, ShiftedJustified
  <2>5. QED
      BY <2>3, <2>4
<1>4. QED
    BY <1>2, <1>3

\* The handler of a read.
LEMMA ProcessJustified ==
    ASSUME IInv, ThrowsJustified, NEW n, NEW closes \in Nat,
           process_read_bytes(n, closes)
    PROVE  ThrowsJustified'
<1>1. Shifted(tasks', 1) /\ UNCHANGED <<asked, peer>>
    BY ProcessShifted DEF process_read_bytes, netVars
<1>2. \/ \E status, queue : close_in_thread(status, queue)
      \/ UNCHANGED <<socket, thrown>>
    BY Zenon DEF process_read_bytes, ParseFails, ReadOn
<1>3. CASE \E status, queue : close_in_thread(status, queue)
  <2>1. (thrown' => thrown \/ Cause') /\ (Cause => Cause')
      BY <1>1, <1>3, CloseThrows
  <2>2. QED
      BY <1>1, <2>1, ShiftedJustified
<1>4. CASE UNCHANGED <<socket, thrown>>
  <2>1. (thrown' => thrown) /\ (Cause' <=> Cause)
      BY <1>1, <1>4 DEF Cause
  <2>2. QED
      BY <1>1, <2>1, ShiftedJustified
<1>5. QED
    BY <1>2, <1>3, <1>4

\* The end of an operation on the socket fails only for the peer's fault.
LEMMA CompletionJustified ==
    ASSUME IInv, ThrowsJustified, ReadCompletes \/ WriteCompletes
    PROVE  ThrowsJustified'
<1>1. UNCHANGED <<socket, peer, asked, thrown>>
    BY DEF ReadCompletes, WriteCompletes, netVars, callVars
<1>2. Cause' <=> Cause
    BY <1>1 DEF Cause
<1>3. \E h \in Handlers : /\ tasks' = Append(tasks, h) /\ h.op # "send"
                          /\ h.error = "failed" => peer = "lost"
  <2>1. CASE WriteCompletes
    <3>1. PICK e \in {"none", "gone", "failed"} :
            /\ e = "failed" <=> peer = "lost"
            /\ tasks' = Append(tasks, Handler("write_done", e, <<Head(writing)>>))
        BY <2>1 DEF WriteCompletes
    <3>2. Head(writing) \in Nat
        BY <2>1, TailHandler, WriteTypes DEF WriteCompletes
    <3>3. /\ Handler("write_done", e, <<Head(writing)>>) \in Handlers
          /\ Handler("write_done", e, <<Head(writing)>>).op # "send"
          /\ Handler("write_done", e, <<Head(writing)>>).error = e
        BY <3>2, HandlerTypes, HandlerFields DEF Errors
    <3>4. QED
        BY <3>1, <3>3
  <2>2. CASE ReadCompletes
    <3>1. /\ \A m \in taken..Len(inbound) :
                SubSeq(inbound, taken + 1, m) \in Seq(Items \cup {Bad})
          /\ <<>> \in Seq(Items \cup {Bad})
        BY DEF IInv, TypeOK
    <3>2. \E e \in Errors, data \in Seq(Items \cup {Bad}) :
            /\ tasks' = Append(tasks, Handler("read_done", e, data))
            /\ e = "failed" => peer = "lost"
      <4>1. {"none", "gone", "failed"} \subseteq Errors
          BY DEF Errors
      <4>2. "none" # "failed" /\ "gone" # "failed"
          OBVIOUS
      <4>3. QED
          BY <2>2, <3>1, <4>1, <4>2, Zenon DEF ReadCompletes
    <3>3. PICK e \in Errors, data \in Seq(Items \cup {Bad}) :
            /\ tasks' = Append(tasks, Handler("read_done", e, data))
            /\ e = "failed" => peer = "lost"
        BY <3>2
    <3>4. /\ Handler("read_done", e, data) \in Handlers
          /\ Handler("read_done", e, data).op # "send"
          /\ Handler("read_done", e, data).error = e
        BY HandlerTypes, HandlerFields
    <3>5. QED
        BY <3>3, <3>4
  <2>3. QED
      BY <2>1, <2>2
<1>4. PICK h \in Handlers : /\ tasks' = Append(tasks, h) /\ h.op # "send"
                            /\ h.error = "failed" => peer = "lost"
    BY <1>3
<1>5. h.error = "failed" => Cause'
    BY <1>1, <1>4 DEF Cause
<1>6. QED
    BY <1>1, <1>2, <1>4, <1>5, AppendJustified

\* A step of the network.
LEMMA NetworkJustified ==
    ASSUME IInv, ThrowsJustified, Network PROVE ThrowsJustified'
<1>1. CASE ReadCompletes \/ WriteCompletes
    BY <1>1, CompletionJustified
<1>2. CASE ~ReadCompletes /\ ~WriteCompletes
  <2>1. /\ UNCHANGED <<tasks, thrown, asked, socket>>
        /\ UNCHANGED peer \/ peer \in {"up", "fin"}
      BY <1>2, WritePartType DEF Network, PeerSend, PeerFault, callVars
  <2>2. Cause => Cause'
      BY <2>1 DEF Cause
  <2>3. QED
      BY <2>1, <2>2 DEF ThrowsJustified
<1>3. QED
    BY <1>1, <1>2

\* The calls of the owner.
LEMMA OwnerJustified ==
    ASSUME IInv, ThrowsJustified, start \/ async_close \/ async_send(Len(asked) + 1)
    PROVE  ThrowsJustified'
<1> USE DEF netVars, callVars
<1>1. CASE start \/ async_close
  <2>1. /\ UNCHANGED <<socket, peer, asked, thrown>>
        /\ \E h \in {Handler("read_next", "none", <<>>),
                     Handler("close", "none", <<>>)} : tasks' = Append(tasks, h)
      BY <1>1 DEF start, async_close
  <2>2. PICK h \in Handlers : /\ tasks' = Append(tasks, h)
                              /\ h.op # "send" /\ h.error # "failed"
      BY <2>1, HandlerTypes, HandlerFields
  <2>3. Cause' <=> Cause
      BY <2>1 DEF Cause
  <2>4. QED
      BY <2>1, <2>2, <2>3, AppendJustified
<1>2. CASE async_send(Len(asked) + 1)
  <2> DEFINE n == Len(asked) + 1
             h == Handler("send", "none", <<n>>)
  <2>1. n \in Nat /\ asked \in Seq(Nat)
      BY WriteTypes
  <2>2. /\ UNCHANGED <<socket, peer, thrown>> /\ asked' = Append(asked, n)
        /\ tasks' = IF is_processing THEN Append(tasks, h) ELSE tasks
      BY <1>2 DEF async_send
  <2>3. h \in Handlers /\ h.error = "none"
      BY <2>1, HandlerTypes, HandlerFields
  <2> HIDE DEF n, h
  <2>4. asked' # <<>>
      BY <2>1, <2>2, ReportStatus
  <2>5. Cause => Cause'
      BY <2>2, <2>4 DEF Cause
  <2>6. CASE is_processing
      BY <2>2, <2>3, <2>4, <2>5, <2>6, AppendJustified
  <2>7. CASE ~is_processing
      BY <2>2, <2>4, <2>5, <2>7 DEF ThrowsJustified
  <2>8. QED
      BY <2>6, <2>7
<1>3. QED
    BY <1>1, <1>2

\* A handler throws only for a fault of the peer or a message that met a closed
\* socket: no order of closes, reads and parse errors alone makes
\* close_in_thread() or the end of a read throw.
THEOREM ThrowsAreCaused == Spec => []ThrowsForCause
<1>1. Init => ThrowsJustified
  <2> SUFFICES ASSUME Init PROVE ThrowsJustified
      OBVIOUS
  <2>1. Len(tasks) = 0 /\ ~thrown
      BY DEF Init
  <2>2. QED
      BY <2>1 DEF ThrowsJustified
<1>2. IInv /\ ThrowsJustified /\ [Next]_vars => ThrowsJustified'
  <2> SUFFICES ASSUME IInv, ThrowsJustified, [Next]_vars PROVE ThrowsJustified'
      OBVIOUS
  <2>1. CASE Owner
      BY <2>1, OwnerJustified DEF Owner
  <2>2. CASE QuietHandler
      BY <2>2, QuietJustified
  <2>3. CASE \E n \in 0..Len(inbound) : process_read_bytes(n, 0)
      BY <2>3, ProcessJustified
  <2>4. CASE on_sent
    <3>1. Shifted(tasks', 1) /\ UNCHANGED <<asked, peer, socket, thrown>>
        BY <2>4, OnSentKept DEF on_sent, Ignore, netVars
    <3>2. Cause' <=> Cause
        BY <3>1 DEF Cause
    <3>3. QED
        BY <3>1, <3>2, ShiftedJustified
  <2>5. CASE Network
      BY <2>5, NetworkJustified
  <2>6. CASE UNCHANGED vars
      BY <2>6 DEF vars, ThrowsJustified, Cause
  <2>7. QED
      BY <2>1, <2>2, <2>3, <2>4, <2>5, <2>6 DEF Next, Thread
<1>3. ThrowsJustified => ThrowsForCause
    BY DEF ThrowsJustified, Cause, ThrowsForCause
<1>4. QED
    BY <1>1, <1>2, <1>3, SpecIInv, PTL DEF Spec

-----------------------------------------------------------------------------
(* An owner that sends one message at a time, whatever its messages are.   *)

\* A message is posted or being written.
Pending == writing # <<>> \/ SendsIn(tasks) # {}

\* What was written is the first part of what was passed to async_send(); as
\* long as anything can be written, a message that is pending is the next one,
\* and the only one while the connection is processing.
OneInOrder ==
    /\ state_ = "INIT" => asked = <<>>
    /\ Len(written) =< Len(asked)
    /\ \A i \in 1..Len(written) : written[i] = asked[i]
    /\ Writable =>
        /\ Pending => Len(written) < Len(asked)
        /\ \A i \in 1..Len(writing) : writing[i] = asked[Len(written) + 1]
        /\ \A i \in SendsIn(tasks) :
                MessageAt(tasks, i) = asked[Len(written) + 1]
        /\ is_processing =>
                /\ Len(asked) =< Len(written) + 1
                /\ ~Pending => Len(asked) = Len(written)

\* A step that posts, starts and ends no write.
LEMMA OneKept ==
    ASSUME IInv, OneInOrder, NEW d \in {0, 1}, Shifted(tasks', d),
           d = 1 => tasks # <<>> /\ Head(tasks).op # "send",
           UNCHANGED <<asked, written>>,
           Writable' => Writable /\ UNCHANGED writing,
           state_' = "INIT" => state_ = "INIT",
           is_processing' => is_processing
    PROVE  OneInOrder'
<1>1. /\ \A i \in SendsIn(tasks') : /\ i + d \in SendsIn(tasks)
                                    /\ tasks'[i] = tasks[i + d]
      /\ \A j \in SendsIn(tasks) : j - d \in SendsIn(tasks')
    BY SendsShifted
<1>2. Writable' => (Pending' <=> Pending)
    BY <1>1 DEF Pending
<1>3. \A i \in SendsIn(tasks') : /\ i + d \in SendsIn(tasks)
                                 /\ MessageAt(tasks', i) = MessageAt(tasks, i + d)
    BY <1>1 DEF MessageAt
<1>4. QED
    BY <1>2, <1>3 DEF OneInOrder

\* A message is passed to async_send() when none is pending.
LEMMA AsyncSendOne ==
    ASSUME IInv, OneInOrder, NoWrite, NEW message \in Nat, async_send(message)
    PROVE  OneInOrder'
<1> DEFINE w == Handler("send", "none", <<message>>)
<1>1. /\ asked \in Seq(Nat) /\ Len(asked) \in Nat /\ Len(written) \in Nat
      /\ tasks \in Seq(Handlers)
    BY WriteTypes
<1>2. /\ asked' = Append(asked, message) /\ state_' # "INIT"
      /\ UNCHANGED <<writing, written, socket, peer, state_>>
    BY DEF async_send, netVars
<1>3. /\ Len(asked') = Len(asked) + 1
      /\ \A k \in 1..Len(asked) : asked'[k] = asked[k]
      /\ asked'[Len(asked) + 1] = message
    BY <1>1, <1>2, AppendHandler
<1>4. /\ w \in Handlers /\ w.op = "send" /\ Head(w.data) = message
      /\ tasks' = IF is_processing THEN Append(tasks, w) ELSE tasks
    BY HandlerTypes, HandlerFields DEF async_send
<1> HIDE DEF w
<1>5. writing = <<>> /\ SendsIn(tasks) = {} /\ ~Pending
    BY DEF NoWrite, WriteHandlers, WriteOps, SendsIn, Pending
<1>6. /\ Writable' <=> Writable
      /\ is_processing' <=> is_processing
    BY <1>2 DEF Writable, is_processing
<1>7. /\ Len(written') =< Len(asked')
      /\ \A i \in 1..Len(written') : written'[i] = asked'[i]
    BY <1>1, <1>2, <1>3 DEF OneInOrder
<1>8. CASE is_processing
  <2>1. SendsIn(tasks') = {Len(tasks) + 1} /\ tasks'[Len(tasks) + 1] = w
    <3>1. /\ Len(tasks') = Len(tasks) + 1 /\ Len(tasks) \in Nat
          /\ \A i \in 1..Len(tasks) : tasks'[i] = tasks[i]
          /\ tasks'[Len(tasks) + 1] = w
        BY <1>1, <1>4, <1>8, AppendHandler
    <3>2. QED
        BY <1>4, <1>5, <3>1 DEF SendsIn
  <2>2. \A i \in SendsIn(tasks') : MessageAt(tasks', i) = message
      BY <1>4, <2>1 DEF MessageAt
  <2>3. Writable => Len(asked) = Len(written)
      BY <1>5, <1>8 DEF OneInOrder
  <2>4. Pending'
      BY <2>1 DEF Pending
  <2>5. Len(writing') = 0
      BY <1>2, <1>5
  <2>6. QED
      BY <1>1, <1>2, <1>3, <1>6, <1>7, <2>2, <2>3, <2>4, <2>5 DEF OneInOrder
<1>9. CASE ~is_processing
  <2>1. tasks' = tasks /\ ~Pending' /\ SendsIn(tasks') = {}
      BY <1>2, <1>4, <1>5, <1>9 DEF Pending
  <2>2. Len(writing') = 0
      BY <1>2, <1>5
  <2>3. QED
      BY <1>2, <1>6, <1>7, <1>9, <2>1, <2>2 DEF OneInOrder
<1>10. QED
    BY <1>8, <1>9

\* The posted write runs.
LEMMA AsyncSendInThreadOne ==
    ASSUME IInv, OneInOrder, OneWrite, async_send_in_thread PROVE OneInOrder'
<1> DEFINE message == Head(Head(tasks).data)
<1>1. /\ IsNext("send") /\ "send" \in WriteOps
      /\ UNCHANGED <<state_, socket, peer, asked, written>>
    BY DEF async_send_in_thread, WriteOps, netVars, callVars
<1>2. /\ WriteHandlers = {1} /\ writing = <<>>
      /\ 1 \in SendsIn(tasks) /\ Head(tasks) = tasks[1] /\ state_ # "INIT"
    BY <1>1, OnlyWrite, TakeHandler DEF SendsIn
<1>3. /\ Writable' <=> Writable
      /\ is_processing' <=> is_processing
    BY <1>1 DEF Writable, is_processing
<1>4. CASE Writable
  <2>1. tasks' = Tail(tasks) /\ writing' = Append(writing, message)
      BY <1>4 DEF async_send_in_thread, Writable
  <2>2. SendsIn(tasks') = {}
    <3>1. \A i \in WriteHandlers' : i + 1 \in WriteHandlers /\ i >= 1 /\ i \in Nat
        BY <1>1, <2>1, TakeWrite
    <3>2. WriteHandlers' = {}
        BY <1>2, <3>1
    <3>3. QED
        BY <3>2 DEF WriteHandlers, SendsIn, WriteOps
  <2>3. message = asked[Len(written) + 1] /\ Pending
      BY <1>2, <1>4 DEF OneInOrder, MessageAt, Pending
  <2> HIDE DEF message
  <2>4. Len(writing') = 1 /\ writing'[1] = message
      BY <1>2, <2>1
  <2>5. Pending'
      BY <2>4 DEF Pending
  <2>6. QED
      BY <1>1, <1>2, <1>3, <1>4, <2>2, <2>3, <2>4, <2>5 DEF OneInOrder
<1>5. CASE ~Writable
    BY <1>1, <1>2, <1>3, <1>5 DEF OneInOrder
<1>6. QED
    BY <1>4, <1>5

\* Handlers that do not call back into the owner.
LEMMA QuietOne ==
    ASSUME IInv, OneInOrder, OneWrite, QuietHandler PROVE OneInOrder'
<1>1. CASE async_send_in_thread
    BY <1>1, AsyncSendInThreadOne
<1>2. CASE ~async_send_in_thread
    BY <1>2, QuietKept, OneKept
<1>3. QED
    BY <1>1, <1>2

\* The handler of a read.
LEMMA ProcessOne ==
    ASSUME IInv, OneInOrder, NEW n, NEW closes \in Nat,
           process_read_bytes(n, closes)
    PROVE  OneInOrder'
BY ProcessKept, OneKept

\* The write that completes is that of the next message.
LEMMA WriteCompletesOne ==
    ASSUME IInv, OneInOrder, OneWrite, WriteCompletes PROVE OneInOrder'
<1>1. /\ WriteHandlers = {} /\ writing # <<>> /\ Len(writing) = 1
      /\ Head(writing) = writing[1] /\ writing' = Tail(writing)
      /\ Head(writing) \in Nat
  <2>1. writing # <<>> /\ writing' = Tail(writing)
      BY DEF WriteCompletes
  <2>2. /\ Len(writing) >= 1 /\ Len(writing) \in Nat
        /\ Head(writing) = writing[1] /\ Head(writing) \in Nat
      BY <2>1, TailHandler, WriteTypes
  <2>3. WriteHandlers = {} /\ Len(writing) =< 1
      BY <2>1, Zenon DEF OneWrite
  <2>4. Len(writing) = 1
      BY <2>2, <2>3, One, Zenon
  <2>5. QED
      BY <2>1, <2>2, <2>3, <2>4, Zenon
<1>2. writing' = <<>> /\ Len(writing') = 0
  <2>1. writing' \in Seq(Nat) /\ Len(writing') = 0
      BY <1>1, TailHandler, WriteTypes
  <2>2. QED
      BY <2>1
<1>3. /\ socket = "open" /\ state_ # "INIT"
      /\ UNCHANGED <<state_, socket, asked, peer>>
    BY <1>1 DEF IInv, TypeOK, ClosedSocketIsIdle, NotStarted, WriteCompletes,
       netVars, callVars
<1>4. PICK error \in {"none", "gone", "failed"} :
          /\ error = "gone" <=> peer = "reset"
          /\ error = "failed" <=> peer = "lost"
          /\ tasks' = Append(tasks, Handler("write_done", error, <<Head(writing)>>))
          /\ written' = IF error = "none"
                        THEN Append(written, Head(writing)) ELSE written
    BY DEF WriteCompletes
<1>5. SendsIn(tasks') = {} /\ ~Pending'
  <2> DEFINE w == Handler("write_done", error, <<Head(writing)>>)
  <2>1. w \in Handlers /\ w.op = "write_done" /\ tasks' = Append(tasks, w)
      BY <1>1, <1>4, HandlerTypes, HandlerFields DEF Errors
  <2> HIDE DEF w
  <2>2. /\ Len(tasks') = Len(tasks) + 1 /\ Len(tasks) \in Nat
        /\ \A i \in 1..Len(tasks) : tasks'[i] = tasks[i]
        /\ tasks'[Len(tasks) + 1] = w
      BY <2>1, AppendHandler, WriteTypes
  <2>3. SendsIn(tasks') = {}
      BY <1>1, <2>1, <2>2 DEF SendsIn, WriteHandlers, WriteOps
  <2>4. QED
      BY <1>2, <2>3 DEF Pending
<1>6. /\ Writable' <=> Writable
      /\ is_processing' <=> is_processing
    BY <1>3 DEF Writable, is_processing
<1>7. CASE Writable
  <2>1. written' = Append(written, writing[1])
      BY <1>1, <1>4, <1>7 DEF Writable
  <2>2. /\ writing[1] = asked[Len(written) + 1] /\ Len(written) < Len(asked)
        /\ is_processing => Len(asked) =< Len(written) + 1
      BY <1>1, <1>7 DEF OneInOrder, Pending
  <2>3. /\ Len(written') = Len(written) + 1
        /\ \A k \in 1..Len(written) : written'[k] = written[k]
        /\ written'[Len(written) + 1] = asked[Len(written) + 1]
        /\ Len(written) \in Nat /\ Len(asked) \in Nat
      BY <1>1, <2>1, <2>2, AppendHandler, WriteTypes
  <2>4. /\ Len(written') =< Len(asked)
        /\ \A k \in 1..Len(written') : written'[k] = asked[k]
      BY <2>2, <2>3 DEF OneInOrder
  <2>5. is_processing => Len(asked) = Len(written')
      BY <2>2, <2>3
  <2>6. QED
      BY <1>2, <1>3, <1>5, <1>6, <2>3, <2>4, <2>5 DEF OneInOrder
<1>8. CASE ~Writable
  <2>1. UNCHANGED written
      BY <1>3, <1>4, <1>8 DEF Writable, IInv, TypeOK, PeerFaults
  <2>2. QED
      BY <1>3, <1>6, <1>8, <2>1 DEF OneInOrder
<1>9. QED
    BY <1>7, <1>8

\* The other steps of the network.
LEMMA NetworkOne ==
    ASSUME IInv, OneInOrder, OneWrite, Network PROVE OneInOrder'
<1>1. ASSUME NEW item \in Items \cup {Bad}, PeerSend(item)
      PROVE  OneInOrder'
    BY <1>1 DEF PeerSend, callVars, OneInOrder, Writable, Pending, is_processing
<1>2. ASSUME NEW fault \in Faults, PeerFault(fault)
      PROVE  OneInOrder'
  <2>1. UNCHANGED <<state_, socket, tasks, writing, asked, written>>
      BY <1>2 DEF PeerFault, callVars
  <2>2. Writable' => Writable
      BY <1>2 DEF PeerFault, Writable
  <2>3. /\ Pending' <=> Pending
        /\ is_processing' <=> is_processing
      BY <2>1 DEF Pending, is_processing
  <2>4. QED
      BY <2>1, <2>2, <2>3 DEF OneInOrder
<1>3. CASE ReadCompletes
  <2>1. /\ Len(tasks') = Len(tasks) + 1 /\ Len(tasks) \in Nat
        /\ \A i \in 1..Len(tasks) : tasks'[i] = tasks[i]
        /\ tasks'[Len(tasks) + 1].op = "read_done"
      BY <1>3, ReadCompletesQueue
  <2>2. /\ SendsIn(tasks') = SendsIn(tasks)
        /\ \A i \in SendsIn(tasks) : tasks'[i] = tasks[i]
      BY <2>1 DEF SendsIn
  <2>3. /\ UNCHANGED <<state_, socket, peer, writing, asked, written>>
        /\ (Writable' <=> Writable) /\ (Pending' <=> Pending)
        /\ (is_processing' <=> is_processing)
      BY <1>3, <2>2 DEF ReadCompletes, netVars, callVars, Writable, Pending,
         is_processing
  <2>4. \A i \in SendsIn(tasks') : /\ i \in SendsIn(tasks)
                                   /\ MessageAt(tasks', i) = MessageAt(tasks, i)
      BY <2>2 DEF MessageAt
  <2>5. QED
      BY <2>3, <2>4 DEF OneInOrder
<1>4. ~WritePart
  <2>1. Len(writing) =< 1
      BY Zenon DEF OneWrite
  <2>2. QED
      BY <2>1, WriteTypes DEF WritePart
<1>5. QED
    BY <1>1, <1>2, <1>3, <1>4, WriteCompletesOne DEF Network

\* start() posts a read only.
LEMMA StartOne == IInv /\ OneInOrder /\ start => OneInOrder'
<1> SUFFICES ASSUME IInv, OneInOrder, start PROVE OneInOrder'
    OBVIOUS
<1>1. /\ asked = <<>> /\ tasks = <<>> /\ writing = <<>>
      /\ Len(asked) = 0 /\ Len(writing) = 0 /\ Len(written) = 0
      /\ state_' # "INIT" /\ UNCHANGED <<asked, written, writing>>
    BY WriteTypes DEF start, OneInOrder, callVars, IInv, NotStarted
<1>2. SendsIn(tasks') = {} /\ ~Pending'
  <2>1. /\ Len(tasks') = 1
        /\ tasks'[1] = Handler("read_next", "none", <<>>)
      BY <1>1 DEF start
  <2>2. SendsIn(tasks') = {}
      BY <2>1, HandlerFields DEF SendsIn
  <2>3. QED
      BY <1>1, <2>2 DEF Pending
<1>3. QED
    BY <1>1, <1>2 DEF OneInOrder

\* async_close() posts a close only.
LEMMA AsyncCloseOne == IInv /\ OneInOrder /\ async_close => OneInOrder'
<1> SUFFICES ASSUME IInv, OneInOrder, async_close PROVE OneInOrder'
    OBVIOUS
<1>1. /\ Shifted(tasks', 0) /\ UNCHANGED <<asked, written, writing, state_>>
      /\ (Writable' <=> Writable) /\ (is_processing' <=> is_processing)
    BY AsyncCloseKept
<1>2. QED
    BY <1>1, OneKept

\* The end of a write that succeeded posts nothing.
LEMMA OnSentOne == IInv /\ OneInOrder /\ on_sent => OneInOrder'
<1> SUFFICES ASSUME IInv, OneInOrder, on_sent PROVE OneInOrder'
    OBVIOUS
<1>1. /\ Shifted(tasks', 1) /\ tasks # <<>> /\ Head(tasks).op # "send"
      /\ UNCHANGED <<asked, written, writing, state_>>
      /\ (Writable' <=> Writable) /\ (is_processing' <=> is_processing)
    BY OnSentKept
<1>2. QED
    BY <1>1, OneKept

-----------------------------------------------------------------------------
(* A write that is pending is not forgotten.                               *)

\* Unless a step stops the connection, it leaves a write pending if one was.
WriteKept == ~NoWrite => ~NoWrite' \/ state_' = "STOPPED" \/ thrown'

\* The handlers of the writes stay in the queue.
LEMMA ShiftedKeepsWrite ==
    ASSUME IInv, NEW d \in {0, 1}, Shifted(tasks', d),
           d = 1 => tasks # <<>> /\ Head(tasks).op \notin WriteOps,
           state_' # "STOPPED" => UNCHANGED writing
    PROVE  WriteKept
<1>1. ASSUME NEW j \in WriteHandlers PROVE j - d \in WriteHandlers'
  <2>1. /\ tasks \in Seq(Handlers) /\ Len(tasks) \in Nat
        /\ j \in 1..Len(tasks) /\ tasks[j].op \in WriteOps
      BY WriteTypes DEF WriteHandlers
  <2>2. d = 1 => j # 1
      BY <2>1, TailHandler
  <2>3. j - d \in 1..Len(tasks) - d /\ (j - d) + d = j
      BY <2>1, <2>2
  <2>4. j - d \in 1..Len(tasks') /\ tasks'[j - d] = tasks[j]
      BY <2>3 DEF Shifted
  <2>5. QED
      BY <2>1, <2>4 DEF WriteHandlers
<1>2. QED
    BY <1>1 DEF WriteKept, NoWrite

\* start() finds no write.
LEMMA StartKeepsWrite == IInv /\ start => WriteKept
BY DEF IInv, NotStarted, start, WriteKept, NoWrite, WriteHandlers

\* async_close() posts a close.
LEMMA AsyncCloseKeepsWrite == IInv /\ async_close => WriteKept
BY AsyncCloseKept, ShiftedKeepsWrite

\* Handlers that do not call back into the owner: a write ends only in a stop
\* or an exception.
LEMMA QuietKeepsWrite == IInv /\ QuietHandler => WriteKept
<1> SUFFICES ASSUME IInv, QuietHandler PROVE WriteKept
    OBVIOUS
<1>1. CASE async_send_in_thread
  <2> DEFINE message == Head(Head(tasks).data)
             h == Handler("write_done", "failed", <<message>>)
  <2>1. IsNext("send")
      BY <1>1 DEF async_send_in_thread
  <2>2. message \in Nat
    <3>1. Head(tasks).data \in Seq(Nat) /\ Head(tasks).data # <<>>
        BY <2>1, TakeHandler DEF Handlers
    <3>2. QED
        BY <3>1, TailHandler
  <2>3. CASE socket = "open"
    <3>1. writing' = Append(writing, message) /\ writing \in Seq(Nat)
        BY <1>1, <2>3, WriteTypes DEF async_send_in_thread
    <3> HIDE DEF message
    <3>2. writing' # <<>>
        BY <2>2, <3>1, ReportStatus
    <3>3. QED
        BY <3>2 DEF WriteKept, NoWrite
  <2>4. CASE socket # "open"
    <3>1. state_' = "STOPPED"
        BY <1>1, <2>1, <2>4, TakeHandler
        DEF async_send_in_thread, IInv, TypeOK, ClosedSocketIsIdle
    <3>2. QED
        BY <3>1 DEF WriteKept
  <2>5. QED
      BY <2>3, <2>4
<1>2. CASE RunClose
  <2>1. state_' = "STOPPED"
      BY <1>2 DEF RunClose, close_in_thread, CloseSocket
  <2>2. QED
      BY <2>1 DEF WriteKept
<1>3. CASE RunReadNext \/ ReadAborted \/ ReadPeerGone \/ ReadFailed
  <2>1. /\ Shifted(tasks', 1) /\ tasks # <<>> /\ UNCHANGED writing
        /\ Head(tasks).op \in {"read_next", "read_done"}
      BY <1>3, QuietShifted DEF RunReadNext, ReadAborted, ReadPeerGone,
         ReadFailed, IsReadDone, IsNext, Ignore, ClosedByPeer, Throw
  <2>2. QED
      BY <2>1, ShiftedKeepsWrite DEF WriteOps
<1>4. CASE WriteAborted
  <2>1. /\ IsNext("write_done") /\ Head(tasks).error = "aborted"
        /\ UNCHANGED state_
      BY <1>4 DEF WriteAborted, IsWriteDone, Ignore
  <2>2. state_ = "STOPPED"
      BY <2>1, TakeHandler DEF IInv, AbortedByStop
  <2>3. QED
      BY <2>1, <2>2 DEF WriteKept
<1>5. CASE WritePeerGone \/ WriteFailed
    BY <1>5 DEF WritePeerGone, WriteFailed, ClosedByPeer, Throw, WriteKept
<1>6. QED
    BY <1>1, <1>2, <1>3, <1>4, <1>5 DEF QuietHandler

\* The handler of a read.
LEMMA ProcessKeepsWrite ==
    ASSUME IInv, NEW n, NEW closes \in Nat, process_read_bytes(n, closes)
    PROVE  WriteKept
<1>1. Shifted(tasks', 1) /\ tasks # <<>> /\ Head(tasks).op \notin WriteOps
    BY ProcessKept DEF WriteOps
<1>2. state_' # "STOPPED" => UNCHANGED writing
  <2>1. \/ \E status, queue : close_in_thread(status, queue)
        \/ UNCHANGED writing
      BY Zenon DEF process_read_bytes, ParseFails, ReadOn
  <2>2. (\E status, queue : close_in_thread(status, queue)) => state_' = "STOPPED"
      BY DEF close_in_thread, CloseSocket
  <2>3. QED
      BY <2>1, <2>2
<1>3. QED
    BY <1>1, <1>2, ShiftedKeepsWrite

\* The end of an operation on the socket makes its handler ready.
LEMMA NetworkKeepsWrite == IInv /\ Network => WriteKept
<1> SUFFICES ASSUME IInv, Network PROVE WriteKept
    OBVIOUS
<1>1. CASE WriteCompletes
  <2>1. writing # <<>> /\ Head(writing) \in Nat
      BY <1>1, TailHandler, WriteTypes DEF WriteCompletes
  <2>2. PICK error \in Errors :
            tasks' = Append(tasks, Handler("write_done", error, <<Head(writing)>>))
      BY <1>1 DEF WriteCompletes, Errors
  <2> DEFINE w == Handler("write_done", error, <<Head(writing)>>)
  <2>3. w \in Handlers /\ w.op = "write_done" /\ tasks' = Append(tasks, w)
      BY <2>1, <2>2, HandlerTypes, HandlerFields
  <2> HIDE DEF w
  <2>4. Len(tasks) + 1 \in WriteHandlers'
    <3>1. /\ Len(tasks') = Len(tasks) + 1 /\ Len(tasks) \in Nat
          /\ tasks'[Len(tasks) + 1] = w
        BY <2>3, AppendHandler, WriteTypes
    <3>2. QED
        BY <2>3, <3>1 DEF WriteHandlers, WriteOps
  <2>5. QED
      BY <2>4 DEF WriteKept, NoWrite
<1>2. CASE ReadCompletes
  <2>1. /\ Len(tasks') = Len(tasks) + 1 /\ Len(tasks) \in Nat
        /\ \A i \in 1..Len(tasks) : tasks'[i] = tasks[i]
        /\ UNCHANGED writing
      BY <1>2, ReadCompletesQueue DEF ReadCompletes
  <2>2. WriteHandlers \subseteq WriteHandlers'
      BY <2>1 DEF WriteHandlers
  <2>3. QED
      BY <2>1, <2>2 DEF WriteKept, NoWrite
<1>3. CASE UNCHANGED <<tasks, writing>>
    BY <1>3 DEF WriteKept, NoWrite, WriteHandlers
<1>4. CASE WritePart
    BY <1>4, WritePartType DEF WriteKept, NoWrite
<1>5. QED
    BY <1>1, <1>2, <1>3, <1>4 DEF Network, PeerSend, PeerFault

\* A connection that has stopped, or whose executor has, stays so.
LEMMA EndStays ==
    ASSUME \/ start \/ async_close \/ QuietHandler \/ Network \/ on_sent
           \/ \E n, closes : process_read_bytes(n, closes)
           \/ \E message : async_send(message)
    PROVE  /\ state_ = "STOPPED" => state_' = "STOPPED"
           /\ thrown => thrown'
<1>1. CASE start \/ async_close \/ \E message : async_send(message)
  <2>1. thrown' = thrown /\ (state_' = state_ \/ state_ = "INIT")
      BY <1>1, Zenon DEF start, async_close, async_send
  <2>2. QED
      BY <2>1
<1>2. CASE Network
    BY <1>2 DEF Network, PeerSend, PeerFault, ReadCompletes, WriteCompletes,
       WritePart
<1>3. CASE QuietHandler \/ on_sent
  <2>1. CASE RunClose
      BY <2>1 DEF RunClose, close_in_thread, CloseSocket
  <2>2. CASE ~RunClose
    <3>1. /\ state_' \in {state_, "STOPPED"}
          /\ thrown' = thrown \/ thrown' = TRUE
        BY <1>3, <2>2 DEF QuietHandler, RunReadNext, async_send_in_thread,
           ReadAborted, ReadPeerGone, ReadFailed, WriteAborted, WritePeerGone,
           WriteFailed, on_sent, Ignore, ClosedByPeer, Throw
    <3>2. state_ = "STOPPED" => state_' = "STOPPED"
        BY <3>1
    <3>3. thrown => thrown'
      <4>1. thrown' = thrown \/ thrown' = TRUE
          BY <3>1
      <4>2. QED
          BY <4>1, Zenon
    <3>4. QED
        BY <3>2, <3>3
  <2>3. QED
      BY <2>1, <2>2
<1>4. CASE \E n, closes : process_read_bytes(n, closes)
    BY <1>4, Zenon DEF process_read_bytes, ParseFails, ReadOn, close_in_thread,
       CloseSocket
<1>5. QED
    BY <1>1, <1>2, <1>3, <1>4
=============================================================================
