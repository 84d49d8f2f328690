------------------------ MODULE ServerConnectionProofs ------------------------
(***************************************************************************)
(* Proofs about module ServerConnection, for any set of callback threads   *)
(* and any messages.  The invariant of the transport connection is proved  *)
(* in ConnectionProofs and carried over to the composition.                *)
(***************************************************************************)
EXTENDS ServerConnection, FiniteSetTheorems, TLAPS

P == INSTANCE ConnectionProofs WITH MaxSends <- 0

-----------------------------------------------------------------------------
(* The instance of Connection in the composition is the one of its proofs. *)

\* The assumptions of Connection hold for the server.
LEMMA ConnAssumptions ==
    P!ItemsAssumption /\ P!FaultsAssumption /\ P!BoundsAssumption
BY KindsAssumption, BoundsAssumption
DEF P!PeerFaults, P!ItemsAssumption, P!FaultsAssumption, P!BoundsAssumption

\* Types and initial states.
LEMMA SameState ==
    (P!TypeOK <=> Conn!TypeOK) /\ (Conn!Init => P!Init)
<1>1. P!Handlers = Conn!Handlers
    BY DEF P!Handlers, Conn!Handlers, P!Errors, Conn!Errors
<1>2. P!States = Conn!States /\ P!PeerFaults = Conn!PeerFaults
    BY DEF P!States, Conn!States, P!PeerFaults, Conn!PeerFaults
<1>3. QED
    BY <1>1, <1>2, Zenon DEF P!TypeOK, Conn!TypeOK, Conn!Init, P!Init

\* Calls.
LEMMA SameCalls ==
    /\ Conn!start => P!start
    /\ Conn!async_close => P!async_close
    /\ \A m : Conn!async_send(m) => P!async_send(m)
BY Zenon DEF Conn!start, P!start, Conn!async_close, P!async_close,
   Conn!async_send, P!async_send, Conn!Handler, P!Handler, Conn!netVars,
   P!netVars, Conn!callVars, P!callVars, Conn!is_processing, P!is_processing

\* Handlers.
LEMMA SameQuietHandler == Conn!QuietHandler => P!QuietHandler
BY Zenon DEF Conn!QuietHandler, P!QuietHandler, Conn!RunReadNext, P!RunReadNext,
   Conn!RunClose, P!RunClose, Conn!async_send_in_thread, P!async_send_in_thread,
   Conn!ReadAborted, P!ReadAborted, Conn!ReadPeerGone, P!ReadPeerGone,
   Conn!ReadFailed, P!ReadFailed, Conn!WriteAborted, P!WriteAborted,
   Conn!WritePeerGone, P!WritePeerGone, Conn!WriteFailed, P!WriteFailed,
   Conn!IsReadDone, P!IsReadDone, Conn!IsWriteDone, P!IsWriteDone,
   Conn!IsNext, P!IsNext, Conn!Ignore, P!Ignore, Conn!Throw, P!Throw,
   Conn!ClosedByPeer, P!ClosedByPeer, Conn!close_in_thread, P!close_in_thread,
   Conn!CloseSocket, P!CloseSocket,
   Conn!cancel, P!cancel,
   Conn!async_read_next, P!async_read_next,
   Conn!AbortedHandlers, P!AbortedHandlers, Conn!Handler, P!Handler,
   Conn!netVars, P!netVars, Conn!callVars, P!callVars

\* The handler of a read.
LEMMA SameProcessReadBytes ==
    ASSUME NEW n, NEW closes, Conn!process_read_bytes(n, closes)
    PROVE  P!process_read_bytes(n, closes)
BY Zenon DEF Conn!process_read_bytes, P!process_read_bytes,
   Conn!IsReadDone, P!IsReadDone, Conn!IsNext, P!IsNext,
   Conn!Parsable, P!Parsable,
   Conn!ReadOn, P!ReadOn, Conn!ParseFails, P!ParseFails,
   Conn!close_in_thread, P!close_in_thread,
   Conn!CloseSocket, P!CloseSocket,
   Conn!cancel, P!cancel,
   Conn!async_read_next, P!async_read_next,
   Conn!AbortedHandlers, P!AbortedHandlers, Conn!Handler, P!Handler,
   Conn!netVars, P!netVars, Conn!is_processing, P!is_processing

\* The handler of a write, and the network.
LEMMA SameRest ==
    (Conn!on_sent => P!on_sent) /\ (Conn!Network => P!Network)
BY Zenon DEF Conn!on_sent, P!on_sent, Conn!IsWriteDone, P!IsWriteDone,
   Conn!IsNext, P!IsNext, Conn!Ignore, P!Ignore,
   Conn!Network, P!Network, Conn!PeerSend, P!PeerSend,
   Conn!PeerFault, P!PeerFault, Conn!ReadCompletes, P!ReadCompletes,
   Conn!WriteCompletes, P!WriteCompletes, Conn!WritePart, P!WritePart,
   Conn!Handler, P!Handler, Conn!netVars, P!netVars, Conn!callVars, P!callVars

-----------------------------------------------------------------------------
(* The inductive invariant.                                                *)

\* message_queue_mutex_ excludes; who holds it has seen a message and no write.
Mutex ==
    /\ \A v, w \in Workers : pc[v] = "take" /\ pc[w] = "take" => v = w
    /\ \A w \in Workers :
            pc[w] = "take" => ~is_sending_ /\ message_queue_ # <<>>

\* A thread that is about to call async_send() is the only one, and no write is
\* pending then.  is_sending_ is set as long as a write is pending.
Sender ==
    /\ P!OneWrite
    /\ \A v, w \in Workers : pc[v] = "send" /\ pc[w] = "send" => v = w
    /\ \A w \in Workers : pc[w] = "send" => P!NoWrite
    /\ ~is_sending_ => P!NoWrite /\ \A w \in Workers : pc[w] # "send"

\* The types of the variables that ServerConnection adds.
QueueTypes ==
    /\ message_queue_ \in Seq(Nat)
    /\ is_sending_ \in BOOLEAN
    /\ pc \in [Workers -> PCs]
    /\ current \in [Workers -> Nat]
    /\ inbox \in [Threads -> SUBSET Nat]
    /\ pushed \in Seq(Nat)

IInv == QueueTypes /\ P!IInv /\ Mutex /\ Sender

\* The invariant holds initially.
LEMMA InitIInv == Init => IInv
<1> SUFFICES ASSUME Init PROVE IInv
    OBVIOUS
<1>1. P!Init
    BY SameState DEF Init
<1>2. P!IInv
    BY <1>1, P!InitIInv, ConnAssumptions, Zenon
<1>3. QueueTypes
  <2>1. /\ <<>> \in Seq(Nat) /\ FALSE \in BOOLEAN
        /\ [w \in Workers |-> "idle"] \in [Workers -> PCs]
        /\ [w \in Workers |-> 0] \in [Workers -> Nat]
      BY DEF PCs
  <2>2. [t \in Threads |-> {}] \in [Threads -> SUBSET Nat]
      OBVIOUS
  <2>3. QED
      BY <2>1, <2>2, Zenon DEF Init, QueueTypes
<1>4. tasks = <<>> /\ writing = <<>> /\ Len(writing) = 0
    BY <1>1 DEF P!Init
<1>5. P!NoWrite /\ P!OneWrite
    BY <1>4 DEF P!NoWrite, P!OneWrite, P!WriteHandlers
<1>6. Mutex /\ Sender
    BY <1>5 DEF Init, Mutex, Sender
<1>7. QED
    BY <1>2, <1>3, <1>6 DEF IInv

\* A step of the connection that adds no write, while the threads do nothing.
LEMMA ConnectionStep ==
    ASSUME IInv, P!IInv', P!NoNewWrite, QueueTypes',
           UNCHANGED <<message_queue_, is_sending_, pc>>
    PROVE  IInv'
<1>1. Mutex'
    BY DEF IInv, Mutex
<1>2. P!OneWrite' /\ (P!NoWrite => P!NoWrite')
    BY DEF IInv, Sender, P!NoNewWrite
<1>3. Sender'
    BY <1>2 DEF IInv, Sender
<1>4. QED
    BY <1>1, <1>3 DEF IInv

\* start(), async_close(), the network and most handlers leave the threads alone.
LEMMA QuietStep ==
    ASSUME IInv, UNCHANGED <<queueVars, pc, current, inbox>>,
           Conn!start \/ Conn!async_close \/ Conn!QuietHandler \/ Conn!Network
    PROVE  IInv'
<1>1. P!start \/ P!async_close \/ P!QuietHandler \/ P!Network
    BY SameCalls, SameQuietHandler, SameRest
<1>2. P!IInv
    BY DEF IInv
<1>3. P!IInv'
    BY <1>1, <1>2, ConnAssumptions, P!StartStep, P!AsyncCloseStep,
       P!QuietHandlerStep, P!NetworkStep, Zenon
<1>4. P!NoNewWrite
    BY <1>1, <1>2, ConnAssumptions, P!StartWrite, P!AsyncCloseWrite,
       P!QuietHandlerWrite, P!NetworkWrite, Zenon
<1>5. QueueTypes'
    BY DEF IInv, QueueTypes, queueVars
<1>6. QED
    BY <1>3, <1>4, <1>5, ConnectionStep DEF queueVars

\* The messages of a read are posted to the callback contexts.
LEMMA OnReceivedStep == IInv /\ on_received => IInv'
<1> SUFFICES ASSUME IInv, on_received PROVE IInv'
    OBVIOUS
<1> DEFINE Invalid(n) == {i \in 1..n : Head(tasks).data[i] \in Responses}
           base == Len(received)
<1>1. PICK n \in 0..Len(inbound) :
        /\ Conn!process_read_bytes(n, Cardinality(Invalid(n)))
        /\ \E context \in [1..n -> Threads] :
            inbox' = [t \in Threads |->
                inbox[t] \cup {base + i : i \in {j \in (1..n) \ Invalid(n) :
                                                context[j] = t}}]
    BY Zenon DEF on_received
<1>2. n \in Nat
    OBVIOUS
<1>3. Cardinality(Invalid(n)) \in Nat
  <2>1. IsFiniteSet(1..n)
      BY <1>2, FS_Interval
  <2>2. IsFiniteSet(Invalid(n))
      BY <2>1, FS_Subset
  <2>3. QED
      BY <2>2, FS_CardinalityType
<1>4. P!process_read_bytes(n, Cardinality(Invalid(n)))
    BY <1>1, SameProcessReadBytes
<1>5. P!IInv
    BY DEF IInv
<1>6. P!IInv'
    BY <1>3, <1>4, <1>5, ConnAssumptions, P!ProcessReadBytesStep, Zenon
<1>7. P!NoNewWrite
    BY <1>3, <1>4, <1>5, ConnAssumptions, P!ProcessReadBytesWrite, Zenon
<1>8. inbox' \in [Threads -> SUBSET Nat]
  <2>1. base \in Nat
      BY <1>5 DEF P!IInv, P!TypeOK
  <2>2. inbox \in [Threads -> SUBSET Nat]
      BY DEF IInv, QueueTypes
  <2> HIDE DEF base, Invalid
  <2>3. \A S \in SUBSET (1..n) : {base + i : i \in S} \in SUBSET Nat
      BY <1>2, <2>1
  <2>4. PICK context \in [1..n -> Threads] :
            inbox' = [t \in Threads |->
                inbox[t] \cup {base + i : i \in {j \in (1..n) \ Invalid(n) :
                                                context[j] = t}}]
      BY <1>1
  <2>5. \A t \in Threads :
            inbox[t] \cup {base + i : i \in {j \in (1..n) \ Invalid(n) :
                                            context[j] = t}} \in SUBSET Nat
      BY <2>2, <2>3
  <2>6. QED
      BY <2>4, <2>5
<1>9. QueueTypes' /\ UNCHANGED <<message_queue_, is_sending_, pc>>
    BY <1>8 DEF on_received, IInv, QueueTypes, queueVars
<1>10. QED
    BY <1>6, <1>7, <1>9, ConnectionStep

-----------------------------------------------------------------------------
(* The threads.                                                            *)

\* A step of a thread that does not touch the connection.
LEMMA ConnectionUnchanged ==
    ASSUME IInv, UNCHANGED connVars
    PROVE  P!IInv' /\ (P!NoWrite' <=> P!NoWrite) /\ (P!OneWrite' <=> P!OneWrite)
<1>1. P!IInv /\ UNCHANGED P!vars
    BY DEF IInv, connVars, P!vars
<1>2. P!IInv'
    BY <1>1, ConnAssumptions, P!NextIInv, Zenon
<1>3. QED
    BY <1>2 DEF connVars, P!NoWrite, P!OneWrite, P!WriteHandlers

\* on_sent(): the only pending write has ended.
LEMMA OnSentStep == IInv /\ on_sent => IInv'
<1> SUFFICES ASSUME IInv, on_sent PROVE IInv'
    OBVIOUS
<1>1. /\ P!on_sent /\ is_sending_' = FALSE
      /\ pc[Transport] = "idle" /\ pc' = [pc EXCEPT ![Transport] = "check"]
      /\ UNCHANGED <<message_queue_, pushed, current, inbox>>
    BY SameRest DEF on_sent, Goto
<1>2. P!IInv /\ P!OneWrite
    BY DEF IInv, Sender
<1>3. P!NoWrite'
    BY <1>1, <1>2, ConnAssumptions, P!OnSentWrite, Zenon
<1>4. P!IInv'
  <2>1. P!Next
      BY <1>1 DEF P!Next, P!Thread
  <2>2. QED
      BY <1>2, <2>1, ConnAssumptions, P!NextIInv, Zenon
<1>5. P!OneWrite'
    BY <1>3 DEF P!NoWrite, P!OneWrite
<1>6. \A w \in Workers : pc[w] # "send"
  <2> SUFFICES ASSUME NEW w \in Workers, pc[w] = "send" PROVE FALSE
      OBVIOUS
  <2>1. P!NoWrite
      BY DEF IInv, Sender
  <2>2. P!IsNext("write_done")
      BY <1>1 DEF P!on_sent, P!IsWriteDone
  <2>3. P!WriteHandlers = {1}
      BY <1>2, <2>2, ConnAssumptions, P!OnlyWrite DEF P!WriteOps
  <2>4. QED
      BY <2>1, <2>3 DEF P!NoWrite
<1>7. QueueTypes'
    BY <1>1 DEF IInv, QueueTypes, PCs
<1>8. pc \in [Workers -> PCs]
    BY DEF IInv, QueueTypes
<1>9. Mutex'
    BY <1>1, <1>8 DEF IInv, Mutex
<1>10. Sender'
    BY <1>1, <1>3, <1>5, <1>6, <1>8 DEF Sender
<1>11. QED
    BY <1>4, <1>7, <1>9, <1>10 DEF IInv

\* A notification and the call of a method.
LEMMA CallStep ==
    ASSUME IInv, NEW t \in Threads, NEW k \in inbox[t],
           on_notification(t, k) \/ on_request(t, k)
    PROVE  IInv'
<1>1. /\ pc[t] = "idle" /\ k \in Nat /\ t \in Workers
      /\ pc \in [Workers -> PCs]
    BY DEF on_notification, on_request, IsNext, IInv, QueueTypes, Workers
<1>2. /\ inbox' = [inbox EXCEPT ![t] = @ \ {k}]
      /\ current' = current \/ current' = [current EXCEPT ![t] = k]
      /\ pc' = pc \/ pc' = [pc EXCEPT ![t] = "push"]
      /\ UNCHANGED <<message_queue_, is_sending_, pushed, connVars>>
    BY DEF on_notification, on_request, Goto, queueVars
<1>3. QueueTypes'
  <2>1. inbox' \in [Threads -> SUBSET Nat]
      BY <1>2 DEF IInv, QueueTypes
  <2>2. current' \in [Workers -> Nat]
      BY <1>1, <1>2 DEF IInv, QueueTypes
  <2>3. pc' \in [Workers -> PCs]
      BY <1>1, <1>2 DEF PCs
  <2>4. QED
      BY <1>2, <2>1, <2>2, <2>3 DEF IInv, QueueTypes
<1>4. \A w \in Workers : pc'[w] \in {"take", "send"} => pc'[w] = pc[w]
    BY <1>1, <1>2
<1>5. Mutex'
    BY <1>2, <1>4 DEF IInv, Mutex
<1>6. Sender'
    BY <1>2, <1>4, ConnectionUnchanged DEF IInv, Sender
<1>7. QED
    BY <1>2, <1>3, <1>5, <1>6, ConnectionUnchanged DEF IInv

\* A response is pushed while nobody holds the mutex.
LEMMA PushStep ==
    ASSUME IInv, NEW t \in Threads, PushResponse(t)
    PROVE  IInv'
<1>1. /\ t \in Workers /\ pc \in [Workers -> PCs] /\ current[t] \in Nat
      /\ \A w \in Workers : pc[w] # "take"
    BY DEF PushResponse, MutexIsFree, IInv, QueueTypes, Workers
<1>2. /\ message_queue_' = Append(message_queue_, current[t])
      /\ pushed' = Append(pushed, current[t])
      /\ pc' = [pc EXCEPT ![t] = "check"]
      /\ UNCHANGED <<is_sending_, current, inbox, connVars>>
    BY DEF PushResponse, Goto
<1>3. QueueTypes'
    BY <1>1, <1>2 DEF IInv, QueueTypes, PCs
<1>4. \A w \in Workers : pc'[w] \in {"take", "send"} => pc'[w] = pc[w]
    BY <1>1, <1>2
<1>5. Mutex'
    BY <1>1, <1>4 DEF Mutex
<1>6. Sender'
    BY <1>2, <1>4, ConnectionUnchanged DEF IInv, Sender
<1>7. QED
    BY <1>2, <1>3, <1>5, <1>6, ConnectionUnchanged DEF IInv

\* A thread locks the mutex and finds a message to send.
LEMMA CheckStep ==
    ASSUME IInv, NEW w \in Workers, CheckNext(w)
    PROVE  IInv'
<1>1. /\ pc \in [Workers -> PCs] /\ pc[w] = "check"
      /\ \A v \in Workers : pc[v] # "take"
    BY DEF CheckNext, MutexIsFree, IInv, QueueTypes
<1>2. /\ \/ pc' = [pc EXCEPT ![w] = "idle"]
         \/ /\ pc' = [pc EXCEPT ![w] = "take"]
            /\ ~is_sending_ /\ message_queue_ # <<>>
      /\ UNCHANGED <<message_queue_, is_sending_, pushed, current, inbox, connVars>>
    BY DEF CheckNext, Goto, queueVars
<1>3. QueueTypes'
  <2>1. pc' \in [Workers -> PCs]
      BY <1>1, <1>2 DEF PCs
  <2>2. QED
      BY <1>2, <2>1 DEF IInv, QueueTypes
<1>4. \A v \in Workers :
        /\ pc'[v] = "send" => pc[v] = "send"
        /\ pc'[v] = "take" => v = w /\ ~is_sending_ /\ message_queue_ # <<>>
    BY <1>1, <1>2
<1>5. Mutex'
    BY <1>2, <1>4 DEF Mutex
<1>6. Sender'
    BY <1>2, <1>4, ConnectionUnchanged DEF IInv, Sender
<1>7. QED
    BY <1>2, <1>3, <1>5, <1>6, ConnectionUnchanged DEF IInv

\* It takes the message; no write is pending then.
LEMMA TakeStep ==
    ASSUME IInv, NEW w \in Workers, TakeNext(w)
    PROVE  IInv'
<1>1. /\ pc \in [Workers -> PCs] /\ pc[w] = "take"
      /\ ~is_sending_ /\ message_queue_ # <<>>
      /\ \A v \in Workers : pc[v] = "take" => v = w
    BY DEF TakeNext, IInv, QueueTypes, Mutex
<1>2. /\ current' = [current EXCEPT ![w] = Head(message_queue_)]
      /\ message_queue_' = Tail(message_queue_)
      /\ is_sending_' = TRUE
      /\ pc' = [pc EXCEPT ![w] = "send"]
      /\ UNCHANGED <<pushed, inbox, connVars>>
    BY DEF TakeNext, Goto
<1>3. QueueTypes'
  <2>1. Head(message_queue_) \in Nat /\ message_queue_' \in Seq(Nat)
      BY <1>1, <1>2 DEF IInv, QueueTypes
  <2>2. current' \in [Workers -> Nat] /\ pc' \in [Workers -> PCs]
      BY <1>1, <1>2, <2>1 DEF IInv, QueueTypes, PCs
  <2>3. QED
      BY <1>2, <2>1, <2>2 DEF IInv, QueueTypes
<1>4. P!NoWrite /\ \A v \in Workers : pc[v] # "send"
    BY <1>1 DEF IInv, Sender
<1>5. \A v \in Workers : pc'[v] # "take" /\ (pc'[v] = "send" => v = w)
    BY <1>1, <1>2, <1>4
<1>6. Mutex'
    BY <1>5 DEF Mutex
<1>7. P!NoWrite' /\ P!OneWrite' /\ P!IInv'
    BY <1>2, <1>4, ConnectionUnchanged DEF IInv, Sender
<1>8. Sender'
    BY <1>2, <1>5, <1>7 DEF Sender
<1>9. QED
    BY <1>3, <1>6, <1>7, <1>8 DEF IInv

\* It hands the message to async_send().
LEMMA SendStep ==
    ASSUME IInv, NEW w \in Workers, SendNext(w)
    PROVE  IInv'
<1>1. /\ pc \in [Workers -> PCs] /\ pc[w] = "send" /\ current[w] \in Nat
    BY DEF SendNext, IInv, QueueTypes
<1>2. /\ P!async_send(current[w])
      /\ pc' = [pc EXCEPT ![w] = "idle"]
      /\ UNCHANGED <<message_queue_, is_sending_, pushed, current, inbox>>
    BY SameCalls DEF SendNext, Goto, queueVars
<1>3. /\ P!NoWrite /\ P!IInv /\ is_sending_
      /\ \A v \in Workers : pc[v] = "send" => v = w
    BY <1>1 DEF IInv, Sender
<1>4. P!IInv'
    BY <1>1, <1>2, <1>3, ConnAssumptions, P!AsyncSendStep, Zenon
<1>5. P!OneWrite'
    BY <1>1, <1>2, <1>3, ConnAssumptions, P!AsyncSendWrite, Zenon
<1>6. QueueTypes'
    BY <1>1, <1>2 DEF IInv, QueueTypes, PCs
<1>7. \A v \in Workers : pc'[v] # "send" /\ (pc'[v] = "take" => pc[v] = "take")
    BY <1>1, <1>2, <1>3
<1>8. Mutex'
    BY <1>2, <1>7 DEF IInv, Mutex
<1>9. Sender'
    BY <1>2, <1>3, <1>5, <1>7 DEF Sender
<1>10. QED
    BY <1>4, <1>6, <1>8, <1>9 DEF IInv

-----------------------------------------------------------------------------
(* The theorems.                                                           *)

\* Every step of the server preserves the invariant.
LEMMA NextIInv == IInv /\ [Next]_vars => IInv'
<1> SUFFICES ASSUME IInv, [Next]_vars PROVE IInv'
    OBVIOUS
<1>1. CASE start \/ async_close \/ QuietHandler \/ Network
    BY <1>1, QuietStep DEF start, async_close, QuietHandler, Network
<1>2. CASE on_received
    BY <1>2, OnReceivedStep
<1>3. CASE on_sent
    BY <1>3, OnSentStep
<1>4. ASSUME NEW w \in Workers, send_next_if_exists(w) PROVE IInv'
    BY <1>4, CheckStep, TakeStep, SendStep DEF send_next_if_exists
<1>5. CASE \E t \in Threads : CallbackThread(t)
  <2> SUFFICES ASSUME NEW t \in Threads, CallbackThread(t) PROVE IInv'
      BY <1>5
  <2>1. t \in Workers
      BY DEF Workers
  <2>2. QED
      BY <1>4, <2>1, CallStep, PushStep DEF CallbackThread
<1>6. CASE TransportThread
  <2>1. Transport \in Workers
      BY DEF Workers
  <2>2. QED
      BY <1>1, <1>2, <1>3, <1>4, <1>6, <2>1 DEF TransportThread
<1>7. CASE UNCHANGED vars
  <2>1. UNCHANGED <<message_queue_, is_sending_, pushed, pc, current, inbox,
                    connVars>>
      BY <1>7 DEF vars, queueVars
  <2>2. QueueTypes' /\ Mutex'
      BY <2>1 DEF IInv, QueueTypes, Mutex
  <2>3. Sender'
      BY <2>1, ConnectionUnchanged DEF IInv, Sender
  <2>4. QED
      BY <2>1, <2>2, <2>3, ConnectionUnchanged DEF IInv
<1>8. QED
    BY <1>1, <1>5, <1>6, <1>7 DEF Next

\* The inductive invariant holds in every reachable state.
LEMMA SpecIInv == Spec => []IInv
BY InitIInv, NextIInv, PTL DEF Spec

\* Type correctness of a server connection and its transport.
THEOREM ServerTypeCorrect == Spec => []TypeOK
<1>1. IInv => TypeOK
  <2>1. IInv => P!TypeOK
      BY DEF IInv, P!IInv
  <2>2. QED
      BY <2>1, SameState DEF IInv, QueueTypes, TypeOK
<1>2. QED
    BY <1>1, SpecIInv, PTL

\* For any number of callback threads and requests, no two writes of responses
\* overlap on the socket.
THEOREM ResponsesDoNotOverlap == Spec => []SingleWriter
<1>1. IInv => SingleWriter
  <2> SUFFICES ASSUME IInv PROVE SingleWriter
      OBVIOUS
  <2>1. P!OneWrite
      BY DEF IInv, Sender
  <2>2. SendHandlers \subseteq P!WriteHandlers
      BY DEF SendHandlers, P!WriteHandlers, P!WriteOps
  <2>3. QED
      BY <2>1, <2>2 DEF P!OneWrite, SingleWriter
<1>2. QED
    BY <1>1, SpecIInv, PTL

-----------------------------------------------------------------------------
(* The order of the responses.                                             *)

\* The steps of the connection on its own.
ConnectionAlone ==
    /\ P!start \/ P!async_close \/ P!QuietHandler \/ P!Network
    /\ UNCHANGED <<message_queue_, is_sending_, pushed, pc, current, inbox>>

\* What a step of the server may be.
LEMMA NextCases ==
    ASSUME [Next]_vars
    PROVE  \/ ConnectionAlone
           \/ on_received
           \/ on_sent
           \/ \E t \in Threads : \E k \in inbox[t] :
                    on_notification(t, k) \/ on_request(t, k)
           \/ \E t \in Threads : PushResponse(t)
           \/ \E w \in Workers : CheckNext(w)
           \/ \E w \in Workers : TakeNext(w)
           \/ \E w \in Workers : SendNext(w)
           \/ UNCHANGED vars
<1>1. CASE start \/ async_close \/ QuietHandler \/ Network
    BY <1>1, SameCalls, SameQuietHandler, SameRest
    DEF start, async_close, QuietHandler, Network, ConnectionAlone, queueVars
<1>2. CASE TransportThread
    BY <1>1, <1>2, Zenon DEF TransportThread, send_next_if_exists, Workers
<1>3. ASSUME NEW t \in Threads, CallbackThread(t)
      PROVE  \/ \E k \in inbox[t] : on_notification(t, k) \/ on_request(t, k)
             \/ PushResponse(t)
             \/ t \in Workers /\ (CheckNext(t) \/ TakeNext(t) \/ SendNext(t))
    BY <1>3, Zenon DEF CallbackThread, send_next_if_exists, Workers
<1>4. QED
    BY <1>1, <1>2, <1>3, Zenon DEF Next

\* The handler of a read calls nothing but on_received().
LEMMA OnReceivedReads ==
    ASSUME IInv, on_received
    PROVE  /\ \E n, closes \in Nat : P!process_read_bytes(n, closes)
           /\ UNCHANGED <<message_queue_, is_sending_, pushed, pc, current>>
<1> DEFINE Invalid(n) == {i \in 1..n : Head(tasks).data[i] \in Responses}
<1>1. PICK n \in 0..Len(inbound) :
          Conn!process_read_bytes(n, Cardinality(Invalid(n)))
    BY Zenon DEF on_received
<1>2. n \in Nat
    OBVIOUS
<1>3. Cardinality(Invalid(n)) \in Nat
  <2>1. IsFiniteSet(1..n)
      BY <1>2, FS_Interval
  <2>2. IsFiniteSet(Invalid(n))
      BY <2>1, FS_Subset
  <2>3. QED
      BY <2>2, FS_CardinalityType
<1>4. P!process_read_bytes(n, Cardinality(Invalid(n)))
    BY <1>1, SameProcessReadBytes
<1>5. QED
    BY <1>2, <1>3, <1>4, Zenon DEF on_received, queueVars

\* What was pushed is what was passed to async_send(), then the message of the
\* one thread that is about to call it, then what is still in the queue.
InTurn ==
    /\ \A i \in 1..Len(asked) : asked[i] = pushed[i]
    /\ \A i \in 1..Len(message_queue_) :
            message_queue_[i] = pushed[Len(pushed) - Len(message_queue_) + i]
    /\ (\A w \in Workers : pc[w] # "send") =>
            Len(pushed) = Len(asked) + Len(message_queue_)
    /\ \A w \in Workers : pc[w] = "send" =>
            /\ Len(pushed) = Len(asked) + 1 + Len(message_queue_)
            /\ current[w] = pushed[Len(asked) + 1]

Ordered == P!OneInOrder /\ InTurn

\* The types that the order is about.
LEMMA OrderTypes ==
    ASSUME IInv
    PROVE  /\ message_queue_ \in Seq(Nat) /\ Len(message_queue_) \in Nat
           /\ pushed \in Seq(Nat) /\ Len(pushed) \in Nat
           /\ asked \in Seq(Nat) /\ Len(asked) \in Nat
           /\ written \in Seq(Nat) /\ Len(written) \in Nat
           /\ pc \in [Workers -> PCs] /\ current \in [Workers -> Nat]
BY DEF IInv, QueueTypes, P!IInv, P!TypeOK

\* Steps that take nothing from the queue and pass nothing to async_send().
LEMMA TurnKept ==
    ASSUME InTurn, UNCHANGED <<message_queue_, pushed, asked>>,
           \A w \in Workers : /\ pc'[w] = "send" <=> pc[w] = "send"
                              /\ pc[w] = "send" => current'[w] = current[w]
    PROVE  InTurn'
BY DEF InTurn

\* The steps of the connection on its own.
LEMMA AloneOrdered ==
    ASSUME IInv, Ordered, ConnectionAlone PROVE Ordered'
<1>1. P!IInv /\ P!OneWrite /\ P!OneInOrder
    BY DEF IInv, Sender, Ordered
<1>2. P!OneInOrder'
    BY <1>1, ConnAssumptions, P!StartOne, P!AsyncCloseOne, P!QuietOne,
       P!NetworkOne, Zenon DEF ConnectionAlone
<1>3. UNCHANGED asked
  <2>1. P!start \/ P!async_close \/ P!Network => UNCHANGED asked
      BY DEF P!start, P!async_close, P!Network, P!PeerSend, P!PeerFault,
         P!ReadCompletes, P!WritePart, P!WriteCompletes, P!callVars, P!netVars
  <2>2. P!QuietHandler => UNCHANGED asked
      BY <1>1, ConnAssumptions, P!QuietShifted, Zenon
  <2>3. QED
      BY <2>1, <2>2 DEF ConnectionAlone
<1>4. InTurn'
    BY <1>3, TurnKept DEF Ordered, ConnectionAlone
<1>5. QED
    BY <1>2, <1>4 DEF Ordered

\* The handlers that call back into the server.
LEMMA OnReceivedOrdered ==
    ASSUME IInv, Ordered, on_received PROVE Ordered'
<1>1. PICK n, closes \in Nat : P!process_read_bytes(n, closes)
    BY OnReceivedReads
<1>2. P!OneInOrder'
    BY <1>1, ConnAssumptions, P!ProcessOne, Zenon DEF IInv, Ordered
<1>3. UNCHANGED asked
    BY <1>1 DEF P!process_read_bytes
<1>4. InTurn'
    BY <1>3, OnReceivedReads, TurnKept DEF Ordered
<1>5. QED
    BY <1>2, <1>4 DEF Ordered

LEMMA OnSentOrdered ==
    ASSUME IInv, Ordered, on_sent PROVE Ordered'
<1>1. /\ P!on_sent /\ pc[Transport] = "idle"
      /\ pc' = [pc EXCEPT ![Transport] = "check"]
      /\ UNCHANGED <<message_queue_, pushed, current>>
    BY SameRest DEF on_sent, Goto
<1>2. P!OneInOrder'
    BY <1>1, ConnAssumptions, P!OnSentOne, Zenon DEF IInv, Ordered
<1>3. UNCHANGED asked
    BY <1>1 DEF P!on_sent, P!Ignore, P!callVars
<1>4. pc \in [Workers -> PCs]
    BY OrderTypes
<1>5. \A w \in Workers : pc'[w] = "send" <=> pc[w] = "send"
    BY <1>1, <1>4
<1>6. InTurn'
    BY <1>1, <1>3, <1>5, TurnKept DEF Ordered
<1>7. QED
    BY <1>2, <1>6 DEF Ordered

\* The steps of the threads that leave the connection alone.
LEMMA OneUnchanged ==
    ASSUME Ordered, UNCHANGED connVars PROVE P!OneInOrder'
BY DEF Ordered, connVars, P!OneInOrder, P!Pending, P!Writable, P!is_processing

\* A notification and the call of a method.
LEMMA CallOrdered ==
    ASSUME IInv, Ordered, NEW t \in Threads, NEW k \in inbox[t],
           on_notification(t, k) \/ on_request(t, k)
    PROVE  Ordered'
<1>1. /\ pc[t] = "idle" /\ t \in Workers
      /\ current' = current \/ current' = [current EXCEPT ![t] = k]
      /\ pc' = pc \/ pc' = [pc EXCEPT ![t] = "push"]
      /\ UNCHANGED <<message_queue_, pushed, connVars>>
    BY DEF on_notification, on_request, Goto, queueVars, IsNext, Workers
<1>2. pc \in [Workers -> PCs] /\ current \in [Workers -> Nat]
    BY OrderTypes
<1>3. \A w \in Workers : /\ pc'[w] = "send" <=> pc[w] = "send"
                         /\ pc[w] = "send" => current'[w] = current[w]
    BY <1>1, <1>2
<1>4. InTurn'
    BY <1>1, <1>3, TurnKept DEF Ordered, connVars
<1>5. QED
    BY <1>1, <1>4, OneUnchanged DEF Ordered

\* A response is pushed behind the others.
LEMMA PushOrdered ==
    ASSUME IInv, Ordered, NEW t \in Threads, PushResponse(t)
    PROVE  Ordered'
<1>1. /\ t \in Workers /\ pc[t] = "push"
      /\ message_queue_' = Append(message_queue_, current[t])
      /\ pushed' = Append(pushed, current[t])
      /\ pc' = [pc EXCEPT ![t] = "check"]
      /\ UNCHANGED <<current, connVars>>
    BY DEF PushResponse, Goto, Workers
<1>2. current[t] \in Nat
    BY <1>1, OrderTypes
<1>3. /\ Len(pushed') = Len(pushed) + 1
      /\ \A i \in 1..Len(pushed) : pushed'[i] = pushed[i]
      /\ pushed'[Len(pushed) + 1] = current[t]
      /\ Len(message_queue_') = Len(message_queue_) + 1
      /\ \A i \in 1..Len(message_queue_) : message_queue_'[i] = message_queue_[i]
      /\ message_queue_'[Len(message_queue_) + 1] = current[t]
    BY <1>1, <1>2, OrderTypes
<1>4. UNCHANGED asked
    BY <1>1 DEF connVars
<1>5. \A w \in Workers : pc'[w] = "send" <=> pc[w] = "send"
    BY <1>1, OrderTypes
<1>6. Len(asked) + Len(message_queue_) =< Len(pushed)
    BY OrderTypes DEF Ordered, InTurn
<1>7. InTurn'
  <2>1. \A i \in 1..Len(asked) : asked[i] = pushed'[i]
      BY <1>3, <1>6, OrderTypes DEF Ordered, InTurn
  <2>2. ASSUME NEW i \in 1..Len(message_queue_')
        PROVE  message_queue_'[i] =
                    pushed'[Len(pushed') - Len(message_queue_') + i]
    <3>1. Len(pushed') - Len(message_queue_') = Len(pushed) - Len(message_queue_)
        BY <1>3, OrderTypes
    <3>2. CASE i \in 1..Len(message_queue_)
      <4>1. Len(pushed) - Len(message_queue_) + i \in 1..Len(pushed)
          BY <1>6, <3>2, OrderTypes
      <4>2. QED
          BY <1>3, <3>1, <3>2, <4>1 DEF Ordered, InTurn
    <3>3. CASE i = Len(message_queue_) + 1
      <4>1. Len(pushed) - Len(message_queue_) + i = Len(pushed) + 1
          BY <3>3, OrderTypes
      <4>2. QED
          BY <1>3, <3>1, <3>3, <4>1
    <3>4. QED
        BY <1>3, <3>2, <3>3, OrderTypes
  <2>3. ASSUME \A w \in Workers : pc'[w] # "send"
        PROVE  Len(pushed') = Len(asked) + Len(message_queue_')
    <3>1. Len(pushed) = Len(asked) + Len(message_queue_)
        BY <1>5, <2>3 DEF Ordered, InTurn
    <3>2. QED
        BY <1>3, <3>1, OrderTypes
  <2>4. ASSUME NEW w \in Workers, pc'[w] = "send"
        PROVE  /\ Len(pushed') = Len(asked) + 1 + Len(message_queue_')
               /\ current[w] = pushed'[Len(asked) + 1]
    <3>1. /\ Len(pushed) = Len(asked) + 1 + Len(message_queue_)
          /\ current[w] = pushed[Len(asked) + 1]
        BY <1>5, <2>4 DEF Ordered, InTurn
    <3>2. Len(asked) + 1 \in 1..Len(pushed)
        BY <3>1, OrderTypes
    <3>3. QED
        BY <1>3, <3>1, <3>2, OrderTypes
  <2>5. QED
      BY <1>1, <1>4, <2>1, <2>2, <2>3, <2>4 DEF InTurn
<1>8. QED
    BY <1>1, <1>7, OneUnchanged DEF Ordered

\* A thread looks at the queue.
LEMMA CheckOrdered ==
    ASSUME IInv, Ordered, NEW w \in Workers, CheckNext(w)
    PROVE  Ordered'
<1>1. /\ pc[w] = "check"
      /\ \/ pc' = [pc EXCEPT ![w] = "idle"]
         \/ pc' = [pc EXCEPT ![w] = "take"]
      /\ UNCHANGED <<message_queue_, pushed, current, connVars>>
    BY DEF CheckNext, Goto, queueVars
<1>2. \A v \in Workers : pc'[v] = "send" <=> pc[v] = "send"
    BY <1>1, OrderTypes
<1>3. InTurn'
    BY <1>1, <1>2, TurnKept DEF Ordered, connVars
<1>4. QED
    BY <1>1, <1>3, OneUnchanged DEF Ordered

\* It takes the oldest response; no other thread has one then.
LEMMA TakeOrdered ==
    ASSUME IInv, Ordered, NEW w \in Workers, TakeNext(w)
    PROVE  Ordered'
<1>1. /\ pc[w] = "take" /\ message_queue_ # <<>>
      /\ \A v \in Workers : pc[v] # "send"
      /\ current' = [current EXCEPT ![w] = Head(message_queue_)]
      /\ message_queue_' = Tail(message_queue_)
      /\ pc' = [pc EXCEPT ![w] = "send"]
      /\ UNCHANGED <<pushed, connVars>>
    BY DEF TakeNext, Goto, IInv, Mutex, Sender
<1>2. /\ Len(message_queue_) >= 1 /\ Head(message_queue_) = message_queue_[1]
      /\ Len(message_queue_') = Len(message_queue_) - 1
      /\ \A i \in 1..Len(message_queue_') :
            message_queue_'[i] = message_queue_[i + 1]
    BY <1>1, OrderTypes
<1>3. \A v \in Workers : pc'[v] = "send" => v = w
    BY <1>1, OrderTypes
<1>4. current'[w] = message_queue_[1] /\ pc'[w] = "send"
    BY <1>1, <1>2, OrderTypes
<1>5. Len(pushed) = Len(asked) + Len(message_queue_)
    BY <1>1 DEF Ordered, InTurn
<1>6. UNCHANGED asked
    BY <1>1 DEF connVars
<1>7. InTurn'
  <2>1. ASSUME NEW i \in 1..Len(message_queue_')
        PROVE  message_queue_'[i] = pushed[Len(pushed) - Len(message_queue_') + i]
    <3>1. i + 1 \in 1..Len(message_queue_)
        BY <1>2, OrderTypes
    <3>2. message_queue_[i + 1] =
              pushed[Len(pushed) - Len(message_queue_) + (i + 1)]
        BY <3>1 DEF Ordered, InTurn
    <3>3. Len(pushed) - Len(message_queue_) + (i + 1) =
              Len(pushed) - Len(message_queue_') + i
        BY <1>2, OrderTypes
    <3>4. QED
        BY <1>2, <3>2, <3>3
  <2>2. message_queue_[1] = pushed[Len(asked) + 1]
    <3>1. message_queue_[1] = pushed[Len(pushed) - Len(message_queue_) + 1]
        BY <1>2, OrderTypes DEF Ordered, InTurn
    <3>2. Len(pushed) - Len(message_queue_) + 1 = Len(asked) + 1
        BY <1>5, OrderTypes
    <3>3. QED
        BY <3>1, <3>2
  <2>3. Len(pushed) = Len(asked) + 1 + Len(message_queue_')
      BY <1>2, <1>5, OrderTypes
  <2>4. QED
      BY <1>1, <1>3, <1>4, <1>6, <2>1, <2>2, <2>3 DEF Ordered, InTurn
<1>8. QED
    BY <1>1, <1>7, OneUnchanged DEF Ordered

\* It passes the response to async_send().
LEMMA SendOrdered ==
    ASSUME IInv, Ordered, NEW w \in Workers, SendNext(w)
    PROVE  Ordered'
<1>1. /\ pc[w] = "send" /\ P!async_send(current[w])
      /\ pc' = [pc EXCEPT ![w] = "idle"]
      /\ UNCHANGED <<message_queue_, pushed, current>>
    BY SameCalls DEF SendNext, Goto, queueVars
<1>2. P!IInv /\ P!NoWrite /\ current[w] \in Nat
    BY <1>1, OrderTypes DEF IInv, Sender
<1>3. P!OneInOrder'
    BY <1>1, <1>2, ConnAssumptions, P!AsyncSendOne, Zenon DEF Ordered
<1>4. asked' = Append(asked, current[w])
    BY <1>1 DEF P!async_send
<1>5. /\ Len(asked') = Len(asked) + 1
      /\ \A i \in 1..Len(asked) : asked'[i] = asked[i]
      /\ asked'[Len(asked) + 1] = current[w]
    BY <1>2, <1>4, OrderTypes
<1>6. /\ Len(pushed) = Len(asked) + 1 + Len(message_queue_)
      /\ current[w] = pushed[Len(asked) + 1]
    BY <1>1 DEF Ordered, InTurn
<1>7. \A v \in Workers : pc'[v] # "send"
  <2>1. \A v \in Workers : pc[v] = "send" => v = w
      BY <1>1 DEF IInv, Sender
  <2>2. QED
      BY <1>1, <2>1, OrderTypes
<1>8. InTurn'
  <2>1. ASSUME NEW i \in 1..Len(asked') PROVE asked'[i] = pushed[i]
    <3>1. CASE i = Len(asked) + 1
        BY <1>5, <1>6, <3>1
    <3>2. CASE i \in 1..Len(asked)
        BY <1>5, <3>2 DEF Ordered, InTurn
    <3>3. QED
        BY <1>5, <3>1, <3>2, OrderTypes
  <2>2. Len(pushed) = Len(asked') + Len(message_queue_)
      BY <1>5, <1>6
  <2>3. QED
      BY <1>1, <1>7, <2>1, <2>2 DEF Ordered, InTurn
<1>9. QED
    BY <1>3, <1>8 DEF Ordered

\* Every step keeps the order.
LEMMA NextOrdered == IInv /\ Ordered /\ [Next]_vars => Ordered'
<1> SUFFICES ASSUME IInv, Ordered, [Next]_vars PROVE Ordered'
    OBVIOUS
<1>1. CASE UNCHANGED vars
    BY <1>1, OneUnchanged, TurnKept DEF vars, queueVars, Ordered, connVars
<1>2. QED
    BY <1>1, NextCases, AloneOrdered, OnReceivedOrdered, OnSentOrdered,
       CallOrdered, PushOrdered, CheckOrdered, TakeOrdered, SendOrdered

\* The order holds initially.
LEMMA InitOrdered == Init => Ordered
<1> SUFFICES ASSUME Init PROVE Ordered
    OBVIOUS
<1>1. /\ Len(asked) = 0 /\ Len(written) = 0 /\ Len(writing) = 0
      /\ Len(pushed) = 0 /\ Len(message_queue_) = 0 /\ asked = <<>>
      /\ tasks = <<>> /\ writing = <<>> /\ state_ = "INIT"
      /\ \A w \in Workers : pc[w] = "idle"
    BY DEF Init, Conn!Init
<1>2. P!OneInOrder
    BY <1>1 DEF P!OneInOrder, P!SendsIn, P!Pending, P!is_processing
<1>3. InTurn
    BY <1>1 DEF InTurn
<1>4. QED
    BY <1>2, <1>3 DEF Ordered

\* No two writes overlap.
LEMMA NextApart == IInv /\ ~overlapped /\ [Next]_vars => ~overlapped'
<1> SUFFICES ASSUME IInv, ~overlapped, [Next]_vars PROVE ~overlapped'
    OBVIOUS
<1>1. P!IInv /\ P!OneWrite
    BY DEF IInv, Sender
<1>2. CASE ConnectionAlone
    BY <1>1, <1>2, ConnAssumptions, P!OneWriteApart, Zenon DEF ConnectionAlone
<1>3. CASE on_received
    BY <1>1, <1>3, OnReceivedReads, ConnAssumptions, P!OneWriteApart, Zenon
<1>4. CASE on_sent
  <2>1. P!on_sent
      BY <1>4, SameRest DEF on_sent
  <2>2. QED
      BY <1>1, <2>1, ConnAssumptions, P!OneWriteApart, Zenon
<1>5. CASE \E w \in Workers : SendNext(w)
  <2>1. \E message : P!async_send(message)
      BY <1>5, SameCalls DEF SendNext
  <2>2. QED
      BY <1>1, <2>1, ConnAssumptions, P!OneWriteApart, Zenon
<1>6. CASE UNCHANGED connVars
    BY <1>6 DEF connVars
<1>7. QED
    BY <1>2, <1>3, <1>4, <1>5, <1>6, NextCases
    DEF on_notification, on_request, PushResponse, CheckNext, TakeNext, vars

LEMMA InitApart == Init => ~overlapped
BY DEF Init, Conn!Init

\* The responses that were written are the first that were pushed.
LEMMA OrderedResponses == IInv /\ Ordered /\ ~overlapped => ResponsesInOrder
<1> SUFFICES ASSUME IInv, Ordered, ~overlapped PROVE ResponsesInOrder
    OBVIOUS
<1>1. Len(written) =< Len(asked) /\ Len(asked) =< Len(pushed)
    BY OrderTypes DEF Ordered, P!OneInOrder, InTurn
<1>2. QED
    BY <1>1, OrderTypes DEF Ordered, P!OneInOrder, InTurn, ResponsesInOrder

\* Responses leave whole and in the order in which the threads pushed them,
\* although they are sent outside of the mutex by whichever thread finds them
\* (send_next_if_exists()): no write is started while another is outstanding.
THEOREM ResponsesKeepOrder == Spec => []ResponsesInOrder
BY InitOrdered, NextOrdered, InitApart, NextApart, OrderedResponses, SpecIInv,
   PTL DEF Spec

-----------------------------------------------------------------------------
(* No lost wake-up.                                                        *)

\* The connection can still send.
Live == state_ # "STOPPED" /\ ~thrown

\* is_sending_ is set only while a thread or a write will clear it or finds
\* that it has been; nothing waits in the queue without one.
Watched ==
    Live => /\ is_sending_ => ~P!NoWrite \/ \E w \in Workers : pc[w] = "send"
            /\ message_queue_ # <<>> =>
                \/ ~P!NoWrite
                \/ \E w \in Workers : pc[w] \in {"check", "take", "send"}

\* A step in which the connection loses no write and the threads do nothing.
LEMMA WatchedKept ==
    ASSUME Watched, Live' => Live, P!WriteKept,
           UNCHANGED <<message_queue_, is_sending_, pc>>
    PROVE  Watched'
<1>1. Live' => (~P!NoWrite => ~P!NoWrite')
    BY DEF Live, P!WriteKept
<1>2. QED
    BY <1>1 DEF Watched

\* The steps of the connection on its own.
LEMMA AloneWatched ==
    ASSUME IInv, Watched, ConnectionAlone PROVE Watched'
<1>1. P!WriteKept
    BY ConnAssumptions, P!StartKeepsWrite, P!AsyncCloseKeepsWrite,
       P!QuietKeepsWrite, P!NetworkKeepsWrite, Zenon DEF IInv, ConnectionAlone
<1>2. Live' => Live
  <2>1. (state_ = "STOPPED" => state_' = "STOPPED") /\ (thrown => thrown')
      BY ConnAssumptions, P!EndStays, Zenon DEF ConnectionAlone
  <2>2. QED
      BY <2>1 DEF Live
<1>3. QED
    BY <1>1, <1>2, WatchedKept DEF ConnectionAlone

\* The handler of a read.
LEMMA OnReceivedWatched ==
    ASSUME IInv, Watched, on_received PROVE Watched'
<1>1. PICK n, closes \in Nat : P!process_read_bytes(n, closes)
    BY OnReceivedReads
<1>2. P!WriteKept
    BY <1>1, ConnAssumptions, P!ProcessKeepsWrite, Zenon DEF IInv
<1>3. Live' => Live
  <2>1. \E m, c : P!process_read_bytes(m, c)
      BY <1>1
  <2>2. (state_ = "STOPPED" => state_' = "STOPPED") /\ (thrown => thrown')
      BY <2>1, ConnAssumptions, P!EndStays, Zenon
  <2>3. QED
      BY <2>2 DEF Live
<1>4. QED
    BY <1>2, <1>3, OnReceivedReads, WatchedKept

\* The thread whose write has ended looks at the queue.
LEMMA OnSentWatched ==
    ASSUME IInv, on_sent PROVE Watched'
<1>1. /\ pc' = [pc EXCEPT ![Transport] = "check"] /\ is_sending_' = FALSE
      /\ Transport \in Workers
    BY DEF on_sent, Goto, Workers
<1>2. pc'[Transport] = "check"
    BY <1>1, OrderTypes
<1>3. QED
    BY <1>1, <1>2 DEF Watched

\* A notification and the call of a method.
LEMMA CallWatched ==
    ASSUME IInv, Watched, NEW t \in Threads, NEW k \in inbox[t],
           on_notification(t, k) \/ on_request(t, k)
    PROVE  Watched'
<1>1. /\ pc[t] = "idle" /\ t \in Workers
      /\ pc' = pc \/ pc' = [pc EXCEPT ![t] = "push"]
      /\ UNCHANGED <<message_queue_, is_sending_, connVars>>
    BY DEF on_notification, on_request, Goto, queueVars, IsNext, Workers
<1>2. \A w \in Workers : pc[w] \in {"check", "take", "send"} => pc'[w] = pc[w]
    BY <1>1, OrderTypes
<1>3. QED
    BY <1>1, <1>2, ConnectionUnchanged DEF Watched, Live, connVars

\* The thread that pushed a response looks at the queue.
LEMMA PushWatched ==
    ASSUME IInv, Watched, NEW t \in Threads, PushResponse(t)
    PROVE  Watched'
<1>1. /\ pc[t] = "push" /\ t \in Workers
      /\ pc' = [pc EXCEPT ![t] = "check"]
      /\ UNCHANGED <<is_sending_, connVars>>
    BY DEF PushResponse, Goto, Workers
<1>2. /\ pc'[t] = "check"
      /\ \A w \in Workers : pc[w] = "send" => pc'[w] = "send"
    BY <1>1, OrderTypes
<1>3. QED
    BY <1>1, <1>2, ConnectionUnchanged DEF Watched, Live, connVars

\* A thread that finds is_sending_ set leaves the queue to the one that sends.
LEMMA CheckWatched ==
    ASSUME IInv, Watched, NEW w \in Workers, CheckNext(w)
    PROVE  Watched'
<1>1. /\ pc[w] = "check"
      /\ \/ pc' = [pc EXCEPT ![w] = "take"]
         \/ is_sending_ \/ message_queue_ = <<>>
      /\ \/ pc' = [pc EXCEPT ![w] = "take"]
         \/ pc' = [pc EXCEPT ![w] = "idle"]
      /\ UNCHANGED <<message_queue_, is_sending_, connVars>>
    BY DEF CheckNext, Goto, queueVars
<1>2. \A v \in Workers : pc[v] = "send" => pc'[v] = "send"
    BY <1>1, OrderTypes
<1>3. pc' = [pc EXCEPT ![w] = "take"] => pc'[w] = "take"
    BY OrderTypes
<1>4. QED
    BY <1>1, <1>2, <1>3, ConnectionUnchanged DEF Watched, Live, connVars

\* A thread that takes a response is about to send it.
LEMMA TakeWatched ==
    ASSUME IInv, NEW w \in Workers, TakeNext(w)
    PROVE  Watched'
<1>1. pc' = [pc EXCEPT ![w] = "send"]
    BY DEF TakeNext, Goto
<1>2. pc'[w] = "send"
    BY <1>1, OrderTypes
<1>3. QED
    BY <1>2 DEF Watched

\* What is passed to async_send() becomes a write.
LEMMA SendWatched ==
    ASSUME IInv, Watched, NEW w \in Workers, SendNext(w)
    PROVE  Watched'
<1>1. P!async_send(current[w]) /\ current[w] \in Nat /\ P!IInv
    BY SameCalls, OrderTypes DEF SendNext, IInv
<1>2. Live' => ~P!NoWrite'
  <2> SUFFICES ASSUME Live' PROVE ~P!NoWrite'
      OBVIOUS
  <2>1. state_ # "STOPPED" /\ state_ # "INIT" /\ state_ \in P!States
        /\ state_ # "STARTING"
      BY <1>1 DEF P!async_send, Live, P!IInv, P!TypeOK
  <2>2. P!is_processing
      BY <2>1 DEF P!States, P!is_processing
  <2> DEFINE h == P!Handler("send", "none", <<current[w]>>)
  <2>3. /\ tasks' = Append(tasks, h) /\ tasks \in Seq(P!Handlers)
        /\ h \in P!Handlers /\ h.op = "send"
    <3>1. tasks' = Append(tasks, h)
        BY <1>1, <2>2 DEF P!async_send
    <3>2. h \in P!Handlers /\ h.op = "send"
        BY <1>1 DEF P!Handlers, P!Handler
    <3>3. QED
        BY <1>1, <3>1, <3>2 DEF P!IInv, P!TypeOK
  <2> HIDE DEF h
  <2>4. Len(tasks') = Len(tasks) + 1 /\ tasks'[Len(tasks) + 1] = h
        /\ Len(tasks) \in Nat
      BY <2>3
  <2>5. Len(tasks) + 1 \in P!WriteHandlers'
      BY <2>3, <2>4 DEF P!WriteHandlers, P!WriteOps
  <2>6. QED
      BY <2>5 DEF P!NoWrite
<1>3. QED
    BY <1>2 DEF Watched

\* Every step keeps the watch.
LEMMA NextWatched == IInv /\ Watched /\ [Next]_vars => Watched'
<1> SUFFICES ASSUME IInv, Watched, [Next]_vars PROVE Watched'
    OBVIOUS
<1>1. CASE UNCHANGED vars
    BY <1>1, ConnectionUnchanged DEF vars, queueVars, Watched, Live, connVars
<1>2. QED
    BY <1>1, NextCases, AloneWatched, OnReceivedWatched, OnSentWatched,
       CallWatched, PushWatched, CheckWatched, TakeWatched, SendWatched

\* No response is left in the queue when the last thread that sends leaves: a
\* response that waits has a write or a thread that will look at the queue
\* (send_next_if_exists() and on_sent(), which clears is_sending_ without the
\* mutex).
THEOREM NoLostWakeUp == Spec => []QueueIsWatched
<1>1. Init => Watched
    BY DEF Init, Watched
<1>2. IInv /\ Watched => QueueIsWatched
  <2>1. P!WriteHandlers = {i \in 1..Len(tasks) : tasks[i].op \in Conn!WriteOps}
      BY DEF P!WriteHandlers, P!WriteOps, Conn!WriteOps
  <2>2. Conn!is_processing => state_ # "STOPPED"
      BY DEF Conn!is_processing
  <2>3. QED
      BY <2>1, <2>2 DEF Watched, Live, QueueIsWatched, P!NoWrite
<1>3. QED
    BY <1>1, <1>2, NextWatched, SpecIInv, PTL DEF Spec


-----------------------------------------------------------------------------
(* Requests are answered once.                                             *)

\* The requests that were received, by their positions.
Requested == {k \in 1..Len(received) : received[k] \in Requests}

\* A message waits for one callback context, and is not answered yet.
Posted ==
    \A t \in Threads : \A k \in inbox[t] :
        /\ k \in 1..Len(received)
        /\ \A i \in 1..Len(pushed) : pushed[i] # k
        /\ \A u \in Threads : k \in inbox[u] => u = t

\* A thread that has called the method holds a request of its own.
InHand ==
    \A v \in Workers : pc[v] = "push" =>
        /\ current[v] \in Requested
        /\ \A i \in 1..Len(pushed) : pushed[i] # current[v]
        /\ \A w \in Workers : pc[w] = "push" /\ current[w] = current[v] => w = v
        /\ \A t \in Threads : current[v] \notin inbox[t]

\* The responses pushed answer different requests.
Answered ==
    /\ \A i \in 1..Len(pushed) : pushed[i] \in Requested
    /\ \A i, j \in 1..Len(pushed) : pushed[i] = pushed[j] => i = j

Accounted == Posted /\ InHand /\ Answered

\* A step that leaves the requests where they are.
LEMMA AccountKept ==
    ASSUME Accounted, UNCHANGED <<inbox, pushed, received>>,
           \A v \in Workers : pc'[v] = "push" =>
                pc[v] = "push" /\ current'[v] = current[v]
    PROVE  Accounted'
<1>1. UNCHANGED Requested
    BY DEF Requested
<1>2. Posted' /\ Answered'
    BY <1>1 DEF Accounted, Posted, Answered
<1>3. InHand'
    BY <1>1 DEF Accounted, InHand
<1>4. QED
    BY <1>2, <1>3 DEF Accounted

\* The steps of the connection on its own.
LEMMA AloneReads ==
    ASSUME IInv, P!ReadsInOrder, ConnectionAlone
    PROVE  P!ReadsInOrder' /\ UNCHANGED received
<1>1. P!IInv
    BY DEF IInv
<1>2. P!ReadsInOrder'
    BY <1>1, ConnAssumptions, P!StartReads, P!AsyncCloseReads, P!QuietReads,
       P!NetworkReads, Zenon DEF ConnectionAlone
<1>3. P!start \/ P!async_close \/ P!Network => UNCHANGED received
    BY DEF P!start, P!async_close, P!Network, P!PeerSend, P!PeerFault,
       P!ReadCompletes, P!WritePart, P!WriteCompletes, P!netVars
<1>4. P!QuietHandler => UNCHANGED received
    BY <1>1, ConnAssumptions, P!QuietShifted, Zenon
<1>5. QED
    BY <1>2, <1>3, <1>4 DEF ConnectionAlone

LEMMA AloneAccounted ==
    ASSUME IInv, P!ReadsInOrder, Accounted, ConnectionAlone PROVE Accounted'
BY AloneReads, AccountKept DEF ConnectionAlone

\* A read adds n messages to those that were received.
LEMMA ReceivedGrows ==
    ASSUME IInv, NEW n, NEW closes, P!process_read_bytes(n, closes)
    PROVE  /\ Len(received') = Len(received) + n
           /\ \A i \in 1..Len(received) : received'[i] = received[i]
<1> DEFINE data == Head(tasks).data
<1>1. /\ P!IsNext("read_done") /\ P!Parsable(data, n)
      /\ received' = received \o SubSeq(data, 1, n)
    BY DEF P!process_read_bytes, P!IsReadDone
<1>2. data \in Seq(Items \cup {Bad})
  <2>1. P!IInv
      BY DEF IInv
  <2>2. Head(tasks) \in P!Handlers /\ Head(tasks).op = "read_done"
      BY <1>1, <2>1, ConnAssumptions, P!TakeHandler, Zenon DEF P!IsNext
  <2>3. QED
      BY <2>2 DEF P!Handlers
<1> HIDE DEF data
<1>3. SubSeq(data, 1, n) \in Seq(Items) /\ n \in Nat /\ n =< Len(data)
    BY <1>1, <1>2, ConnAssumptions, P!ParsedItems, Zenon
<1>4. Len(SubSeq(data, 1, n)) = n
    BY <1>2, <1>3
<1> DEFINE new == SubSeq(data, 1, n)
<1>5. new \in Seq(Items) /\ Len(new) = n /\ received' = received \o new
    BY <1>1, <1>3, <1>4
<1> HIDE DEF new
<1>6. received \in Seq(Items)
    BY DEF IInv, P!IInv, P!TypeOK
<1> DEFINE all == received \o new
<1>7. /\ Len(all) = Len(received) + Len(new)
      /\ \A i \in 1..Len(received) : all[i] = received[i]
    BY <1>5, <1>6, ConnAssumptions, P!ConcatHandlers, Zenon
<1> HIDE DEF all
<1>8. received' = all
    BY <1>5 DEF all
<1>9. QED
    BY <1>5, <1>7, <1>8

\* The messages of a read are posted behind those that were received.
LEMMA OnReceivedAccounted ==
    ASSUME IInv, Accounted, on_received PROVE Accounted'
<1> DEFINE Invalid(n) == {i \in 1..n : Head(tasks).data[i] \in Responses}
           base == Len(received)
<1>1. PICK n \in 0..Len(inbound) :
        /\ Conn!process_read_bytes(n, Cardinality(Invalid(n)))
        /\ \E context \in [1..n -> Threads] :
            inbox' = [t \in Threads |->
                inbox[t] \cup {base + i : i \in {j \in (1..n) \ Invalid(n) :
                                                context[j] = t}}]
    BY Zenon DEF on_received
<1>2. /\ n \in Nat /\ base \in Nat /\ received \in Seq(Items)
      /\ UNCHANGED <<pushed, pc, current>>
    BY DEF IInv, P!IInv, P!TypeOK, on_received, queueVars
<1>3. /\ Len(received') = base + n
      /\ \A i \in 1..base : received'[i] = received[i]
  <2>1. P!process_read_bytes(n, Cardinality(Invalid(n)))
      BY <1>1, SameProcessReadBytes
  <2>2. QED
      BY <2>1, ReceivedGrows
<1> HIDE DEF Invalid, base
<1>4. PICK context \in [1..n -> Threads] :
          inbox' = [t \in Threads |->
              inbox[t] \cup {base + i : i \in {j \in (1..n) \ Invalid(n) :
                                              context[j] = t}}]
    BY <1>1
<1>5. ASSUME NEW t \in Threads, NEW k \in inbox'[t]
      PROVE  \/ k \in inbox[t]
             \/ \E i \in 1..n : k = base + i /\ context[i] = t
    BY <1>4
<1>6. /\ \A t \in Threads : \A k \in inbox[t] : k \in 1..base
      /\ \A i \in 1..Len(pushed) : pushed[i] \in 1..base
      /\ \A v \in Workers : pc[v] = "push" => current[v] \in 1..base
    BY DEF Accounted, Posted, InHand, Answered, Requested, base
<1>7. Requested \subseteq Requested'
    BY <1>2, <1>3 DEF Requested, base
<1>8. Posted'
  <2> SUFFICES ASSUME NEW t \in Threads, NEW k \in inbox'[t]
               PROVE  /\ k \in 1..Len(received')
                      /\ \A i \in 1..Len(pushed) : pushed[i] # k
                      /\ \A u \in Threads : k \in inbox'[u] => u = t
      BY <1>2 DEF Posted
  <2>1. CASE k \in inbox[t]
    <3>1. k \in 1..base
        BY <1>6, <2>1
    <3>2. \A u \in Threads : k \in inbox'[u] => k \in inbox[u]
        BY <1>2, <1>5, <3>1
    <3>3. QED
        BY <1>2, <1>3, <2>1, <3>1, <3>2 DEF Accounted, Posted
  <2>2. CASE k \notin inbox[t]
    <3>1. PICK i \in 1..n : k = base + i /\ context[i] = t
        BY <1>5, <2>2
    <3>2. k \in 1..Len(received') /\ k \notin 1..base
        BY <1>2, <1>3, <3>1
    <3>3. ASSUME NEW u \in Threads, k \in inbox'[u] PROVE u = t
      <4>1. PICK j \in 1..n : k = base + j /\ context[j] = u
          BY <1>5, <1>6, <3>2, <3>3
      <4>2. i = j
          BY <1>2, <3>1, <4>1
      <4>3. QED
          BY <3>1, <4>1, <4>2
    <3>4. QED
        BY <1>6, <3>2, <3>3
  <2>3. QED
      BY <2>1, <2>2
<1>9. InHand'
  <2>1. \A v \in Workers : \A t \in Threads :
            pc[v] = "push" /\ current[v] \notin inbox[t] =>
                current[v] \notin inbox'[t]
    <3> SUFFICES ASSUME NEW v \in Workers, NEW t \in Threads, pc[v] = "push",
                        current[v] \in inbox'[t]
                 PROVE  current[v] \in inbox[t]
        OBVIOUS
    <3>1. current[v] \in 1..base
        BY <1>6
    <3>2. QED
        BY <1>2, <1>5, <3>1
  <2>2. QED
      BY <1>2, <1>7, <2>1 DEF Accounted, InHand
<1>10. Answered'
    BY <1>2, <1>7 DEF Accounted, Answered
<1>11. QED
    BY <1>8, <1>9, <1>10 DEF Accounted

\* A notification is dropped, a request passes to the thread.
LEMMA CallAccounted ==
    ASSUME IInv, P!ReadsInOrder, Accounted, NEW t \in Threads,
           NEW k \in inbox[t], on_notification(t, k) \/ on_request(t, k)
    PROVE  Accounted'
<1>1. /\ inbox' = [inbox EXCEPT ![t] = @ \ {k}]
      /\ UNCHANGED <<pushed, received, inbound>> /\ t \in Workers
    BY DEF on_notification, on_request, queueVars, connVars, Workers
<1>2. \A u \in Threads : inbox'[u] = IF u = t THEN inbox[t] \ {k} ELSE inbox[u]
    BY <1>1 DEF IInv, QueueTypes
<1>3. UNCHANGED Requested
    BY <1>1 DEF Requested
<1>4. Posted' /\ Answered'
    BY <1>1, <1>2, <1>3 DEF Accounted, Posted, Answered
<1>5. CASE on_notification(t, k)
  <2>1. UNCHANGED <<pc, current>>
      BY <1>5 DEF on_notification
  <2>2. InHand'
      BY <1>1, <1>2, <1>3, <2>1 DEF Accounted, InHand
  <2>3. QED
      BY <1>4, <2>2 DEF Accounted
<1>6. CASE on_request(t, k)
  <2>1. /\ k \in Requested /\ \A i \in 1..Len(pushed) : pushed[i] # k
        /\ \A u \in Threads : k \notin inbox'[u]
    <3>1. k \in 1..Len(received) /\ inbound[k] \in Requests
        BY <1>6 DEF Accounted, Posted, on_request
    <3>2. received[k] = inbound[k]
        BY <3>1 DEF P!ReadsInOrder
    <3>3. QED
        BY <1>2, <3>1, <3>2 DEF Accounted, Posted, Requested
  <2>2. \A w \in Workers : pc[w] = "push" => current[w] # k
      BY DEF Accounted, InHand
  <2>3. \A w \in Workers :
            /\ pc'[w] = IF w = t THEN "push" ELSE pc[w]
            /\ current'[w] = IF w = t THEN k ELSE current[w]
      BY <1>6, OrderTypes DEF on_request, Goto
  <2>4. ASSUME NEW v \in Workers, pc'[v] = "push"
        PROVE  /\ current'[v] \in Requested
               /\ \A i \in 1..Len(pushed) : pushed[i] # current'[v]
               /\ \A w \in Workers :
                    pc'[w] = "push" /\ current'[w] = current'[v] => w = v
               /\ \A u \in Threads : current'[v] \notin inbox'[u]
    <3>1. CASE v = t
        BY <2>1, <2>2, <2>3, <3>1
    <3>2. CASE v # t
        BY <1>1, <1>2, <2>2, <2>3, <2>4, <3>2 DEF Accounted, InHand
    <3>3. QED
        BY <3>1, <3>2
  <2>5. InHand'
      BY <1>1, <1>3, <2>4 DEF InHand
  <2>6. QED
      BY <1>4, <2>5 DEF Accounted
<1>7. QED
    BY <1>5, <1>6

\* A response is pushed for the request in hand.
LEMMA PushAccounted ==
    ASSUME IInv, Accounted, NEW t \in Threads, PushResponse(t)
    PROVE  Accounted'
<1>1. /\ t \in Workers /\ pc[t] = "push"
      /\ pushed' = Append(pushed, current[t])
      /\ pc' = [pc EXCEPT ![t] = "check"]
      /\ UNCHANGED <<current, inbox, received>>
    BY DEF PushResponse, Goto, Workers, connVars
<1>2. /\ Len(pushed') = Len(pushed) + 1 /\ Len(pushed) \in Nat
      /\ \A i \in 1..Len(pushed) : pushed'[i] = pushed[i]
      /\ pushed'[Len(pushed) + 1] = current[t]
    BY <1>1, OrderTypes
<1>3. ASSUME NEW i \in 1..Len(pushed')
      PROVE  (i \in 1..Len(pushed) /\ pushed'[i] = pushed[i])
             \/ (i = Len(pushed) + 1 /\ pushed'[i] = current[t])
    BY <1>2
<1>4. /\ current[t] \in Requested
      /\ \A i \in 1..Len(pushed) : pushed[i] # current[t]
      /\ \A w \in Workers : pc[w] = "push" /\ current[w] = current[t] => w = t
      /\ \A u \in Threads : current[t] \notin inbox[u]
    BY <1>1 DEF Accounted, InHand
<1>5. UNCHANGED Requested
    BY <1>1 DEF Requested
<1>6. Posted'
  <2>1. ASSUME NEW u \in Threads, NEW k \in inbox[u]
        PROVE  \A i \in 1..Len(pushed') : pushed'[i] # k
      BY <1>3, <1>4 DEF Accounted, Posted
  <2>2. QED
      BY <1>1, <2>1 DEF Accounted, Posted
<1>7. InHand'
  <2>1. \A v \in Workers : pc'[v] = "push" => v # t /\ pc[v] = "push"
      BY <1>1, OrderTypes
  <2>2. ASSUME NEW v \in Workers, pc'[v] = "push"
        PROVE  \A i \in 1..Len(pushed') : pushed'[i] # current[v]
      BY <1>3, <1>4, <2>1, <2>2 DEF Accounted, InHand
  <2>3. QED
      BY <1>1, <1>5, <2>1, <2>2 DEF Accounted, InHand
<1>8. Answered'
  <2>1. \A i \in 1..Len(pushed') : pushed'[i] \in Requested
      BY <1>3, <1>4 DEF Accounted, Answered
  <2>2. ASSUME NEW i \in 1..Len(pushed'), NEW j \in 1..Len(pushed'),
               pushed'[i] = pushed'[j]
        PROVE  i = j
      BY <1>3, <1>4, <2>2 DEF Accounted, Answered
  <2>3. QED
      BY <1>5, <2>1, <2>2 DEF Answered
<1>9. QED
    BY <1>6, <1>7, <1>8 DEF Accounted

\* The end of a write, and a thread that looks at the queue.
LEMMA SendingAccounted ==
    ASSUME IInv, P!ReadsInOrder, Accounted,
           on_sent \/ \E w \in Workers : CheckNext(w) \/ TakeNext(w) \/ SendNext(w)
    PROVE  P!ReadsInOrder' /\ Accounted' /\ UNCHANGED received
<1>1. P!IInv
    BY DEF IInv
<1>2. CASE on_sent
  <2>1. /\ P!on_sent /\ pc' = [pc EXCEPT ![Transport] = "check"]
        /\ UNCHANGED <<inbox, pushed, current>>
      BY <1>2, SameRest DEF on_sent, Goto
  <2>2. P!ReadsInOrder'
      BY <1>1, <2>1, ConnAssumptions, P!OnSentReads, Zenon
  <2>3. UNCHANGED received
      BY <2>1 DEF P!on_sent, P!Ignore
  <2>4. \A v \in Workers : pc'[v] = "push" => pc[v] = "push"
      BY <2>1, OrderTypes
  <2>5. QED
      BY <2>1, <2>2, <2>3, <2>4, AccountKept
<1>3. ASSUME NEW w \in Workers, CheckNext(w) \/ TakeNext(w)
      PROVE  P!ReadsInOrder' /\ Accounted' /\ UNCHANGED received
  <2>1. /\ \/ pc' = [pc EXCEPT ![w] = "idle"] \/ pc' = [pc EXCEPT ![w] = "take"]
           \/ pc' = [pc EXCEPT ![w] = "send"]
        /\ UNCHANGED <<inbox, pushed, connVars>>
        /\ \A v \in Workers : v # w => current'[v] = current[v]
      BY <1>3, OrderTypes DEF CheckNext, TakeNext, Goto, queueVars
  <2>2. \A v \in Workers : pc'[v] = "push" => v # w /\ pc[v] = "push"
      BY <2>1, OrderTypes
  <2>3. P!ReadsInOrder' /\ UNCHANGED received
      BY <2>1 DEF P!ReadsInOrder, P!HandsOver, connVars
  <2>4. QED
      BY <2>1, <2>2, <2>3, AccountKept
<1>4. ASSUME NEW w \in Workers, SendNext(w)
      PROVE  P!ReadsInOrder' /\ Accounted' /\ UNCHANGED received
  <2>1. /\ P!async_send(current[w]) /\ current[w] \in Nat
        /\ pc' = [pc EXCEPT ![w] = "idle"]
        /\ UNCHANGED <<inbox, pushed, current>>
      BY <1>4, SameCalls, OrderTypes DEF SendNext, Goto, queueVars
  <2>2. P!ReadsInOrder'
      BY <1>1, <2>1, ConnAssumptions, P!AsyncSendReads, Zenon
  <2>3. UNCHANGED received
      BY <2>1 DEF P!async_send
  <2>4. \A v \in Workers : pc'[v] = "push" => pc[v] = "push"
      BY <2>1, OrderTypes
  <2>5. QED
      BY <2>1, <2>2, <2>3, <2>4, AccountKept
<1>5. QED
    BY <1>2, <1>3, <1>4

\* Every step keeps the account.
LEMMA NextAccounted ==
    IInv /\ P!ReadsInOrder /\ Accounted /\ [Next]_vars =>
        P!ReadsInOrder' /\ Accounted'
<1> SUFFICES ASSUME IInv, P!ReadsInOrder, Accounted, [Next]_vars
             PROVE  P!ReadsInOrder' /\ Accounted'
    OBVIOUS
<1>1. CASE on_received
  <2>1. PICK n, closes \in Nat : P!process_read_bytes(n, closes)
      BY <1>1, OnReceivedReads
  <2>2. P!ReadsInOrder'
      BY <2>1, ConnAssumptions, P!ProcessReads, Zenon DEF IInv
  <2>3. QED
      BY <1>1, <2>2, OnReceivedAccounted
<1>2. ASSUME UNCHANGED connVars PROVE P!ReadsInOrder'
    BY <1>2 DEF P!ReadsInOrder, P!HandsOver, connVars
<1>3. CASE \E t \in Threads : \E k \in inbox[t] :
                on_notification(t, k) \/ on_request(t, k)
    BY <1>2, <1>3, CallAccounted DEF on_notification, on_request
<1>4. CASE \E t \in Threads : PushResponse(t)
    BY <1>2, <1>4, PushAccounted DEF PushResponse
<1>5. CASE UNCHANGED vars
    BY <1>2, <1>5, AccountKept DEF vars, queueVars, connVars
<1>6. QED
    BY <1>1, <1>3, <1>4, <1>5, NextCases, AloneReads, AloneAccounted,
       SendingAccounted


\* Nothing is received or posted at first.
LEMMA InitAccounted == Init => P!ReadsInOrder /\ Accounted
<1> SUFFICES ASSUME Init PROVE P!ReadsInOrder /\ Accounted
    OBVIOUS
<1>1. P!Init
    BY SameState DEF Init
<1>2. P!ReadsInOrder
    BY <1>1, ConnAssumptions, P!InitReads, Zenon
<1>3. Len(pushed) = 0 /\ \A t \in Threads : inbox[t] = {}
    BY DEF Init
<1>4. \A w \in Workers : pc[w] # "push"
    BY DEF Init
<1>5. Accounted
    BY <1>3, <1>4 DEF Accounted, Posted, InHand, Answered
<1>6. QED
    BY <1>2, <1>5

\* What was received stays received.
LEMMA RequestedGrows ==
    ASSUME IInv, P!ReadsInOrder, Accounted, [Next]_vars
    PROVE  Requested \subseteq Requested'
<1>1. CASE on_received
  <2>1. PICK n, closes \in Nat : P!process_read_bytes(n, closes)
      BY <1>1, OnReceivedReads
  <2>2. /\ Len(received') = Len(received) + n
        /\ \A i \in 1..Len(received) : received'[i] = received[i]
      BY <2>1, ReceivedGrows
  <2>3. Len(received) \in Nat
      BY DEF IInv, P!IInv, P!TypeOK
  <2>4. QED
      BY <2>2, <2>3 DEF Requested
<1>2. UNCHANGED connVars => UNCHANGED received
    BY DEF connVars
<1>3. CASE UNCHANGED received
    BY <1>3 DEF Requested
<1>4. CASE \/ \E t \in Threads : \E k \in inbox[t] :
                    on_notification(t, k) \/ on_request(t, k)
           \/ \E t \in Threads : PushResponse(t)
           \/ UNCHANGED vars
    BY <1>2, <1>3, <1>4
    DEF on_notification, on_request, PushResponse, vars, connVars
<1>5. QED
    BY <1>1, <1>3, <1>4, NextCases, AloneReads, SendingAccounted

\* Only the end of a write writes, and nothing else happens to the responses.
LEMMA OneWritten ==
    ASSUME IInv, [Next]_vars
    PROVE  \/ UNCHANGED written
           \/ /\ UNCHANGED <<received, pushed>>
              /\ \E m \in Nat : written' = Append(written, m)
<1>1. P!IInv
    BY DEF IInv
<1>2. CASE ConnectionAlone
  <2>1. CASE P!start \/ P!async_close
      BY <2>1 DEF P!start, P!async_close
  <2>2. CASE P!QuietHandler
      BY <1>1, <2>2, ConnAssumptions, P!QuietShifted, Zenon
  <2>3. CASE P!Network
    <3>1. CASE P!WriteCompletes
      <4>1. Head(writing) \in Nat
          BY <1>1, <3>1 DEF P!WriteCompletes, P!IInv, P!TypeOK
      <4>2. QED
          BY <1>2, <3>1, <4>1 DEF P!WriteCompletes, ConnectionAlone
    <3>2. QED
        BY <2>3, <3>1 DEF P!Network, P!PeerSend, P!PeerFault, P!ReadCompletes,
           P!WritePart
  <2>4. QED
      BY <1>2, <2>1, <2>2, <2>3 DEF ConnectionAlone
<1>3. CASE on_received
  <2>1. PICK n, closes \in Nat : P!process_read_bytes(n, closes)
      BY <1>3, OnReceivedReads
  <2>2. QED
      BY <2>1 DEF P!process_read_bytes
<1>4. CASE on_sent
    BY <1>4, SameRest DEF on_sent, P!on_sent, P!Ignore
<1>5. ASSUME NEW w \in Workers, SendNext(w) PROVE UNCHANGED written
    BY <1>5, SameCalls DEF SendNext, P!async_send
<1>6. CASE \/ \E t \in Threads : \E k \in inbox[t] :
                    on_notification(t, k) \/ on_request(t, k)
           \/ \E t \in Threads : PushResponse(t)
           \/ \E w \in Workers : CheckNext(w)
           \/ \E w \in Workers : TakeNext(w)
           \/ UNCHANGED vars
    BY <1>6 DEF on_notification, on_request, PushResponse, CheckNext, TakeNext,
       vars, connVars
<1>7. QED
    BY <1>2, <1>3, <1>4, <1>5, <1>6, NextCases

\* Every step is a step of Responder, or stutters.
LEMMA StepAnswers ==
    ASSUME IInv, ResponsesInOrder', P!ReadsInOrder, Accounted, [Next]_vars
    PROVE  [Abstract!Next]_<<Requested, written>>
<1>1. CASE UNCHANGED written
    BY <1>1, RequestedGrows DEF Abstract!Next, Abstract!Receive, Requested
<1>2. CASE /\ UNCHANGED <<received, pushed>>
           /\ \E m \in Nat : written' = Append(written, m)
  <2>1. PICK m \in Nat : written' = Append(written, m)
      BY <1>2
  <2>2. /\ Len(written') = Len(written) + 1 /\ Len(written) \in Nat
        /\ \A i \in 1..Len(written) : written'[i] = written[i]
        /\ written'[Len(written) + 1] = m
      BY <2>1, OrderTypes
  <2>3. /\ Len(written') =< Len(pushed)
        /\ \A i \in 1..Len(written') : written'[i] = pushed[i]
      BY <1>2 DEF ResponsesInOrder
  <2>4. Len(written) + 1 \in 1..Len(pushed) /\ m = pushed[Len(written) + 1]
      BY <2>2, <2>3, OrderTypes
  <2>5. m \in Requested
      BY <2>4 DEF Accounted, Answered
  <2>6. m \notin Abstract!Answered
    <3> SUFFICES ASSUME NEW i \in 1..Len(written), written[i] = m PROVE FALSE
        BY DEF Abstract!Answered
    <3>1. i \in 1..Len(written') /\ i \in 1..Len(pushed) /\ pushed[i] = m
      <4>1. i \in 1..Len(written') /\ i \in 1..Len(pushed)
          BY <2>2, <2>4, OrderTypes
      <4>2. written'[i] = written[i] /\ written'[i] = pushed[i]
          BY <2>2, <2>3, <4>1
      <4>3. QED
          BY <4>1, <4>2
    <3>2. i = Len(written) + 1
        BY <2>4, <3>1 DEF Accounted, Answered
    <3>3. QED
        BY <2>2, <3>2
  <2>7. UNCHANGED Requested
      BY <1>2 DEF Requested
  <2>8. QED
      BY <2>1, <2>5, <2>6, <2>7
      DEF Abstract!Next, Abstract!Answer, Requested
<1>3. QED
    BY <1>1, <1>2, OneWritten

\* A server connection implements Responder: it answers only requests that were
\* received on this connection, each at most once, however its threads and its
\* transport interleave (on_request() and send_next_if_exists()).
THEOREM AnswersOnce == Spec => AnswersRequestsOnce
<1>1. Init => Abstract!Init
  <2> SUFFICES ASSUME Init PROVE Abstract!Init
      OBVIOUS
  <2>1. Len(received) = 0 /\ written = <<>>
      BY DEF Init, Conn!Init
  <2>2. QED
      BY <2>1 DEF Abstract!Init
<1>2. IInv /\ ResponsesInOrder' /\ P!ReadsInOrder /\ Accounted /\ [Next]_vars =>
          [Abstract!Next]_<<{k \in 1..Len(received) : received[k] \in Requests},
                            written>>
    BY StepAnswers DEF Requested
<1>3. QED
    BY <1>1, <1>2, SpecIInv, ResponsesKeepOrder, InitAccounted, NextAccounted, PTL
    DEF Spec, AnswersRequestsOnce, Abstract!Spec
=============================================================================
