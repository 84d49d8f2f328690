------------------------------- MODULE CallPath -------------------------------
(***************************************************************************)
(* A call from the arguments the user gives to the value or the exception  *)
(* the user gets (clients/client.h, impl/client_impl.h,                    *)
(* parameters_serializer.h, call_future.h, server_exception.h,             *)
(* impl/received_message_processor.h, servers/impl/server_connection.h,    *)
(* messages/message_parser.cpp): serialized, cut into pieces by the        *)
(* network, parsed from a buffer of limited size, executed by one of the   *)
(* callback threads of the server, and back.                               *)
(*                                                                         *)
(* The connection does not fail here; Connection, ServerConnection and     *)
(* CallList are about that.  Either program may be another implementation  *)
(* of MessagePack-RPC, which sends the messages in Foreign and Replies.    *)
(***************************************************************************)
EXTENDS Methods, FiniteSets

CONSTANTS
    Invocations,        \* what a user may call: a name, arguments, the type of
                        \*   the result, and whether it is a notification
    Foreign,            \* other messages the server may get
    Replies,            \* other messages the client may get
    MaxSent,            \* bound: messages sent to the server
    MaxReplies,         \* bound: messages of Replies
    ReadBufferSize      \* read_buffer_size of the configuration

\* Within the first round of the IDs, where an ID tells the place of a request;
\* CallList is about IDs that come again.
ASSUME BoundsAssumption ==
    /\ ReadBufferSize \in Nat \ {0}
    /\ NumIDs \in Nat \ {0}
    /\ MaxSent \in 0..NumIDs

\* Arguments are objects without elements.
ASSUME InvocationsAssumption ==
    \A i \in Invocations : i.name \in Names /\ i.arguments \in Seq(Scalars)

ASSUME MethodsAssumption ==
    Appended \in Seq([name : Names, parameters : Seq(TokenTypes), is_void : BOOLEAN])

Malformed == [type |-> "MALFORMED"]

\* A whole message for the parser, which stops at a byte that begins no object,
\* and what it means.
IsMessage(tokens) ==
    /\ tokens \in Seq(Tokens)
    /\ Broken(tokens) \/ (Complete(tokens) /\ End(tokens, 1) = Len(tokens))
Meaning(tokens) ==
    IF Succeeded(try_parse(tokens)) THEN try_parse(tokens).value ELSE Malformed

\* The array of the parameters
Flat(arguments) == <<Arr(Len(arguments))>> \o arguments

\* Another client may send anything but requests, whose answers would not be
\* for this one, and parameters as those of Invocations.
ASSUME ForeignAssumption ==
    \A f \in Foreign :
        /\ IsMessage(f.tokens) /\ f.meaning = Meaning(f.tokens)
        /\ f.meaning.type \in {"MALFORMED", "RESPONSE", "NOTIFICATION"}
        /\ f.meaning.type = "NOTIFICATION" =>
              /\ f.meaning.method_name \in Names
              /\ Tail(f.meaning.parameters) \in Seq(Scalars)
              /\ f.meaning.parameters = Flat(Tail(f.meaning.parameters))

\* Another server may answer what was never asked, or send what is no response.
ASSUME RepliesAssumption ==
    \A r \in Replies :
        /\ IsMessage(r)
        /\ Meaning(r).type = "RESPONSE" => Meaning(r).id \in MaxSent..(NumIDs - 1)

Sides == {"server", "client"}

VARIABLES
    sent,       \* what was sent to the server, as it is meant
    wire,       \* tokens on the way to each side
    buffer,     \* tokens in the buffer of the parser of each side
    open,       \* the connection of each side reads
    closing,    \* the server posted a close of its connection
    received,   \* messages parsed by the server
    tasks,      \* messages posted to the callback threads of the server
    invoked,    \* calls of functions of the user
    replied,    \* number of messages of Replies sent
    result      \* the CallResult each future holds, by message ID

pathVars == <<sent, wire, buffer, open, closing, received, tasks, invoked, replied, result>>

\* The ID of the message sent next, from RequestIDGenerator.
NextID == Len(sent) % NumIDs

NoResult == CallResult(FALSE, <<>>)

PathInit ==
    /\ sent = <<>>
    /\ wire = [s \in Sides |-> <<>>]
    /\ buffer = [s \in Sides |-> <<>>]
    /\ open = [s \in Sides |-> TRUE] /\ closing = FALSE
    /\ received = <<>> /\ tasks = {} /\ invoked = <<>>
    /\ replied = 0
    /\ result = [i \in 0..(NumIDs - 1) |-> NoResult]

-----------------------------------------------------------------------------
(* The client sends.                                                       *)

\* ParametersSerializer: a request or a notification with these parameters
Serialized(i, id) ==
    IF i.is_notification THEN serialize_notification(i.name, i.arguments)
                         ELSE serialize_request(i.name, id, i.arguments)

\* Client::async_call() and notify(): ParametersSerializer, then the sender.
Send(i) ==
    /\ Len(sent) < MaxSent
    /\ wire' = [wire EXCEPT !["server"] = @ \o Serialized(i, NextID)]
    /\ sent' = Append(sent,
                   IF i.is_notification
                   THEN ParsedNotification(i.name, Flat(i.arguments))
                   ELSE ParsedRequest(NextID, i.name, Flat(i.arguments)))
    /\ UNCHANGED <<buffer, open, closing, received, tasks, invoked, replied, result>>

\* Another program as the client.
ForeignSend(f) ==
    /\ Len(sent) < MaxSent
    /\ wire' = [wire EXCEPT !["server"] = @ \o f.tokens]
    /\ sent' = Append(sent, f.meaning)
    /\ UNCHANGED <<buffer, open, closing, received, tasks, invoked, replied, result>>

-----------------------------------------------------------------------------
(* Both sides read.                                                        *)

\* Fault: what the last read left in the buffer is dropped.
BufferOnly(s, n) == SubSeq(wire[s], 1, n)

\* prepare_buffer() and consumed(): the parser keeps what is not complete.
Buffered(s, n) == buffer[s] \o SubSeq(wire[s], 1, n)

\* A read of up to read_buffer_size, when the buffer holds no whole object.
Read(s, n) ==
    /\ open[s] /\ ~Broken(buffer[s]) /\ ~Complete(buffer[s])
    /\ n <= Len(wire[s])
    /\ buffer' = [buffer EXCEPT ![s] = Buffered(s, n)]
    /\ wire' = [wire EXCEPT ![s] = SubSeq(@, n + 1, Len(@))]
    /\ UNCHANGED <<sent, open, closing, received, tasks, invoked, replied, result>>

Parsable(s) == open[s] /\ (Broken(buffer[s]) \/ Complete(buffer[s]))

\* try_parse() throws: the connection is closed.
ParseFails(s) ==
    /\ Parsable(s) /\ ~Succeeded(try_parse(buffer[s]))
    /\ open' = [open EXCEPT ![s] = FALSE]
    /\ UNCHANGED <<sent, wire, buffer, closing, received, tasks, invoked, replied, result>>

\* ServerConnection::on_received(): requests and notifications are posted to
\* the callback threads; for a response a close is posted, and the messages
\* that the buffer holds are still taken.
ServerParses ==
    /\ Parsable("server") /\ Succeeded(try_parse(buffer["server"]))
    /\ LET message == try_parse(buffer["server"]).value
       IN /\ received' = Append(received, message)
          /\ IF message.type = "RESPONSE"
                THEN closing' = TRUE /\ UNCHANGED tasks
                ELSE tasks' = tasks \cup {Len(received) + 1} /\ UNCHANGED closing
    /\ buffer' = [buffer EXCEPT !["server"] = Rest(@)]
    /\ UNCHANGED <<sent, wire, open, invoked, replied, result>>

\* The posted close runs, when no handler of the connection does.
ServerCloses ==
    /\ closing /\ open["server"] /\ ~Parsable("server")
    /\ open' = [open EXCEPT !["server"] = FALSE]
    /\ UNCHANGED <<sent, wire, buffer, closing, received, tasks, invoked, replied,
                   result>>

\* ReceivedMessageProcessor and CallList::handle(): only the response to a call
\* that waits for one has an effect.
ClientParses ==
    /\ Parsable("client") /\ Succeeded(try_parse(buffer["client"]))
    /\ LET message == try_parse(buffer["client"]).value
       IN result' = IF /\ message.type = "RESPONSE"
                       /\ message.id < Len(sent)
                       /\ sent[message.id + 1].type = "REQUEST"
                       /\ result[message.id] = NoResult
                    THEN [result EXCEPT ![message.id] = message.result]
                    ELSE result
    /\ buffer' = [buffer EXCEPT !["client"] = Rest(@)]
    /\ UNCHANGED <<sent, wire, open, closing, received, tasks, invoked, replied>>

-----------------------------------------------------------------------------
(* The server executes and answers, in the order its threads come to it.   *)

\* Fault: a request that could not be executed is not answered.
AnswerInvoked(message) ==
    IF message.type = "REQUEST" /\ Invoked(message) # <<>> THEN call(message) ELSE <<>>

\* ServerConnection: call() and a response, or notify() and none.
Answer(message) == IF message.type = "REQUEST" THEN call(message) ELSE <<>>

\* A connection that was closed sends nothing.
Execute(i) ==
    /\ tasks' = tasks \ {i}
    /\ invoked' = invoked \o Invoked(received[i])
    /\ wire' = [wire EXCEPT !["client"] =
                   IF open["server"] THEN @ \o Answer(received[i]) ELSE @]
    /\ UNCHANGED <<sent, buffer, open, closing, received, replied, result>>

\* Another program as the server.
ForeignReply(tokens) ==
    /\ replied < MaxReplies
    /\ replied' = replied + 1
    /\ wire' = [wire EXCEPT !["client"] = @ \o tokens]
    /\ UNCHANGED <<sent, buffer, open, closing, received, tasks, invoked, result>>

PathNext ==
    \/ \E i \in Invocations : Send(i)
    \/ \E f \in Foreign : ForeignSend(f)
    \/ \E s \in Sides, n \in 1..ReadBufferSize : Read(s, n)
    \/ \E s \in Sides : ParseFails(s)
    \/ ServerParses \/ ServerCloses
    \/ ClientParses
    \/ \E i \in tasks : Execute(i)
    \/ \E r \in Replies : ForeignReply(r)

PathSpec == PathInit /\ [][PathNext]_pathVars

-----------------------------------------------------------------------------
(* The future of a call.                                                   *)

Gives(ends, with) == [ends |-> ends, with |-> with]

\* A ServerException holds the object of the error.
ServerException(object) == Gives("ServerException", object)

\* CallFuture<void>::get_result(): any result is good.
VoidFutureGives(call_result) ==
    IF call_result.is_error THEN ServerException(call_result.object[1])
                            ELSE Gives("returns", Nil)

\* CallFuture<Result>::get_result()
FutureGives(call_result, type) ==
    IF type = "void" THEN VoidFutureGives(call_result)
    ELSE IF call_result.is_error THEN ServerException(call_result.object[1])
    ELSE IF Succeeded(As(call_result.object, type))
         THEN Gives("returns", As(call_result.object, type).value)
         ELSE Gives("TYPE_ERROR", Nil)

-----------------------------------------------------------------------------
(* Properties.                                                             *)

Named(name) == {i \in DOMAIN Appended : Appended[i].name = name}
MethodOf(name) == Appended[CHOOSE i \in Named(name) : \A j \in Named(name) : i <= j]

\* The method exists, and takes these arguments.
Countable(name, arguments) ==
    Named(name) # {} /\ Len(arguments) = Len(MethodOf(name).parameters)
Callable(name, arguments) ==
    /\ Countable(name, arguments)
    /\ \A i \in DOMAIN arguments : Converts(arguments[i], MethodOf(name).parameters[i])

\* The arguments as the function takes them
Passed(name, arguments) ==
    [i \in DOMAIN arguments |-> Converted(arguments[i], MethodOf(name).parameters[i])]

\* A function returns or throws an object without elements.
ASSUME FunctionAssumption ==
    \A i \in Invocations : Callable(i.name, i.arguments) =>
        Function(i.name, Passed(i.name, i.arguments)) \in
            [ends : {"returns", "MethodException", "exception"}, with : Scalars]

\* What the user is to get from a call: the effect of a local call of the
\* function, and an error for an unknown method or for wrong parameters.  A
\* MethodException that carries nil cannot be told from a result of nil.
Local(name, arguments, type) ==
    LET outcome == Function(name, Passed(name, arguments))
        object == IF MethodOf(name).is_void /\ outcome.ends = "returns" THEN Nil
                  ELSE outcome.with
    IN IF ~Callable(name, arguments)
       THEN ServerException(IF Countable(name, arguments) THEN Str(1) ELSE Str(0))
       ELSE IF outcome.ends # "returns" /\ object # Nil
       THEN ServerException(object)
       ELSE IF type = "void" THEN Gives("returns", Nil)
       ELSE IF Converts(object, type) THEN Gives("returns", Converted(object, type))
       ELSE Gives("TYPE_ERROR", Nil)

\* A remote call ends as the local call would, whatever pieces the messages
\* came in, whichever thread ran first and whatever else was received: the
\* value, the object of the exception, or the error of wrong parameters.
CallIsTransparent ==
    \A id \in DOMAIN result : result[id] # NoResult =>
        LET request == sent[id + 1]
        IN \A i \in Invocations :
              /\ i.name = request.method_name
              /\ Flat(i.arguments) = request.parameters
              => FutureGives(result[id], i.type) = Local(i.name, i.arguments, i.type)

\* The server gets the messages that were sent, in order, up to the first one
\* that is malformed, and closes the connection only there or after a response:
\* no message is lost or altered where a read ended in its middle.
ReceivedAsSent ==
    /\ Len(received) <= Len(sent)
    /\ \A i \in DOMAIN received : received[i] = sent[i]
    /\ ~open["server"] =>
          \/ Len(received) < Len(sent) /\ sent[Len(received) + 1] = Malformed
          \/ \E i \in DOMAIN received : received[i].type = "RESPONSE"

\* Every message executed runs the function of its method once, if there is one
\* and the arguments are right.  A request is answered once and a notification
\* never: when nothing is on the way to the client, it has the results of the
\* requests executed and no others (MethodProcessor::call(), notify()).
Executed == {i \in DOMAIN received \ tasks : received[i].type # "RESPONSE"}
Answered == {id \in DOMAIN result : result[id] # NoResult}
ExecutedAndAnsweredOnce ==
    /\ Len(invoked) = Cardinality({i \in Executed :
                          Callable(received[i].method_name, Tail(received[i].parameters))})
    /\ open["server"] /\ wire["client"] = <<>> /\ buffer["client"] = <<>> =>
          Answered = {received[i].id : i \in {j \in Executed : received[j].type = "REQUEST"}}
=============================================================================
