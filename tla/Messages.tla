------------------------------- MODULE Messages -------------------------------
(***************************************************************************)
(* The messages of MessagePack-RPC as they are on the wire                 *)
(* (messages/message_serializer.h, message_parser.cpp,                     *)
(* impl/parse_message_from_object.h, parsed_*.h, call_result.h).           *)
(*                                                                         *)
(* Serialized data is a sequence of tokens: one for the header of an array *)
(* and one for any other object.  An object is the sequence of its tokens, *)
(* so where it ends is computed from the headers, as the unpacker does.    *)
(***************************************************************************)
EXTENDS Integers, Sequences, Common

CONSTANT NumIDs     \* values of MessageID, 2^32 in the code

Token(type, n) == [type |-> type, n |-> n]
Nil == Token("nil", 0)
Num(n) == Token("int", n)
Str(n) == Token("str", n)       \* the n-th text
Arr(n) == Token("array", n)     \* the header of an array of n objects
Bad == Token("bad", 0)          \* a byte that begins no object

TokenTypes == {"nil", "bool", "int", "float", "str", "bin", "array", "bad"}
Tokens == [type : TokenTypes, n : Int]
Scalars == [type : TokenTypes \ {"array", "bad"}, n : Int]
Names == [type : {"str"}, n : Int]

-----------------------------------------------------------------------------
(* MessageSerializer.                                                      *)

\* The values of MessageType
REQUEST == 0
RESPONSE == 1
NOTIFICATION == 2

serialize_request(method_name, id, parameters) ==
    <<Arr(4), Num(REQUEST), Num(id), method_name, Arr(Len(parameters))>> \o parameters

serialize_successful_response(id, result) ==
    <<Arr(4), Num(RESPONSE), Num(id), Nil, result>>

serialize_error_response(id, error) ==
    <<Arr(4), Num(RESPONSE), Num(id), error, Nil>>

serialize_notification(method_name, parameters) ==
    <<Arr(3), Num(NOTIFICATION), method_name, Arr(Len(parameters))>> \o parameters

-----------------------------------------------------------------------------
(* The unpacker of the msgpack library.                                    *)

Arity(token) == IF token.type = "array" THEN token.n ELSE 0

\* Objects that are missing after tokens i to k, if one object begins at i.
Missing(s, i, k) ==
    LET missing[j \in 0..Len(s)] ==
            IF j < i THEN 1 ELSE missing[j - 1] - 1 + Arity(s[j])
    IN missing[k]

\* Where an object that begins at token i ends; empty if it is not complete.
Ends(s, i) == {k \in i..Len(s) : Missing(s, i, k) = 0}
End(s, i) == CHOOSE k \in Ends(s, i) : \A e \in Ends(s, i) : k <= e

\* msgpack::unpacker::next(): it throws at a byte that begins no object.
Broken(s) == \E k \in 1..Len(s) : s[k] = Bad /\ \A e \in Ends(s, 1) : k <= e
Complete(s) == Ends(s, 1) # {}
FirstObject(s) == SubSeq(s, 1, End(s, 1))
Rest(s) == SubSeq(s, End(s, 1) + 1, Len(s))

IsArray(object) == object[1].type = "array"
Size(object) == object[1].n

\* object.via.array.ptr[j - 1]
Element(object, j) ==
    LET start[i \in 1..Size(object)] ==
            IF i = 1 THEN 2 ELSE End(object, start[i - 1]) + 1
    IN SubSeq(object, start[j], End(object, start[j]))

\* What object.as<T>() takes for a T of this type: integers as floating-point
\* numbers, and texts and binary data as each other.
Accepted(type) ==
    CASE type = "float" -> {"float", "int"}
      [] type \in {"str", "bin"} -> {"str", "bin"}
      [] OTHER -> {type}
Converts(token, type) == token.type \in Accepted(type)
Converted(token, type) == Token(type, token.n)

\* object.as<T>() of an object that is no array; a failure is a type_error.
As(object, type) ==
    IF Converts(object[1], type) THEN Returns(Converted(object[1], type))
                                 ELSE Throws("TYPE_ERROR")

-----------------------------------------------------------------------------
(* What messages are parsed to.                                            *)

ParsedRequest(id, method_name, parameters) ==
    [type |-> "REQUEST", id |-> id, method_name |-> method_name,
     parameters |-> parameters]
ParsedResponse(id, result) ==
    [type |-> "RESPONSE", id |-> id, result |-> result]
ParsedNotification(method_name, parameters) ==
    [type |-> "NOTIFICATION", method_name |-> method_name,
     parameters |-> parameters]

\* CallResult::create_result() and create_error()
CallResult(is_error, object) == [is_error |-> is_error, object |-> object]

\* ParsedParameters::as<Parameters...>()
ParametersAs(parameters, types) ==
    IF Size(parameters) # Len(types) THEN Throws("INVALID_MESSAGE")
    ELSE IF \E i \in DOMAIN types : ~Succeeded(As(Element(parameters, i), types[i]))
         THEN Throws("TYPE_ERROR")
         ELSE Returns([i \in DOMAIN types |-> As(Element(parameters, i), types[i]).value])

-----------------------------------------------------------------------------
(* parse_message_from_object().  Each part of a message is invalid or      *)
(* valid; an invalid part throws INVALID_MESSAGE.                          *)

ValidType(object) == Succeeded(As(object, "int")) /\ object[1].n \in REQUEST..NOTIFICATION
ValidID(object) == Succeeded(As(object, "int")) /\ object[1].n \in 0..(NumIDs - 1)
ValidName(object) == Succeeded(As(object, "str"))
Name(object) == As(object, "str").value

\* parse_request_from_object()
ParseRequest(object) ==
    IF /\ Size(object) = 4
       /\ ValidID(Element(object, 2)) /\ ValidName(Element(object, 3))
       /\ IsArray(Element(object, 4))
    THEN Returns(ParsedRequest(Element(object, 2)[1].n, Name(Element(object, 3)),
                               Element(object, 4)))
    ELSE Throws("INVALID_MESSAGE")

\* Fault: a response is successful if it has a result.
ResultOfLast(object) ==
    CallResult(Element(object, 4)[1] = Nil,
               IF Element(object, 4)[1] = Nil THEN Element(object, 3)
                                              ELSE Element(object, 4))

\* A response is an error unless its third element is nil.
ResultOf(object) ==
    IF Element(object, 3)[1] # Nil THEN CallResult(TRUE, Element(object, 3))
                                   ELSE CallResult(FALSE, Element(object, 4))

\* parse_response_from_object()
ParseResponse(object) ==
    IF Size(object) = 4 /\ ValidID(Element(object, 2))
    THEN Returns(ParsedResponse(Element(object, 2)[1].n, ResultOf(object)))
    ELSE Throws("INVALID_MESSAGE")

\* parse_notification_from_object()
ParseNotification(object) ==
    IF /\ Size(object) = 3
       /\ ValidName(Element(object, 2)) /\ IsArray(Element(object, 3))
    THEN Returns(ParsedNotification(Name(Element(object, 2)), Element(object, 3)))
    ELSE Throws("INVALID_MESSAGE")

\* parse_message_from_object()
ParseObject(object) ==
    IF ~IsArray(object) \/ Size(object) < 3 \/ ~ValidType(Element(object, 1))
    THEN Throws("INVALID_MESSAGE")
    ELSE CASE Element(object, 1)[1].n = REQUEST -> ParseRequest(object)
           [] Element(object, 1)[1].n = RESPONSE -> ParseResponse(object)
           [] Element(object, 1)[1].n = NOTIFICATION -> ParseNotification(object)

\* MessageParser::try_parse() of a buffer that holds a whole object, or throws.
try_parse(buffer) ==
    IF Broken(buffer) THEN Throws("INVALID_MESSAGE")
                      ELSE ParseObject(FirstObject(buffer))
=============================================================================
