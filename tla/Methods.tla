------------------------------- MODULE Methods -------------------------------
(***************************************************************************)
(* Methods of a server (methods/method_processor_impl.h, method_dict.h,    *)
(* functional_method.h, method_exception.h): a table of functions of the   *)
(* user, and how their results and exceptions become responses.            *)
(***************************************************************************)
EXTENDS Messages

CONSTANTS
    Appended,       \* the methods given to append(), in order: each has a
                    \*   name, the types of its parameters, and is_void
    Function(_, _)  \* what the function of a method does with its arguments

\* A function returns an object, or throws a MethodException with an object or
\* another exception with the text of its what().
Returned(object) == [ends |-> "returns", with |-> object]
MethodException(object) == [ends |-> "MethodException", with |-> object]
OtherException(text) == [ends |-> "exception", with |-> text]

\* what() of a MsgpackRPCException
What(code) == IF code = "TYPE_ERROR" THEN Str(1) ELSE Str(0)

-----------------------------------------------------------------------------
(* MethodDict.                                                             *)

\* append() of the i-th method; a second method of a name throws and the first
\* one stays.
Registered(i) ==
    \A j \in 1..(i - 1) : Appended[j].name # Appended[i].name
Known(name) == \E i \in DOMAIN Appended : Appended[i].name = name /\ Registered(i)

\* get()
get(name) ==
    IF Known(name)
    THEN Returns(CHOOSE i \in DOMAIN Appended : Appended[i].name = name /\ Registered(i))
    ELSE Throws("INVALID_MESSAGE")

-----------------------------------------------------------------------------
(* FunctionalMethod.                                                       *)

\* call() of a function that returns a value: MethodException and other
\* exceptions of the function become an error response, wrong parameters throw.
CallWithResult(method, request) ==
    LET arguments == ParametersAs(request.parameters, method.parameters)
        outcome == Function(method.name, arguments.value)
    IN IF ~Succeeded(arguments) THEN arguments
       ELSE IF outcome.ends = "returns"
            THEN Returns(serialize_successful_response(request.id, outcome.with))
            ELSE Returns(serialize_error_response(request.id, outcome.with))

\* call() of a function without a result: every exception becomes an error
\* response here, and the result is nil.
CallVoid(method, request) ==
    LET arguments == ParametersAs(request.parameters, method.parameters)
        outcome == Function(method.name, arguments.value)
    IN IF ~Succeeded(arguments)
       THEN Returns(serialize_error_response(request.id, What(arguments.code)))
       ELSE IF outcome.ends = "returns"
            THEN Returns(serialize_successful_response(request.id, Nil))
            ELSE Returns(serialize_error_response(request.id, outcome.with))

-----------------------------------------------------------------------------
(* MethodProcessor.                                                        *)

\* call(): every std::exception becomes an error response with its text.
call(request) ==
    LET method == Appended[get(request.method_name).value]
    IN IF ~Known(request.method_name)
       THEN serialize_error_response(request.id, What("INVALID_MESSAGE"))
       ELSE LET response == IF method.is_void THEN CallVoid(method, request)
                                              ELSE CallWithResult(method, request)
            IN IF Succeeded(response) THEN response.value
               ELSE serialize_error_response(request.id, What(response.code))

\* invoke(): the parameters as the arguments of the function
Arguments(i, message) == ParametersAs(message.parameters, Appended[i].parameters)

\* The calls of functions of the user that call() or notify() makes: none or
\* one.  Exceptions in notify() are written to the log.
Invoked(message) ==
    LET found == get(message.method_name)
        arguments == Arguments(found.value, message)
    IN IF Succeeded(found) /\ Succeeded(arguments)
       THEN <<[name |-> message.method_name, arguments |-> arguments.value]>>
       ELSE <<>>
=============================================================================
