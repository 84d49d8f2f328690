------------------------------ MODULE MCCallPath ------------------------------
EXTENDS CallPath

Add == Str(10)
Log == Str(11)
Fail == Str(12)
Raise == Str(13)
Scale == Str(15)

MCAppended ==
    <<[name |-> Add, parameters |-> <<"int", "int">>, is_void |-> FALSE],
      [name |-> Log, parameters |-> <<"str">>, is_void |-> TRUE],
      [name |-> Fail, parameters |-> <<"str">>, is_void |-> FALSE],
      [name |-> Raise, parameters |-> <<>>, is_void |-> TRUE],
      [name |-> Scale, parameters |-> <<"float">>, is_void |-> FALSE],
      [name |-> Add, parameters |-> <<>>, is_void |-> TRUE]>>

MCFunction(name, arguments) ==
    CASE name = Add -> Returned(Num(arguments[1].n + arguments[2].n))
      [] name = Log -> Returned(Nil)
      [] name = Scale -> Returned(arguments[1])
      [] name = Fail -> MethodException(IF arguments[1] = Str(20) THEN Nil ELSE Num(7))
      [] name = Raise -> OtherException(Str(30))

Invocation(name, arguments, type, is_notification) ==
    [name |-> name, arguments |-> arguments, type |-> type,
     is_notification |-> is_notification]

MCInvocations ==
    {Invocation(Add, <<Num(1), Num(2)>>, "int", FALSE),
     Invocation(Add, <<Num(1), Str(2)>>, "int", FALSE),
     Invocation(Log, <<Str(1)>>, "void", TRUE),
     Invocation(Log, <<Token("bin", 1)>>, "void", FALSE),
     Invocation(Log, <<>>, "void", FALSE),
     Invocation(Scale, <<Num(3)>>, "float", FALSE),
     Invocation(Scale, <<Num(3)>>, "int", FALSE),
     Invocation(Fail, <<Str(1)>>, "int", FALSE),
     Invocation(Fail, <<Str(20)>>, "int", FALSE),
     Invocation(Raise, <<>>, "void", FALSE),
     Invocation(Raise, <<>>, "void", TRUE),
     Invocation(Str(14), <<>>, "void", FALSE)}

BadMessage(tokens) == [tokens |-> tokens, meaning |-> Malformed]

MCForeign ==
    {BadMessage(<<Num(0)>>),
     BadMessage(<<Arr(4), Num(3), Num(0), Nil, Nil>>),
     BadMessage(<<Arr(4), Num(0), Num(NumIDs), Add, Arr(0)>>),
     BadMessage(<<Arr(4), Num(0), Num(0), Add, Nil>>),
     BadMessage(<<Arr(4), Num(2), Log, Arr(1), Str(1), Nil>>),
     BadMessage(<<Arr(3), Num(1), Num(0), Nil>>),
     BadMessage(<<Arr(3), Bad>>),
     [tokens |-> <<Arr(3), Num(2), Token("bin", 11), Arr(0)>>,
      meaning |-> ParsedNotification(Log, <<Arr(0)>>)],
     [tokens |-> <<Arr(4), Num(1), Num(0), Nil, Num(1)>>,
      meaning |-> ParsedResponse(0, CallResult(FALSE, <<Num(1)>>))]}

MCReplies ==
    {<<Arr(4), Num(1), Num(NumIDs - 1), Nil, Nil>>, <<Arr(3), Num(2), Log, Arr(0)>>, <<Bad>>}
=============================================================================
