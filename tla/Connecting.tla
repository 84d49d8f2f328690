------------------------------ MODULE Connecting ------------------------------
(***************************************************************************)
(* How a client connects: the list of URIs of the configuration, the       *)
(* backends by their schemes, and the chain of attempts of async_connect() *)
(* (transport/async_connect.h, backend_list.h, tcp/tcp_connector.h,        *)
(* unix_socket/unix_socket_connector.h, clients/client_builder.h).         *)
(*                                                                         *)
(* ClientConnector leaves open how an async_connect() comes to its end.    *)
(* Here it goes through the URIs one after the other; every step is a step *)
(* of ClientConnector or leaves its variables alone.  What                 *)
(* MultiBackendConnector does without waiting (the look-up of the backend, *)
(* the resolver, the next URI after an exception) happens in the thread    *)
(* that called it: here is the URI it is at, 0 if no thread is in it.      *)
(***************************************************************************)
EXTENDS ClientConnector, Addresses, Backends

CONSTANTS
    TextLists,      \* lists of texts given to the builder of a client
    LongFiles       \* paths too long for the address of a socket

ASSUME ListsAssumption ==
    /\ LongFiles \subseteq Files
    /\ \A texts \in TextLists :
        /\ Len(texts) \in Nat \ {0} /\ DOMAIN texts = 1..Len(texts)
        /\ \A i \in DOMAIN texts :
            /\ Len(texts[i]) \in Nat
            /\ texts[i] = [k \in 1..Len(texts[i]) |-> texts[i][k]]

VARIABLES
    backends_,      \* schemes of the registered backends
    uris,           \* server_uris_
    here,           \* URI the running thread is at, current_uri_
    attempts,       \* number of attempts outstanding for each URI
    tried,          \* URIs tried since the last call of async_connect()
    thrown,         \* an exception stopped the thread of the chain
    gone            \* history: it was for a peer that had gone again

chain == <<backends_, uris, here, attempts, tried, thrown, gone>>
lists == <<backends_, uris>>
allVars == <<vars, chain>>

Indices == 1..Len(uris)

-----------------------------------------------------------------------------
(* Building a client.                                                      *)

\* ClientBuilder::connect_to() for each text; a text that is not a URI throws
\* and ends the building.
ConnectTo(texts) == [i \in DOMAIN texts |-> Parse(texts[i])]
Accepted(texts) == \A i \in DOMAIN texts : Succeeded(ConnectTo(texts)[i])

ConnectingInit ==
    /\ Init
    /\ \E hasUnixSockets \in BOOLEAN : backends_ = DefaultBackends(hasUnixSockets)
    /\ \E texts \in {l \in TextLists : Accepted(l)} :
          uris = [i \in DOMAIN texts |-> ConnectTo(texts)[i].value]
    /\ here = 0
    /\ attempts = [i \in Indices |-> 0]
    /\ tried = {}
    /\ thrown = FALSE
    /\ gone = FALSE

-----------------------------------------------------------------------------
(* A chain of attempts: MultiBackendConnector.                             *)

\* The constructor and start(): the first URI.
Begin ==
    /\ here' = 1
    /\ tried' = {}
    /\ UNCHANGED <<lists, attempts, thrown, gone>>

\* The registered backends have none for the scheme: the look-up throws.
Unknown(uri) == ~Succeeded(find(backends_, uri.scheme))

\* UnixSocketConnector::async_connect(): the address of the socket throws
\* std::system_error for a path that is too long.
TooLong(uri) ==
    uri.scheme = "unix" /\ \E i \in DOMAIN uri.host_or_path :
                              uri.host_or_path[i] \in LongFiles

\* An exception that is not a MsgpackRPCException, and one of the look-up,
\* leaves the chain: it goes to the caller of start() or stops the executor.
Escape ==
    /\ here \in Indices
    /\ Unknown(uris[here]) \/ TooLong(uris[here])
    /\ here' = 0
    /\ thrown' = TRUE
    /\ UNCHANGED <<lists, attempts, tried, gone>>
    /\ UNCHANGED vars

\* Fault: a host that cannot be resolved ends the chain.
UnresolvedEscapes ==
    /\ here \in Indices
    /\ ~Unknown(uris[here]) /\ uris[here].scheme = "tcp"
    /\ here' = 0
    /\ thrown' = TRUE
    /\ UNCHANGED <<lists, attempts, tried, gone>>
    /\ UNCHANGED vars

\* TCPConnector::resolve() throws HOST_UNRESOLVED; async_connect() catches it
\* and goes on with the next URI.
Unresolved ==
    /\ here \in Indices
    /\ ~Unknown(uris[here]) /\ uris[here].scheme = "tcp"
    /\ here' = here + 1
    /\ tried' = tried \cup {here}
    /\ UNCHANGED <<lists, attempts, thrown, gone>>
    /\ UNCHANGED vars

\* async_connect() of the connector of the scheme is under way.
Attempt ==
    /\ here \in Indices
    /\ ~Unknown(uris[here]) /\ ~TooLong(uris[here])
    /\ attempts' = [attempts EXCEPT ![here] = @ + 1]
    /\ tried' = tried \cup {here}
    /\ here' = 0
    /\ UNCHANGED <<lists, thrown, gone>>
    /\ UNCHANGED vars

\* Fault: the chain ends at the first failure.
NextIsEnd(i) ==
    /\ attempts' = [attempts EXCEPT ![i] = @ - 1]
    /\ here' = Len(uris) + 1
    /\ UNCHANGED <<lists, tried, thrown, gone>>

\* Fault: the failed attempt may still report.
NextBesides(i) ==
    /\ here' = i + 1
    /\ UNCHANGED <<lists, attempts, tried, thrown, gone>>

\* MultiBackendConnector::operator() with a failure: the next URI.
NextURI(i) ==
    /\ attempts' = [attempts EXCEPT ![i] = @ - 1]
    /\ here' = i + 1
    /\ UNCHANGED <<lists, tried, thrown, gone>>

-----------------------------------------------------------------------------
(* Steps of the client; the transport thread is free only if it is not in  *)
(* the chain and was not stopped by an exception.                          *)

Free == here = 0 /\ ~thrown

Start == start /\ Begin
Stop == stop /\ UNCHANGED chain
Retry == Free /\ (Reconnect \/ TimerFires) /\ Begin

\* TCPConnector::on_connect(), UnixSocketConnector::on_connect() with success.
Connect(i, c) ==
    /\ Free
    /\ attempts[i] > 0
    /\ on_connection(c)
    /\ attempts' = [attempts EXCEPT ![i] = @ - 1]
    /\ UNCHANGED <<lists, here, tried, thrown, gone>>

\* The same with success, but the peer has gone again: the constructor of
\* Connection asks the socket for its endpoints and throws, and the callback of
\* the chain is not called.
ConnectThrows(i) ==
    /\ Free
    /\ tpc = "idle"
    /\ attempts[i] > 0
    /\ attempts' = [attempts EXCEPT ![i] = @ - 1]
    /\ thrown' = TRUE
    /\ gone' = TRUE
    /\ UNCHANGED <<lists, here, tried>>
    /\ UNCHANGED vars

\* The same with an error.
ConnectFails(i) ==
    /\ Free
    /\ tpc = "idle"
    /\ attempts[i] > 0
    /\ NextURI(i)
    /\ UNCHANGED vars

\* MultiBackendConnector::operator() after the last URI.
AllFailed ==
    /\ here = Len(uris) + 1
    /\ on_connection_failure
    /\ here' = 0
    /\ UNCHANGED <<lists, attempts, tried, thrown, gone>>

InChain == Escape \/ Unresolved \/ Attempt \/ AllFailed

Callback ==
    /\ Free
    /\ AdoptConnection \/ ConnectionCallback \/ async_wait \/ ForgetConnection
    /\ UNCHANGED chain

Closed == Free /\ ConnectionEnds /\ UNCHANGED chain

AttemptEnds ==
    \E i \in Indices : \/ ConnectFails(i)
                       \/ ConnectThrows(i)
                       \/ \E c \in Connections : Connect(i, c)

ConnectingNext ==
    Start \/ Stop \/ Retry \/ InChain \/ AttemptEnds \/ Callback \/ Closed

\* As for ClientConnector; a thread in the chain goes on.
ConnectingFairness ==
    /\ WF_allVars(Start)
    /\ WF_allVars((StopRelease \/ StopTimer) /\ UNCHANGED chain)
    /\ WF_allVars(InChain)
    /\ WF_allVars(Callback)
    /\ WF_allVars(Retry)
    /\ WF_allVars(AttemptEnds)
    /\ WF_allVars(Free /\ CloseInThread /\ UNCHANGED chain)

ConnectingSpec == ConnectingInit /\ [][ConnectingNext]_allVars /\ ConnectingFairness

-----------------------------------------------------------------------------
(* Properties.                                                             *)

\* The attempts under way, numbered for each URI.
Outstanding == UNION {{i} \X (1..attempts[i]) : i \in Indices}

\* Every async_connect() under way is one chain that is at one URI, or that an
\* exception ended: a chain never ends with both a connection and a failure, and
\* none is lost (MultiBackendConnector::operator() and its copies).
OneChainPerConnect ==
    connecting = Cardinality(Outstanding) + One(here # 0) + One(thrown)

\* A failure is reported only after every URI was tried since async_connect()
\* was called (operator() and the catch of MultiBackendConnector).
TriesEveryURI ==
    ReportedOnce /\ here = Len(uris) + 1 => tried = Indices

\* No attempt can be made for a URI whose scheme has no backend or whose path is
\* too long.
Unusable(uri) == Unknown(uri) \/ TooLong(uri)

\* An exception that leaves the chain itself is one for an unusable URI, which
\* the chain has reached by trying every URI before it: no failure of a usable
\* URI, at whatever attempt of whatever chain, stops the executor of the client
\* (line 97 of async_connect.h is outside of the try).  The other exception is
\* that of a connection whose peer has gone again.
ChainThrowsAtUnusableURI ==
    thrown /\ ~gone =>
        \E i \in Indices : /\ Unusable(uris[i])
                           /\ ReportedOnce => tried = 1..(i - 1)

\* The text of a URI of the client, as written to the log, is parsed to the
\* same URI again, and so is the text of the address of either end of its
\* connections, but for the scope of an IPv6 address (URI::parse(), to_uri(),
\* to_string() and the formatters).
URIsRoundTrip ==
    /\ \A i \in Indices : Parse(Format(uris[i])) = Returns(uris[i])
    /\ \A ip \in Names \cup V6Hosts, port \in {0, 65535} :
          LET address == TCPAddress(ip, port)
          IN /\ TCPToString(address) = Format(TCPToURI(address))
             /\ Parse(TCPToString(address)) = Returns(TCPToURI(address))
    /\ \A file \in Files :
          LET address == UnixSocketAddress(<<file>>)
          IN /\ UnixToString(address) = Format(UnixToURI(address))
             /\ Parse(UnixToString(address)) = Returns(UnixToURI(address))

\* After stop() a client ends connecting for good, wherever its chain was.
StopEndsConnecting == spc = "done" ~> [](Quiet \/ thrown)
=============================================================================
