---------------------------- MODULE ConnectingProofs ----------------------------
(***************************************************************************)
(* Proofs about module Connecting, for any lists of URIs and backends, and *)
(* any number of connections and reports.                                  *)
(***************************************************************************)
EXTENDS Connecting, ClientConnectorProofs

-----------------------------------------------------------------------------
(* A client that connects through its URIs is a ClientConnector.           *)

\* Every step is a step of ClientConnector, or leaves its variables alone.
LEMMA ConnectingIsConnector == [ConnectingNext]_allVars => [Next]_vars
<1> SUFFICES ASSUME [ConnectingNext]_allVars PROVE [Next]_vars
    OBVIOUS
<1> USE DEF Next, ConnectEnds, Connected, Continue
<1>1. CASE Start \/ Stop \/ Retry
    BY <1>1, Zenon DEF Start, Stop, Retry
<1>2. CASE InChain
    BY <1>2, Zenon DEF InChain, Escape, Unresolved, Attempt, AllFailed
<1>3. CASE AttemptEnds
    BY <1>3, Zenon DEF AttemptEnds, ConnectFails, ConnectThrows, Connect
<1>4. CASE Callback \/ Closed
    BY <1>4, Zenon DEF Callback, Closed
<1>5. CASE UNCHANGED allVars
    BY <1>5 DEF allVars
<1>6. QED
    BY <1>1, <1>2, <1>3, <1>4, <1>5 DEF ConnectingNext

\* Whatever the backends and the attempts do, MultiBackendConnector is what the
\* client connector takes for async_connect().
THEOREM ConnectingImplementsConnector ==
    ConnectingSpec => Init /\ [][Next]_vars
<1>1. ConnectingInit => Init
    BY DEF ConnectingInit
<1>2. QED
    BY <1>1, ConnectingIsConnector, PTL DEF ConnectingSpec

\* So the invariant of the connector holds for it.
LEMMA ConnectorIInv == ConnectingSpec => []IInv
BY ConnectingImplementsConnector, InitIInv, NextIInv, PTL

-----------------------------------------------------------------------------
(* The attempts under way.                                                 *)

\* The types of the variables that Connecting adds.
ChainTypes ==
    /\ Len(uris) \in Nat
    /\ here \in 0..Len(uris) + 1
    /\ attempts \in [Indices -> Nat]
    /\ tried \subseteq Indices
    /\ thrown \in BOOLEAN

\* One attempt is added.
LEMMA OneMoreAttempt ==
    ASSUME ChainTypes, IsFiniteSet(Outstanding), NEW i \in Indices,
           UNCHANGED uris, attempts' = [attempts EXCEPT ![i] = @ + 1]
    PROVE  /\ IsFiniteSet(Outstanding')
           /\ Cardinality(Outstanding') = Cardinality(Outstanding) + 1
<1> DEFINE new == <<i, attempts[i] + 1>>
<1>1. /\ \A j \in Indices : attempts[j] \in Nat
      /\ \A j \in Indices : attempts'[j] = IF j = i THEN attempts[i] + 1
                                                    ELSE attempts[j]
      /\ Indices' = Indices
    BY DEF ChainTypes, Indices
<1>2. 1..attempts'[i] = (1..attempts[i]) \cup {attempts[i] + 1}
    BY <1>1
<1>3. Outstanding' = Outstanding \cup {new}
    BY <1>1, <1>2 DEF Outstanding
<1>4. new \notin Outstanding
    BY <1>1 DEF Outstanding
<1>5. QED
    BY <1>3, <1>4, FS_AddElement

\* One attempt comes to its end.
LEMMA OneLessAttempt ==
    ASSUME ChainTypes, IsFiniteSet(Outstanding), NEW i \in Indices,
           attempts[i] > 0,
           UNCHANGED uris, attempts' = [attempts EXCEPT ![i] = @ - 1]
    PROVE  /\ IsFiniteSet(Outstanding')
           /\ Cardinality(Outstanding') = Cardinality(Outstanding) - 1
<1> DEFINE last == <<i, attempts[i]>>
<1>1. /\ \A j \in Indices : attempts[j] \in Nat
      /\ \A j \in Indices : attempts'[j] = IF j = i THEN attempts[i] - 1
                                                    ELSE attempts[j]
      /\ Indices' = Indices
    BY DEF ChainTypes, Indices
<1>2. 1..attempts'[i] = (1..attempts[i]) \ {attempts[i]}
    BY <1>1
<1>3. Outstanding' = Outstanding \ {last}
    BY <1>1, <1>2 DEF Outstanding
<1>4. last \in Outstanding
    BY <1>1 DEF Outstanding
<1>5. QED
    BY <1>3, <1>4, FS_RemoveElement

-----------------------------------------------------------------------------
(* One chain of attempts for each async_connect().                         *)

\* An exception ends the chain it leaves, and the thread with it.
Chained ==
    /\ ChainTypes
    /\ IsFiniteSet(Outstanding)
    /\ OneChainPerConnect
    /\ here # 0 => ~thrown

\* The texts of the builder are parsed one by one.
LEMMA InitChained == ConnectingInit => Chained
<1> SUFFICES ASSUME ConnectingInit PROVE Chained
    OBVIOUS
<1>1. /\ here = 0 /\ tried = {} /\ thrown = FALSE /\ connecting = 0
      /\ attempts = [i \in Indices |-> 0]
    BY DEF ConnectingInit, Init
<1>2. Len(uris) \in Nat
  <2>1. PICK texts \in TextLists :
            uris = [i \in DOMAIN texts |-> ConnectTo(texts)[i].value]
      BY DEF ConnectingInit
  <2>2. Len(texts) \in Nat /\ DOMAIN texts = 1..Len(texts)
      BY ListsAssumption
  <2> DEFINE values == {ConnectTo(texts)[i].value : i \in 1..Len(texts)}
  <2>3. uris \in Seq(values)
      BY <2>1, <2>2
  <2> HIDE DEF values
  <2>4. QED
      BY <2>3
<1>3. ChainTypes
  <2>1. here \in 0..Len(uris) + 1
      BY <1>1, <1>2
  <2>2. attempts \in [Indices -> Nat]
      BY <1>1
  <2>3. QED
      BY <1>1, <1>2, <2>1, <2>2, Zenon DEF ChainTypes
<1>4. Outstanding = {}
    BY <1>1 DEF Outstanding
<1>5. IsFiniteSet(Outstanding) /\ Cardinality(Outstanding) = 0
    BY <1>4, FS_EmptySet
<1>6. QED
    BY <1>1, <1>3, <1>5 DEF Chained, OneChainPerConnect, One


\* start(), the timer and the end of a connection begin a chain.
LEMMA BeginChained ==
    ASSUME IInv, Chained, Start \/ Retry PROVE Chained'
<1>1. /\ here' = 1 /\ tried' = {} /\ UNCHANGED <<uris, attempts, thrown>>
      /\ connecting' = connecting + 1
    BY DEF Start, Retry, Begin, lists, start, Reconnect, TimerFires
<1>2. here = 0 /\ ~thrown
  <2>1. CASE Start
    <3>1. connecting = 0
        BY <2>1 DEF IInv, NotStarted, Start, start
    <3>2. Cardinality(Outstanding) \in Nat
        BY FS_CardinalityType DEF Chained
    <3>3. One(here # 0) = 0 /\ One(thrown) = 0
        BY <3>1, <3>2 DEF Chained, OneChainPerConnect, One
    <3>4. QED
        BY <3>3 DEF One
  <2>2. CASE Retry
      BY <2>2 DEF Retry, Free
  <2>3. QED
      BY <2>1, <2>2
<1>3. UNCHANGED <<Outstanding, Indices>>
    BY <1>1 DEF Outstanding, Indices
<1>4. ChainTypes'
    BY <1>1, <1>3 DEF Chained, ChainTypes
<1>5. ~thrown'
    BY <1>1, <1>2
<1>6. OneChainPerConnect'
  <2>1. Cardinality(Outstanding) \in Nat
      BY FS_CardinalityType DEF Chained
  <2>2. One(here # 0) = 0 /\ One(thrown) = 0 /\ One(here' # 0) = 1
        /\ One(thrown') = 0
      BY <1>1, <1>2, <1>5 DEF One
  <2>3. QED
      BY <1>1, <1>3, <2>1, <2>2 DEF Chained, OneChainPerConnect
<1>7. QED
    BY <1>3, <1>4, <1>5, <1>6 DEF Chained

\* The thread in the chain.
LEMMA InChainChained ==
    ASSUME IInv, Chained, InChain PROVE Chained'
<1>1. /\ Cardinality(Outstanding) \in Nat /\ Len(uris) \in Nat
      /\ here \in 0..Len(uris) + 1 /\ connecting \in Nat /\ here # 0
    BY FS_CardinalityType
    DEF Chained, ChainTypes, IInv, TypeOK, InChain, Escape, Unresolved, Attempt,
        AllFailed, Indices
<1>2. ~thrown /\ One(here # 0) = 1 /\ One(thrown) = 0
    BY <1>1 DEF Chained, One
<1>3. Indices' = Indices /\ UNCHANGED uris
    BY DEF InChain, Escape, Unresolved, Attempt, AllFailed, lists, Indices
<1>4. CASE Escape
  <2>1. /\ here' = 0 /\ thrown' = TRUE /\ UNCHANGED <<attempts, tried, connecting>>
      BY <1>4 DEF Escape, vars
  <2>2. Outstanding' = Outstanding
      BY <1>3, <2>1 DEF Outstanding
  <2>3. One(here' # 0) = 0 /\ One(thrown') = 1
      BY <2>1 DEF One
  <2>4. OneChainPerConnect'
      BY <1>1, <1>2, <2>1, <2>2, <2>3 DEF Chained, OneChainPerConnect
  <2>5. ChainTypes'
      BY <1>1, <1>3, <2>1 DEF Chained, ChainTypes
  <2>6. QED
      BY <2>1, <2>2, <2>4, <2>5 DEF Chained
<1>5. CASE Unresolved
  <2>1. /\ here \in Indices /\ here' = here + 1 /\ tried' = tried \cup {here}
        /\ UNCHANGED <<attempts, thrown, connecting>>
      BY <1>5 DEF Unresolved, vars
  <2>2. Outstanding' = Outstanding
      BY <1>3, <2>1 DEF Outstanding
  <2>3. here' # 0 /\ here' \in 0..Len(uris) + 1
      BY <1>1, <2>1 DEF Indices
  <2>4. One(here' # 0) = 1 /\ One(thrown') = 0
      BY <1>2, <2>1, <2>3 DEF One
  <2>5. OneChainPerConnect'
      BY <1>2, <2>1, <2>2, <2>4 DEF Chained, OneChainPerConnect
  <2>6. ChainTypes'
      BY <1>1, <1>3, <2>1, <2>3 DEF Chained, ChainTypes
  <2>7. QED
      BY <1>2, <2>1, <2>2, <2>5, <2>6 DEF Chained
<1>6. CASE Attempt
  <2>1. /\ here \in Indices /\ here' = 0 /\ tried' = tried \cup {here}
        /\ attempts' = [attempts EXCEPT ![here] = @ + 1]
        /\ UNCHANGED <<thrown, connecting>>
      BY <1>6 DEF Attempt, vars
  <2>2. /\ IsFiniteSet(Outstanding')
        /\ Cardinality(Outstanding') = Cardinality(Outstanding) + 1
      BY <1>3, <2>1, OneMoreAttempt DEF Chained
  <2>3. One(here' # 0) = 0 /\ One(thrown') = 0
      BY <1>2, <2>1 DEF One
  <2>4. OneChainPerConnect'
      BY <1>1, <1>2, <2>1, <2>2, <2>3 DEF Chained, OneChainPerConnect
  <2>5. ChainTypes'
      BY <1>1, <1>3, <2>1 DEF Chained, ChainTypes
  <2>6. QED
      BY <2>1, <2>2, <2>4, <2>5 DEF Chained
<1>7. CASE AllFailed
  <2>1. /\ here' = 0 /\ UNCHANGED <<attempts, tried, thrown>>
        /\ connecting' = connecting - 1
      BY <1>7 DEF AllFailed, on_connection_failure
  <2>2. Outstanding' = Outstanding
      BY <1>3, <2>1 DEF Outstanding
  <2>3. One(here' # 0) = 0 /\ One(thrown') = 0
      BY <1>2, <2>1 DEF One
  <2>4. OneChainPerConnect'
      BY <1>1, <1>2, <2>1, <2>2, <2>3 DEF Chained, OneChainPerConnect
  <2>5. ChainTypes'
      BY <1>1, <1>3, <2>1 DEF Chained, ChainTypes
  <2>6. QED
      BY <2>1, <2>2, <2>4, <2>5 DEF Chained
<1>8. QED
    BY <1>4, <1>5, <1>6, <1>7 DEF InChain

\* An attempt that ends gives a connection or goes on with the next URI.
LEMMA AttemptEndsChained ==
    ASSUME IInv, Chained, AttemptEnds PROVE Chained'
<1>1. PICK i \in Indices : \/ ConnectFails(i)
                           \/ ConnectThrows(i)
                           \/ \E c \in Connections : Connect(i, c)
    BY DEF AttemptEnds
<1>2. /\ here = 0 /\ ~thrown /\ attempts[i] > 0
      /\ attempts' = [attempts EXCEPT ![i] = @ - 1]
      /\ UNCHANGED <<uris, tried>>
      /\ \/ here' = i + 1 /\ UNCHANGED <<connecting, thrown>>
         \/ here' = 0 /\ UNCHANGED connecting /\ thrown' = TRUE
         \/ here' = 0 /\ connecting' = connecting - 1 /\ UNCHANGED thrown
    BY <1>1 DEF ConnectFails, ConnectThrows, Connect, Free, NextURI, lists, vars,
                on_connection
<1>3. /\ IsFiniteSet(Outstanding')
      /\ Cardinality(Outstanding') = Cardinality(Outstanding) - 1
    BY <1>2, OneLessAttempt DEF Chained
<1>4. Indices' = Indices /\ i + 1 \in 1..Len(uris) + 1
    BY <1>2 DEF Indices, Chained, ChainTypes
<1>5. /\ Cardinality(Outstanding) \in Nat /\ Cardinality(Outstanding') \in Nat
      /\ connecting \in Nat
    BY <1>3, FS_CardinalityType DEF Chained, IInv, TypeOK
<1>6. ChainTypes'
  <2>1. attempts' \in [Indices -> Nat]
      BY <1>2 DEF Chained, ChainTypes
  <2>2. here' \in 0..Len(uris) + 1
      BY <1>2, <1>4 DEF Chained, ChainTypes
  <2>3. thrown' \in BOOLEAN
      BY <1>2 DEF Chained, ChainTypes
  <2>4. QED
      BY <1>2, <1>4, <2>1, <2>2, <2>3 DEF Chained, ChainTypes
<1>7. /\ One(here # 0) = 0 /\ One(thrown) = 0
      /\ thrown' = TRUE => One(thrown') = 1
      /\ UNCHANGED thrown => One(thrown') = 0
    BY <1>2 DEF One
<1>8. /\ here' = i + 1 => One(here' # 0) = 1
      /\ here' = 0 => One(here' # 0) = 0
    BY <1>4 DEF One, Indices
<1>9. OneChainPerConnect'
    BY <1>2, <1>3, <1>4, <1>5, <1>7, <1>8 DEF Chained, OneChainPerConnect
<1>10. QED
    BY <1>2, <1>3, <1>6, <1>9 DEF Chained


\* The other steps leave the chains alone.
LEMMA OutsideChained ==
    ASSUME IInv, Chained, Stop \/ Callback \/ Closed \/ UNCHANGED allVars
    PROVE  Chained'
<1>1. UNCHANGED <<uris, here, attempts, tried, thrown, connecting>>
    BY DEF Stop, Callback, Closed, allVars, chain, lists, vars, stop, StopFlag,
       StopRelease, StopTimer, AdoptConnection, ConnectionCallback, async_wait,
       ForgetConnection, ConnectionEnds, on_connection_closed
<1>2. UNCHANGED <<Indices, Outstanding>>
    BY <1>1 DEF Indices, Outstanding
<1>3. QED
    BY <1>1, <1>2 DEF Chained, ChainTypes, OneChainPerConnect

\* The invariant holds for ever.
LEMMA NextChained == IInv /\ Chained /\ [ConnectingNext]_allVars => Chained'
BY BeginChained, InChainChained, AttemptEndsChained, OutsideChained
DEF ConnectingNext

LEMMA SpecChained == ConnectingSpec => []Chained
BY ConnectorIInv, InitChained, NextChained, PTL DEF ConnectingSpec

\* For any list of URIs, every async_connect() under way is one chain of
\* attempts: none is lost and none splits in two.
THEOREM OneChain == ConnectingSpec => []OneChainPerConnect
<1>1. Chained => OneChainPerConnect
    BY DEF Chained
<1>2. QED
    BY <1>1, SpecChained, PTL

-----------------------------------------------------------------------------
(* Every URI is tried.                                                     *)

\* A client whose connections report their end once connects once at a time, so
\* the attempts under way are the one of its chain.
Alone ==
    ReportedOnce =>
        /\ here # 0 => \A i \in Indices : attempts[i] = 0
        /\ \A i, j \in Indices : attempts[i] > 0 /\ attempts[j] > 0 => i = j
        /\ \A i \in Indices : attempts[i] =< 1

LEMMA ChainIsAlone == IInv /\ Chained => Alone
<1> SUFFICES ASSUME IInv, Chained, ReportedOnce
             PROVE  /\ here # 0 => \A i \in Indices : attempts[i] = 0
                    /\ \A i, j \in Indices :
                            attempts[i] > 0 /\ attempts[j] > 0 => i = j
                    /\ \A i \in Indices : attempts[i] =< 1
    BY DEF Alone
<1>1. IsFiniteSet(Outstanding) /\ Cardinality(Outstanding) \in Nat
    BY FS_CardinalityType DEF Chained
<1>2. connecting =< 1 /\ connecting \in Nat
  <2>1. connecting \in Nat /\ Cardinality(Up) \in Nat
        /\ One(armed) \in {0, 1}
        /\ One(tpc \in {"connected", "failed", "closed", "on_closed"}) \in {0, 1}
      BY UpIsFinite DEF IInv, TypeOK, One
  <2>2. QED
      BY <2>1 DEF IInv, NoSecondEffort, Efforts
<1>3. /\ Cardinality(Outstanding) =< 1
      /\ here # 0 => Cardinality(Outstanding) = 0
  <2>1. /\ One(here # 0) \in {0, 1} /\ One(thrown) \in {0, 1}
        /\ here # 0 => One(here # 0) = 1
      BY DEF One
  <2>2. QED
      BY <1>1, <1>2, <2>1 DEF Chained, OneChainPerConnect
<1>4. \A i \in Indices : attempts[i] \in Nat
    BY DEF Chained, ChainTypes
<1>5. \A p, q \in Outstanding : p = q
  <2> SUFFICES ASSUME NEW p \in Outstanding, NEW q \in Outstanding, p # q
               PROVE  FALSE
      OBVIOUS
  <2>1. IsFiniteSet({p}) /\ Cardinality({p}) = 1
      BY FS_Singleton
  <2>2. Cardinality({p} \cup {q}) = 2
      BY <2>1, FS_AddElement
  <2>3. Cardinality({p} \cup {q}) =< Cardinality(Outstanding)
      BY <1>1, FS_Subset, {p} \cup {q} \subseteq Outstanding
  <2>4. QED
      BY <1>1, <1>3, <2>2, <2>3
<1>6. \A i \in Indices : \A k \in 1..attempts[i] : <<i, k>> \in Outstanding
    BY DEF Outstanding
<1>7. here # 0 => \A i \in Indices : attempts[i] = 0
  <2> SUFFICES ASSUME here # 0, NEW i \in Indices, attempts[i] # 0
               PROVE  FALSE
      OBVIOUS
  <2>1. <<i, 1>> \in Outstanding
      BY <1>4, <1>6
  <2>2. Outstanding = {}
      BY <1>1, <1>3, FS_EmptySet
  <2>3. QED
      BY <2>1, <2>2
<1>8. ASSUME NEW i \in Indices, NEW j \in Indices, attempts[i] > 0, attempts[j] > 0
      PROVE  i = j
  <2>1. <<i, 1>> \in Outstanding /\ <<j, 1>> \in Outstanding
      BY <1>4, <1>6, <1>8
  <2>2. <<i, 1>> = <<j, 1>>
      BY <1>5, <2>1
  <2>3. QED
      BY <2>2
<1>9. \A i \in Indices : attempts[i] =< 1
  <2> SUFFICES ASSUME NEW i \in Indices, attempts[i] > 1 PROVE FALSE
      BY <1>4
  <2>1. <<i, 1>> \in Outstanding /\ <<i, 2>> \in Outstanding
      BY <1>4, <1>6
  <2>2. QED
      BY <1>5, <2>1
<1>10. QED
    BY <1>7, <1>8, <1>9

\* The chain has tried the URIs before the one it is at, and one whose attempt
\* is under way as well.
Trying ==
    ReportedOnce =>
        /\ here # 0 => tried = 1..here - 1
        /\ \A i \in Indices : attempts[i] > 0 => tried = 1..i

\* A connection that has reported its end twice stays so.
LEMMA ReportsStay == IInv /\ [Next]_vars /\ ReportedOnce' => ReportedOnce
<1> SUFFICES ASSUME IInv, [Next]_vars, ReportedOnce' PROVE ReportedOnce
    OBVIOUS
<1>1. ASSUME NEW c \in Connections, on_connection_closed(c) PROVE ReportedOnce
    BY <1>1, MoreReports DEF IInv, on_connection_closed
<1>2. CASE UNCHANGED reports
    BY <1>2 DEF ReportedOnce
<1>3. QED
    BY <1>1, <1>2
    DEF Next, vars, start, stop, StopFlag, StopRelease, StopTimer, ConnectEnds,
        Connected, on_connection, on_connection_failure, TimerFires,
        ConnectionEnds, Continue, AdoptConnection, ConnectionCallback, async_wait,
        ForgetConnection, Reconnect

\* Every step keeps the progress of the chain.
LEMMA NextTrying ==
    IInv /\ Chained /\ Alone /\ Alone' /\ Trying /\ [ConnectingNext]_allVars
        => Trying'
<1> SUFFICES ASSUME IInv, Chained, Alone, Alone', Trying,
                    [ConnectingNext]_allVars, ReportedOnce'
             PROVE  /\ here' # 0 => tried' = 1..here' - 1
                    /\ \A i \in Indices' : attempts'[i] > 0 => tried' = 1..i
    BY DEF Trying
<1>1. ReportedOnce
    BY ReportsStay, ConnectingIsConnector
<1>2. /\ here # 0 => \A i \in Indices : attempts[i] = 0
      /\ here # 0 => tried = 1..here - 1
      /\ \A i \in Indices : attempts[i] > 0 => tried = 1..i
    BY <1>1 DEF Alone, Trying
<1>3. attempts \in [Indices -> Nat] /\ Len(uris) \in Nat
    BY DEF Chained, ChainTypes
<1>4. CASE Start \/ Retry
  <2>1. here' = 1 /\ tried' = {}
      BY <1>4 DEF Start, Retry, Begin
  <2>2. \A i \in Indices' : attempts'[i] = 0
      BY <2>1 DEF Alone
  <2>3. QED
      BY <2>1, <2>2
<1>5. CASE Escape \/ AllFailed
  <2>1. here' = 0 /\ here # 0 /\ UNCHANGED <<uris, attempts>>
      BY <1>3, <1>5 DEF Escape, AllFailed, lists, Indices
  <2>2. QED
      BY <1>2, <2>1 DEF Indices
<1>6. CASE Unresolved
  <2>1. /\ here \in Indices /\ here' = here + 1 /\ tried' = tried \cup {here}
        /\ UNCHANGED <<uris, attempts>> /\ here # 0
      BY <1>6 DEF Unresolved, lists, Indices
  <2>2. tried' = 1..here' - 1
      BY <1>2, <1>3, <2>1 DEF Indices
  <2>3. QED
      BY <1>2, <2>1, <2>2 DEF Indices
<1>7. CASE Attempt
  <2>1. /\ here \in Indices /\ here' = 0 /\ tried' = tried \cup {here}
        /\ attempts' = [attempts EXCEPT ![here] = @ + 1] /\ here # 0
        /\ UNCHANGED uris
      BY <1>7 DEF Attempt, lists, Indices
  <2>2. tried' = 1..here
      BY <1>2, <1>3, <2>1 DEF Indices
  <2>3. \A i \in Indices : attempts'[i] > 0 => i = here
      BY <1>2, <1>3, <2>1
  <2>4. QED
      BY <2>1, <2>2, <2>3 DEF Indices
<1>8. CASE AttemptEnds
  <2>1. PICK i \in Indices : \/ ConnectFails(i)
                             \/ ConnectThrows(i)
                             \/ \E c \in Connections : Connect(i, c)
      BY <1>8 DEF AttemptEnds
  <2>2. /\ attempts[i] > 0
        /\ attempts' = [attempts EXCEPT ![i] = @ - 1]
        /\ UNCHANGED <<uris, tried>>
        /\ here' = i + 1 \/ here' = 0
      BY <2>1 DEF ConnectFails, ConnectThrows, Connect, Free, NextURI, lists
  <2>3. tried = 1..i /\ i \in Nat
      BY <1>2, <1>3, <2>2 DEF Indices
  <2>4. \A j \in Indices : attempts'[j] > 0 => attempts[j] > 0
      BY <1>3, <2>2
  <2>5. here' # 0 => tried' = 1..here' - 1
      BY <2>2, <2>3
  <2>6. Indices' = Indices
      BY <2>2 DEF Indices
  <2>7. QED
      BY <1>2, <2>2, <2>4, <2>5, <2>6
<1>9. CASE Stop \/ Callback \/ Closed \/ UNCHANGED allVars
  <2>1. UNCHANGED <<uris, here, attempts, tried>>
      BY <1>9 DEF Stop, Callback, Closed, allVars, chain, lists
  <2>2. QED
      BY <1>2, <2>1 DEF Indices
<1>10. QED
    BY <1>4, <1>5, <1>6, <1>7, <1>8, <1>9 DEF ConnectingNext, InChain

\* Before the first chain.
LEMMA InitTrying == ConnectingInit => Trying
<1> SUFFICES ASSUME ConnectingInit PROVE Trying
    OBVIOUS
<1>1. here = 0 /\ \A i \in Indices : attempts[i] = 0
    BY DEF ConnectingInit
<1>2. QED
    BY <1>1 DEF Trying

LEMMA SpecTrying == ConnectingSpec => []Trying
<1>1. ConnectingSpec => []Alone
    BY ChainIsAlone, ConnectorIInv, SpecChained, PTL
<1>2. QED
    BY <1>1, ConnectorIInv, SpecChained, InitTrying, NextTrying, PTL
    DEF ConnectingSpec

\* However many URIs there are, a failure is reported after the last one only,
\* as long as connections report their end once (operator() and the catch of
\* MultiBackendConnector).
THEOREM AllURIsAreTried == ConnectingSpec => []TriesEveryURI
<1>1. Chained /\ Trying => TriesEveryURI
  <2> SUFFICES ASSUME Chained, Trying, ReportedOnce, here = Len(uris) + 1
               PROVE  tried = Indices
      BY DEF TriesEveryURI
  <2>1. Len(uris) \in Nat
      BY DEF Chained, ChainTypes
  <2>2. tried = 1..here - 1
      BY <2>1 DEF Trying
  <2>3. QED
      BY <2>1, <2>2 DEF Indices
<1>2. QED
    BY <1>1, SpecChained, SpecTrying, PTL

\* Whatever the URIs, and however often the client connects, an exception leaves
\* the chain at an unusable URI only, after every URI before it was tried; all
\* others are those of a connection whose peer has gone again (async_connect.h
\* and the constructor of Connection).
THEOREM ThrowsAtUnusable == ConnectingSpec => []ChainThrowsAtUnusableURI
<1>1. ConnectingInit => ChainThrowsAtUnusableURI
    BY DEF ConnectingInit, ChainThrowsAtUnusableURI
<1>2. ASSUME IInv, Chained, Trying, ChainThrowsAtUnusableURI,
             [ConnectingNext]_allVars
      PROVE  ChainThrowsAtUnusableURI'
  <2>1. /\ UNCHANGED <<backends_, uris, Indices>>
        /\ \A i \in Indices : Unusable(uris[i]) <=> Unusable(uris[i])'
    <3>1. UNCHANGED <<backends_, uris>>
        BY <1>2 DEF ConnectingNext, Start, Stop, Retry, Begin, InChain, Escape,
           Unresolved, Attempt, AllFailed, AttemptEnds, ConnectFails,
           ConnectThrows, Connect, NextURI, Callback, Closed, allVars, chain,
           lists
    <3>2. QED
        BY <3>1 DEF Indices, Unusable, Unknown, TooLong
  <2>2. ReportedOnce' => ReportedOnce
      BY <1>2, ReportsStay, ConnectingIsConnector
  <2>3. CASE Escape
    <3>1. here \in Indices /\ Unusable(uris[here]) /\ UNCHANGED tried /\ here # 0
        BY <2>3 DEF Escape, Unusable, Indices
    <3>2. ReportedOnce => tried = 1..here - 1
        BY <1>2, <3>1 DEF Trying
    <3>3. QED
        BY <2>1, <2>2, <3>1, <3>2 DEF ChainThrowsAtUnusableURI
  <2>4. CASE UNCHANGED <<thrown, gone>>
    <3>1. thrown => UNCHANGED tried
      <4>1. thrown => here = 0 /\ ~Start
        <5>1. ASSUME Start PROVE ~thrown
          <6>1. connecting = 0
              BY <1>2, <5>1 DEF IInv, NotStarted, Start, start
          <6>2. Cardinality(Outstanding) \in Nat
              BY <1>2, FS_CardinalityType DEF Chained
          <6>3. One(thrown) = 0
              BY <1>2, <6>1, <6>2 DEF Chained, OneChainPerConnect, One
          <6>4. QED
              BY <6>3 DEF One
        <5>2. thrown => here = 0
            BY <1>2 DEF Chained
        <5>3. QED
            BY <5>1, <5>2, Zenon
      <4>2. CASE InChain
          BY <4>1, <4>2, <1>2 DEF InChain, Escape, Unresolved, Attempt,
             AllFailed, Indices, Chained, ChainTypes
      <4>3. CASE Retry \/ AttemptEnds
          BY <4>3 DEF Retry, AttemptEnds, ConnectFails, ConnectThrows, Connect,
             Free
      <4>4. CASE Stop \/ Callback \/ Closed \/ UNCHANGED allVars
          BY <4>4 DEF Stop, Callback, Closed, allVars, chain
      <4>5. QED
          BY <1>2, <4>1, <4>2, <4>3, <4>4 DEF ConnectingNext
    <3>2. QED
      <4>1. ASSUME thrown, ~gone
            PROVE  (\E i \in Indices :
                        Unusable(uris[i]) /\ (ReportedOnce => tried = 1..(i - 1)))'
        <5>1. PICK i \in Indices :
                  Unusable(uris[i]) /\ (ReportedOnce => tried = 1..(i - 1))
            BY <1>2, <4>1, Zenon DEF ChainThrowsAtUnusableURI
        <5>2. Unusable(uris[i])' /\ (ReportedOnce' => tried' = 1..(i - 1))
            BY <2>1, <2>2, <3>1, <4>1, <5>1
        <5>3. QED
            BY <2>1, <5>2
      <4>2. QED
          BY <2>4, <4>1 DEF ChainThrowsAtUnusableURI
  <2>5. CASE gone' = TRUE
      BY <2>5 DEF ChainThrowsAtUnusableURI
  <2>6. QED
      BY <1>2, <2>3, <2>4, <2>5 DEF ConnectingNext, Start, Stop, Retry, Begin,
         InChain, Unresolved, Attempt, AllFailed, AttemptEnds, ConnectFails,
         ConnectThrows, Connect, NextURI, Callback, Closed, allVars, chain
<1>3. QED
    BY <1>1, <1>2, ConnectorIInv, SpecChained, SpecTrying, PTL DEF ConnectingSpec

-----------------------------------------------------------------------------
(* URIs and their texts.                                                   *)

\* The text of a TCP address, with brackets if the host has a colon, is parsed
\* to the same URI.
LEMMA TCPRoundTrip ==
    ASSUME NEW h \in Names \cup V6Hosts, NEW p \in Ports
    PROVE  Parse(Format(URI("tcp", <<h>>, p))) = Returns(URI("tcp", <<h>>, p))
<1> DEFINE t == Format(URI("tcp", <<h>>, p))
<1>1. p # NoPort
    BY DEF Ports, NoPort
<1>2. HasColon(<<h>>) <=> h \in V6Hosts \cup OtherHosts
    BY DEF HasColon
<1>3. t = <<"tcp", "://">> \o Bracketed(<<h>>) \o <<":", p>>
    BY <1>1 DEF Format, URI
<1>4. CASE h \in V6Hosts \cup OtherHosts
  <2>1. t = <<"tcp", "://">> \o (<<"[">> \o <<h>> \o <<"]">>) \o <<":", p>>
      BY <1>2, <1>3, <1>4 DEF Bracketed
  <2> HIDE DEF t
  <2>2. /\ Len(t) = 7 /\ t[1] = "tcp" /\ t[2] = "://" /\ t[3] = "["
        /\ t[4] = h /\ t[5] = "]" /\ t[6] = ":" /\ t[7] = p
      BY <2>1
  <2>3. MatchesIPv6(t) /\ ~MatchesIP(t) /\ ~Separated(t, "unix")
      BY <2>2 DEF MatchesIPv6, MatchesIP, Separated, EndsWithPort
  <2>4. Parse(t) = Returns(URI("tcp", <<h>>, p))
      BY <2>2, <2>3 DEF Parse
  <2>5. QED
      BY <2>4 DEF t
<1>5. CASE h \notin V6Hosts \cup OtherHosts
  <2>1. t = <<"tcp", "://">> \o <<h>> \o <<":", p>>
      BY <1>2, <1>3, <1>5 DEF Bracketed
  <2> HIDE DEF t
  <2>2. /\ Len(t) = 5 /\ t[1] = "tcp" /\ t[2] = "://" /\ t[3] = h
        /\ t[4] = ":" /\ t[5] = p
      BY <2>1
  <2>3. MatchesIP(t) /\ ~MatchesIPv6(t) /\ ~Separated(t, "unix")
      BY <1>5, <2>2 DEF MatchesIPv6, MatchesIP, Separated, EndsWithPort
  <2>4. Parse(t) = Returns(URI("tcp", <<h>>, p))
      BY <2>2, <2>3 DEF Parse
  <2>5. QED
      BY <2>4 DEF t
<1>6. QED
    BY <1>4, <1>5

\* The path of a socket file is the rest of the text.
LEMMA UnixRoundTrip ==
    ASSUME NEW S, NEW path \in Seq(S), path # <<>>
    PROVE  /\ Format(URI("unix", path, NoPort)) = <<"unix", "://">> \o path
           /\ Parse(Format(URI("unix", path, NoPort))) =
                  Returns(URI("unix", path, NoPort))
<1> DEFINE t == <<"unix", "://">> \o path
<1>1. Len(path) \in Nat /\ Len(path) > 0
    OBVIOUS
<1>2. /\ Len(t) = Len(path) + 2 /\ t[1] = "unix" /\ t[2] = "://"
      /\ SubSeq(t, 3, Len(t)) = path
    BY <1>1
<1>3. Format(URI("unix", path, NoPort)) = t
    BY DEF Format, URI
<1> HIDE DEF t
<1>4. Separated(t, "unix") /\ ~MatchesIP(t) /\ ~MatchesIPv6(t)
    BY <1>1, <1>2 DEF Separated, MatchesIP, MatchesIPv6
<1>5. Parse(t) = Returns(URI("unix", path, NoPort))
    BY <1>2, <1>4 DEF Parse
<1>6. QED
    BY <1>3, <1>5 DEF t


\* Whatever text URI::parse() accepts.
LEMMA ParsedRoundTrip ==
    ASSUME NEW t, Len(t) \in Nat, t = [k \in 1..Len(t) |-> t[k]],
           Succeeded(Parse(t))
    PROVE  Parse(Format(Parse(t).value)) = Returns(Parse(t).value)
<1>1. CASE MatchesIP(t)
  <2>1. Parse(t).value = URI("tcp", <<t[3]>>, t[5])
      BY <1>1 DEF Parse, Returns, MatchesIP, MatchesIPv6, Separated
  <2>2. t[3] \in Names \cup V6Hosts /\ t[5] \in Ports
      BY <1>1 DEF MatchesIP, EndsWithPort
  <2>3. QED
      BY <2>1, <2>2, TCPRoundTrip
<1>2. CASE MatchesIPv6(t)
  <2>1. Parse(t).value = URI("tcp", <<t[4]>>, t[7])
      BY <1>2 DEF Parse, Returns, MatchesIP, MatchesIPv6, Separated
  <2>2. t[4] \in Names \cup V6Hosts /\ t[7] \in Ports
      BY <1>2 DEF MatchesIPv6, EndsWithPort
  <2>3. QED
      BY <2>1, <2>2, TCPRoundTrip
<1>3. CASE Separated(t, "unix")
  <2> DEFINE path == SubSeq(t, 3, Len(t))
             S == {t[k] : k \in 1..Len(t)}
  <2>1. Parse(t).value = URI("unix", path, NoPort)
      BY <1>3 DEF Parse, Returns, MatchesIP, MatchesIPv6, Separated
  <2>2. path \in Seq(S) /\ path # <<>>
    <3>1. t \in Seq(S) /\ Len(t) > 2
        BY <1>3 DEF Separated
    <3> HIDE DEF S
    <3>2. path \in Seq(S)
        BY <3>1
    <3>3. Len(path) = Len(t) - 2
        BY <3>1
    <3>4. path # <<>>
      <4> HIDE DEF path
      <4>1. Len(path) > 0
          BY <3>1, <3>3, <1>3
      <4>2. QED
          BY <4>1
    <3>5. QED
        BY <3>2, <3>4, Zenon
  <2> HIDE DEF path, S
  <2>3. QED
      BY <2>1, <2>2, UnixRoundTrip
<1>4. CASE ~MatchesIP(t) /\ ~MatchesIPv6(t) /\ ~Separated(t, "unix")
  <2>1. Parse(t) = Throws("INVALID_ARGUMENT")
      BY <1>4 DEF Parse
  <2>2. QED
      BY <2>1 DEF Succeeded, Throws, Failures, StatusCodes
<1>5. QED
    BY <1>1, <1>2, <1>3, <1>4

\* The texts of addresses are those of their URIs.
LEMMA AddressesRoundTrip ==
    /\ \A ip \in Names \cup V6Hosts, port \in Ports :
          LET address == TCPAddress(ip, port)
          IN /\ TCPToString(address) = Format(TCPToURI(address))
             /\ Parse(TCPToString(address)) = Returns(TCPToURI(address))
    /\ \A file \in Files :
          LET address == UnixSocketAddress(<<file>>)
          IN /\ UnixToString(address) = Format(UnixToURI(address))
             /\ Parse(UnixToString(address)) = Returns(UnixToURI(address))
<1>1. ASSUME NEW ip \in Names \cup V6Hosts, NEW port \in Ports
      PROVE  LET address == TCPAddress(ip, port)
             IN /\ TCPToString(address) = Format(TCPToURI(address))
                /\ Parse(TCPToString(address)) = Returns(TCPToURI(address))
  <2> DEFINE address == TCPAddress(ip, port)
  <2>1. TCPToURI(address) = URI("tcp", <<ip>>, port)
      BY DEF TCPToURI, TCPAddress
  <2>2. TCPToString(address) = Format(URI("tcp", <<ip>>, port))
    <3>1. port # NoPort
        BY DEF Ports, NoPort
    <3>2. QED
        BY <3>1 DEF TCPToString, TCPAddress, Format, URI
  <2>3. Parse(Format(URI("tcp", <<ip>>, port))) = Returns(URI("tcp", <<ip>>, port))
      BY TCPRoundTrip
  <2> HIDE DEF address
  <2>4. /\ TCPToString(address) = Format(TCPToURI(address))
        /\ Parse(TCPToString(address)) = Returns(TCPToURI(address))
      BY <2>1, <2>2, <2>3
  <2>5. QED
      BY <2>4 DEF address
<1>2. ASSUME NEW file \in Files
      PROVE  LET address == UnixSocketAddress(<<file>>)
             IN /\ UnixToString(address) = Format(UnixToURI(address))
                /\ Parse(UnixToString(address)) = Returns(UnixToURI(address))
  <2> DEFINE address == UnixSocketAddress(<<file>>)
             path == <<file>>
  <2>1. /\ UnixToURI(address) = URI("unix", path, NoPort)
        /\ UnixToString(address) = <<"unix", "://">> \o path
      BY DEF UnixToURI, UnixToString, UnixSocketAddress
  <2>2. path \in Seq({file}) /\ path # <<>>
      OBVIOUS
  <2> HIDE DEF address, path
  <2>3. /\ Format(URI("unix", path, NoPort)) = <<"unix", "://">> \o path
        /\ Parse(Format(URI("unix", path, NoPort)))
               = Returns(URI("unix", path, NoPort))
      BY <2>2, UnixRoundTrip
  <2>4. /\ UnixToString(address) = Format(UnixToURI(address))
        /\ Parse(UnixToString(address)) = Returns(UnixToURI(address))
      BY <2>1, <2>3
  <2>5. QED
      BY <2>4 DEF address
<1>3. QED
    BY <1>1, <1>2

\* For any hosts, files and texts given to the builder, the text of a URI of the
\* client is parsed to the same URI again, and so are the texts of the addresses
\* of its connections (URI::parse(), to_uri(), to_string() and the formatters).
THEOREM TextsRoundTrip == ConnectingSpec => []URIsRoundTrip
<1> DEFINE Kept == \A i \in Indices : Parse(Format(uris[i])) = Returns(uris[i])
<1>1. ConnectingInit => Kept
  <2> SUFFICES ASSUME ConnectingInit PROVE Kept
      OBVIOUS
  <2>1. PICK texts \in TextLists :
            /\ Accepted(texts)
            /\ uris = [i \in DOMAIN texts |-> ConnectTo(texts)[i].value]
      BY DEF ConnectingInit
  <2>2. Len(uris) \in Nat /\ DOMAIN uris = DOMAIN texts
      BY <2>1, InitChained DEF Chained, ChainTypes
  <2>3. DOMAIN uris = 1..Len(uris)
    <3>1. Len(texts) \in Nat /\ DOMAIN texts = 1..Len(texts)
        BY ListsAssumption
    <3> DEFINE values == {ConnectTo(texts)[i].value : i \in 1..Len(texts)}
    <3>2. uris \in Seq(values)
        BY <2>1, <3>1
    <3> HIDE DEF values
    <3>3. QED
        BY <3>2
  <2>4. ASSUME NEW i \in DOMAIN texts
        PROVE  Parse(Format(uris[i])) = Returns(uris[i])
    <3> DEFINE t == texts[i]
    <3>1. Len(t) \in Nat /\ t = [k \in 1..Len(t) |-> t[k]]
        BY ListsAssumption
    <3>2. ConnectTo(texts)[i] = Parse(t)
        BY DEF ConnectTo
    <3>3. Succeeded(Parse(t)) /\ uris[i] = Parse(t).value
        BY <2>1, <3>2 DEF Accepted
    <3> HIDE DEF t
    <3>4. Parse(Format(Parse(t).value)) = Returns(Parse(t).value)
        BY <3>1, <3>3, ParsedRoundTrip
    <3>5. QED
        BY <3>3, <3>4
  <2>5. QED
      BY <2>2, <2>3, <2>4 DEF Indices
<1>2. Kept /\ [ConnectingNext]_allVars => Kept'
  <2>1. [ConnectingNext]_allVars => UNCHANGED uris
      BY DEF ConnectingNext, Start, Stop, Retry, Begin, InChain, Escape,
         Unresolved, Attempt, AllFailed, AttemptEnds, ConnectFails,
         ConnectThrows, Connect, NextURI, Callback, Closed, allVars, chain,
         lists
  <2>2. QED
      BY <2>1 DEF Indices
<1>3. Kept => URIsRoundTrip
  <2>1. ASSUME NEW port \in {0, 65535} PROVE port \in Ports
      BY DEF Ports
  <2>2. \A ip \in Names \cup V6Hosts, port \in {0, 65535} :
           LET address == TCPAddress(ip, port)
           IN /\ TCPToString(address) = Format(TCPToURI(address))
              /\ Parse(TCPToString(address)) = Returns(TCPToURI(address))
    <3>1. TAKE ip \in Names \cup V6Hosts, port \in {0, 65535}
    <3>2. port \in Ports
        BY <2>1
    <3>3. QED
        BY <3>2, AddressesRoundTrip
  <2>3. \A file \in Files :
           LET address == UnixSocketAddress(<<file>>)
           IN /\ UnixToString(address) = Format(UnixToURI(address))
              /\ Parse(UnixToString(address)) = Returns(UnixToURI(address))
    <3>1. TAKE file \in Files
    <3>2. QED
        BY AddressesRoundTrip
  <2>4. QED
      BY <2>2, <2>3 DEF URIsRoundTrip
<1>4. QED
    BY <1>1, <1>2, <1>3, PTL DEF ConnectingSpec
=============================================================================
