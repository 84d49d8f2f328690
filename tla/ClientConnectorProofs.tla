------------------------ MODULE ClientConnectorProofs ------------------------
(***************************************************************************)
(* Proofs about module ClientConnector, for any number of connections and  *)
(* of reports, and for any waiting times.                                  *)
(***************************************************************************)
EXTENDS ClientConnector, FiniteSetTheorems, TLAPS

\* is_stopped_ is the progress of stop().
StopFlagged == ~is_stopped_ <=> spc \in {"init", "running"}

\* Before start() nothing happens.
NotStarted ==
    spc = "init" =>
        /\ connecting = 0
        /\ ~armed
        /\ tpc = "idle"
        /\ \A c \in Connections : status[c] = "none"

\* The connection that on_connection() is about to adopt was not started.
NewConnection ==
    tpc = "connected" => tconn \in Connections /\ status[tconn] = "new"

\* Only a connection that is down has reported its end.
ReportsOfDown ==
    \A c \in Connections : status[c] # "down" => reports[c] = 0

\* What the client does to be connected, counted.
Efforts == connecting + One(armed) + Cardinality(Up)
             + One(tpc \in {"connected", "failed", "closed", "on_closed"})

\* There is never a second effort, not even after stop(), which takes away but
\* adds nothing.
NoSecondEffort == ReportedOnce => Efforts =< 1

\* A connection that is up is the current one or is being closed.
UpIsKnown == ReportedOnce => Up \ closing \subseteq {connection_}

\* The inductive invariant.
IInv ==
    /\ TypeOK
    /\ StopFlagged
    /\ NotStarted
    /\ NewConnection
    /\ ReportsOfDown
    /\ OneEffort
    /\ NoSecondEffort
    /\ CurrentIsUp
    /\ UpIsKnown

-----------------------------------------------------------------------------
(* The number of connections that are up.                                  *)

\* There are finitely many.
LEMMA UpIsFinite == IsFiniteSet(Up) /\ Cardinality(Up) \in Nat
<1>1. IsFiniteSet(Connections)
    BY FS_Interval, ConnectionsAssumption DEF Connections
<1>2. IsFiniteSet(Up)
    BY <1>1, FS_Subset, Up \subseteq Connections DEF Up
<1>3. QED
    BY <1>2, FS_CardinalityType

\* They depend on status only.
LEMMA SameUp == UNCHANGED status => Up' = Up /\ Cardinality(Up') = Cardinality(Up)
BY DEF Up

\* One connection is started.
LEMMA OneMoreUp ==
    ASSUME TypeOK, NEW c \in Connections, status[c] # "up",
           status' = [status EXCEPT ![c] = "up"]
    PROVE  Cardinality(Up') = Cardinality(Up) + 1
<1>1. Up' = Up \cup {c} /\ c \notin Up
    BY DEF TypeOK, Up
<1>2. QED
    BY <1>1, UpIsFinite, FS_AddElement

\* One connection stops.
LEMMA OneLessUp ==
    ASSUME TypeOK, NEW c \in Connections, status[c] = "up",
           status' = [status EXCEPT ![c] = "down"]
    PROVE  Cardinality(Up') = Cardinality(Up) - 1
<1>1. Up' = Up \ {c} /\ c \in Up
    BY DEF TypeOK, Up
<1>2. QED
    BY <1>1, UpIsFinite, FS_RemoveElement

\* None is up when none was established.
LEMMA NoneUp ==
    ASSUME \A c \in Connections : status[c] = "none"
    PROVE  Cardinality(Up) = 0
<1>1. Up = {}
    BY DEF Up
<1>2. QED
    BY <1>1, FS_EmptySet

\* Reports are never taken back.
LEMMA MoreReports ==
    ASSUME TypeOK, NEW c \in Connections, reports' = [reports EXCEPT ![c] = @ + 1],
           ReportedOnce'
    PROVE  ReportedOnce /\ reports[c] = 0
<1>1. \A d \in Connections : reports[d] \in Nat
    BY ConnectionsAssumption DEF TypeOK
<1>2. QED
    BY <1>1 DEF TypeOK, ReportedOnce

\* Efforts are counted by natural numbers.
LEMMA EffortsType == TypeOK => Efforts \in Nat
<1> SUFFICES ASSUME TypeOK PROVE Efforts \in Nat
    OBVIOUS
<1>1. connecting \in Nat /\ Cardinality(Up) \in Nat
    BY UpIsFinite DEF TypeOK
<1>2. One(armed) \in Nat
      /\ One(tpc \in {"connected", "failed", "closed", "on_closed"}) \in Nat
    BY DEF One
<1>3. QED
    BY <1>1, <1>2 DEF Efforts

\* If there is no second effort, nothing is up while a callback is between two
\* efforts.
LEMMA BusyMeansNotUp ==
    ASSUME TypeOK, NoSecondEffort, ReportedOnce,
           tpc \in {"connected", "failed", "closed", "on_closed"}
    PROVE  Up = {} /\ ~armed
<1>1. connecting \in Nat /\ Cardinality(Up) \in Nat /\ IsFiniteSet(Up)
      /\ One(armed) \in Nat
    BY UpIsFinite DEF TypeOK, One
<1>2. Cardinality(Up) = 0 /\ One(armed) = 0
    BY <1>1 DEF NoSecondEffort, Efforts, One
<1>3. QED
    BY <1>1, <1>2, FS_EmptySet DEF One

\* Without a second effort, connections are up one at a time.
LEMMA OneUpAtATime ==
    ASSUME TypeOK, NoSecondEffort, ReportedOnce
    PROVE  \A c, d \in Connections : status[c] = "up" /\ status[d] = "up" => c = d
<1>1. IsFiniteSet(Up) /\ Cardinality(Up) \in Nat
    BY UpIsFinite
<1>2. Cardinality(Up) =< 1
  <2>1. /\ One(armed) \in Nat /\ connecting \in Nat
        /\ One(tpc \in {"connected", "failed", "closed", "on_closed"}) \in Nat
      BY DEF One, TypeOK
  <2>2. QED
      BY <1>1, <2>1 DEF NoSecondEffort, Efforts
<1>3. ASSUME NEW c \in Up, NEW d \in Up, c # d
      PROVE  FALSE
  <2>1. IsFiniteSet({c}) /\ Cardinality({c}) = 1
      BY FS_Singleton
  <2>2. Cardinality({c} \cup {d}) = 2
      BY <1>3, <2>1, FS_AddElement
  <2>3. Cardinality({c} \cup {d}) =< Cardinality(Up)
      BY <1>1, FS_Subset, {c} \cup {d} \subseteq Up
  <2>4. QED
      BY <1>1, <1>2, <2>2, <2>3
<1>4. QED
    BY <1>3 DEF Up

\* A step that keeps the number of efforts, or does not raise it once the client
\* was stopped, keeps both counts.
LEMMA EffortsKept ==
    ASSUME IInv, TypeOK', spc # "init", UNCHANGED <<spc, is_stopped_>>,
           ReportedOnce' =>
               /\ ReportedOnce
               /\ Efforts' \in {Efforts, Efforts - 1}
               /\ ~is_stopped_ => Efforts' = Efforts
    PROVE  OneEffort' /\ NoSecondEffort'
<1>1. Efforts \in Nat
    BY EffortsType DEF IInv
<1>2. NoSecondEffort'
    BY <1>1 DEF IInv, NoSecondEffort
<1>3. OneEffort <=> (spc = "running" /\ ReportedOnce => Efforts = 1)
    BY Zenon DEF OneEffort, Efforts
<1>4. OneEffort' <=> (spc' = "running" /\ ReportedOnce' => Efforts' = 1)
    BY Zenon DEF OneEffort, Efforts
<1>5. spc = "running" => ~is_stopped_
    BY DEF IInv, StopFlagged
<1>6. QED
    BY <1>2, <1>3, <1>4, <1>5 DEF IInv

-----------------------------------------------------------------------------
(* The invariant.                                                          *)

\* It holds initially.
LEMMA InitIInv == Init => IInv
<1> SUFFICES ASSUME Init PROVE IInv
    OBVIOUS
<1>1. TypeOK
    <2>1. 0 \in 0..MaxReports /\ InitialWait \in InitialWait..MaxWait /\ 0 \in Nat
        BY WaitAssumption, ConnectionsAssumption
    <2>2. QED
        BY <2>1, Zenon DEF Init, TypeOK, TPCs
<1>2. Up = {} /\ Efforts = 0
  <2>1. Cardinality(Up) = 0 /\ Up = {}
      BY NoneUp DEF Init, Up
  <2>2. QED
      BY <2>1 DEF Init, Efforts, One
<1>3. QED
    BY <1>1, <1>2 DEF Init, IInv, StopFlagged, NotStarted, NewConnection,
       ReportsOfDown, OneEffort, NoSecondEffort, CurrentIsUp, UpIsKnown

\* start() begins the first effort.
LEMMA StartStep == IInv /\ start => IInv'
<1> SUFFICES ASSUME IInv, start PROVE IInv'
    OBVIOUS
<1>1. TypeOK'
    BY DEF IInv, TypeOK, start
<1>2. OneEffort' /\ NoSecondEffort'
    <2>1. Cardinality(Up') = 0
        BY NoneUp, SameUp DEF IInv, NotStarted, start
    <2>2. connecting' = 1 /\ ~armed' /\ tpc' = "idle"
        BY DEF IInv, NotStarted, start
    <2>3. QED
        BY <2>1, <2>2 DEF OneEffort, NoSecondEffort, Efforts, One
<1>3. UpIsKnown'
    BY SameUp DEF IInv, start, UpIsKnown, ReportedOnce
<1>4. QED
    BY <1>1, <1>2, <1>3 DEF IInv, start, StopFlagged, NotStarted, NewConnection,
       ReportsOfDown, CurrentIsUp

\* stop() ends what OneEffort is about.
LEMMA StopStep == IInv /\ stop => IInv'
<1> SUFFICES ASSUME IInv, stop PROVE IInv'
    OBVIOUS
<1>1. TypeOK'
    BY DEF IInv, TypeOK, stop, StopFlag, StopRelease, StopTimer
<1>2. spc \in {"running", "flagged", "released"}
      /\ spc' \in {"flagged", "released", "done"} /\ is_stopped_'
      /\ UNCHANGED <<status, reports, connecting, tpc, tconn>>
      /\ armed' \in {armed, FALSE}
    BY DEF IInv, StopFlagged, stop, StopFlag, StopRelease, StopTimer
<1>3. Up' = Up /\ ReportedOnce' = ReportedOnce
    BY <1>2 DEF Up, ReportedOnce
<1>4. NoSecondEffort'
    <2>1. connecting \in Nat /\ Cardinality(Up) \in Nat /\ armed \in BOOLEAN
        BY UpIsFinite DEF IInv, TypeOK
    <2>2. One(armed) \in {0, 1} /\ One(armed') \in {0, One(armed)}
      <3>1. CASE armed' = armed
          BY <3>1 DEF One
      <3>2. CASE armed' = FALSE
          BY <3>2 DEF One
      <3>3. QED
          BY <1>2, <3>1, <3>2
    <2>3. Efforts' =< Efforts /\ Efforts \in Nat /\ Efforts' \in Nat
      <3> DEFINE busy == One(tpc \in {"connected", "failed", "closed", "on_closed"})
      <3>1. busy \in {0, 1} /\ busy' = busy
          BY <1>2 DEF One
      <3> HIDE DEF busy
      <3>2. /\ Efforts = connecting + One(armed) + Cardinality(Up) + busy
            /\ Efforts' = connecting + One(armed') + Cardinality(Up) + busy
          BY <1>2, <1>3, <3>1 DEF Efforts, busy
      <3>3. QED
          BY <2>1, <2>2, <3>1, <3>2
    <2>4. QED
        BY <1>3, <2>3 DEF IInv, NoSecondEffort
<1>5. UpIsKnown'
    <2>1. CASE StopRelease
        BY <1>3, <2>1 DEF IInv, UpIsKnown, StopRelease
    <2>2. CASE UNCHANGED <<connection_, closing>>
        BY <1>3, <2>2 DEF IInv, UpIsKnown
    <2>3. QED
        BY <2>1, <2>2 DEF stop, StopFlag, StopTimer
<1>6. QED
    BY <1>1, <1>2, <1>4, <1>5 DEF IInv, StopFlagged, NotStarted, NewConnection,
       ReportsOfDown, OneEffort, CurrentIsUp

\* A connection was established.
LEMMA OnConnectionStep ==
    ASSUME IInv, NEW c \in Connections, on_connection(c)
    PROVE  IInv'
<1>1. TypeOK'
    BY DEF IInv, TypeOK, on_connection, TPCs
<1>2. spc # "init"
    BY DEF IInv, NotStarted, on_connection
<1>3. OneEffort' /\ NoSecondEffort' /\ UpIsKnown'
    <2>1. UNCHANGED <<spc, is_stopped_, connection_, closing, reports>>
        BY DEF on_connection
    <2>2. Up' = Up /\ ReportedOnce' = ReportedOnce
        BY <2>1 DEF IInv, TypeOK, on_connection, Up, ReportedOnce
    <2>3. connecting' = connecting - 1 /\ armed' = armed /\ tpc = "idle"
          /\ tpc' = (IF is_stopped_ THEN "idle" ELSE "connected")
          /\ connecting \in Nat
        BY DEF IInv, TypeOK, on_connection
    <2>4. Efforts' \in {Efforts, Efforts - 1} /\ (~is_stopped_ => Efforts' = Efforts)
        BY <2>2, <2>3, UpIsFinite DEF Efforts, One
    <2>5. QED
        BY <1>1, <1>2, <2>1, <2>2, <2>4, EffortsKept DEF IInv, UpIsKnown
<1>4. CurrentIsUp'
    BY DEF IInv, TypeOK, on_connection, CurrentIsUp
<1>5. ReportsOfDown' /\ NewConnection'
    BY DEF IInv, TypeOK, on_connection, ReportsOfDown, NewConnection
<1>6. QED
    BY <1>1, <1>2, <1>3, <1>4, <1>5 DEF IInv, on_connection, StopFlagged,
       NotStarted

\* The new connection is adopted.
LEMMA AdoptStep == IInv /\ AdoptConnection => IInv'
<1> SUFFICES ASSUME IInv, AdoptConnection PROVE IInv'
    OBVIOUS
<1>1. tconn \in Connections /\ status[tconn] = "new" /\ tpc = "connected"
    BY DEF IInv, NewConnection, AdoptConnection
<1>2. TypeOK'
    BY <1>1, WaitAssumption DEF IInv, TypeOK, AdoptConnection, TPCs
<1>3. OneEffort' /\ NoSecondEffort' /\ UpIsKnown'
    <2>1. Cardinality(Up') = Cardinality(Up) + 1
        BY <1>1, OneMoreUp DEF IInv, AdoptConnection
    <2>2. UNCHANGED <<connecting, armed, spc, is_stopped_, closing, reports>>
          /\ tpc' = "on_connection" /\ connection_' = tconn
        BY DEF AdoptConnection
    <2>3. ReportedOnce' = ReportedOnce
        BY <2>2 DEF ReportedOnce
    <2>4. connecting \in Nat /\ armed \in BOOLEAN
        BY DEF IInv, TypeOK
    <2>5. Efforts' = Efforts
        BY <1>1, <2>1, <2>2, <2>4, UpIsFinite DEF Efforts, One
    <2>6. Efforts \in Nat
        BY EffortsType DEF IInv
    <2>7. spc # "init"
        BY <1>1 DEF IInv, NotStarted
    <2>8. UpIsKnown'
        BY <1>1, <2>2, <2>3, BusyMeansNotUp
        DEF IInv, TypeOK, UpIsKnown, Up, AdoptConnection
    <2>9. QED
        BY <1>2, <2>2, <2>3, <2>5, <2>6, <2>7, <2>8, EffortsKept
<1>4. CurrentIsUp' /\ ReportsOfDown' /\ NewConnection'
    BY <1>1 DEF IInv, TypeOK, AdoptConnection, CurrentIsUp, ReportsOfDown,
       NewConnection
<1>5. QED
    BY <1>1, <1>2, <1>3, <1>4 DEF IInv, AdoptConnection, StopFlagged, NotStarted

\* A connection stops.
LEMMA ClosedStep ==
    ASSUME IInv, NEW c \in Connections, on_connection_closed(c)
    PROVE  IInv'
<1>1. reports[c] < MaxReports /\ reports[c] \in Nat
    BY ConnectionsAssumption DEF IInv, TypeOK, ReportsOfDown, on_connection_closed
<1>2. TypeOK'
    <2>1. reports[c] + 1 \in 0..MaxReports
        BY <1>1, ConnectionsAssumption
    <2>2. QED
        BY <2>1 DEF IInv, TypeOK, on_connection_closed, TPCs
<1>3. spc # "init"
    BY DEF IInv, NotStarted, on_connection_closed
<1>4. OneEffort' /\ NoSecondEffort'
    <2>1. ASSUME ReportedOnce'
          PROVE  /\ ReportedOnce /\ Efforts' \in {Efforts, Efforts - 1}
                 /\ ~is_stopped_ => Efforts' = Efforts
        <3>1. ReportedOnce /\ reports[c] = 0
            BY <2>1, MoreReports DEF IInv, on_connection_closed
        <3>2. status[c] = "up"
            BY <3>1 DEF on_connection_closed
        <3>3. Cardinality(Up') = Cardinality(Up) - 1
            BY <3>2, OneLessUp DEF IInv, on_connection_closed
        <3>4. UNCHANGED <<connecting, armed>> /\ tpc = "idle"
              /\ tpc' = (IF is_stopped_ THEN "idle" ELSE "closed")
            BY DEF on_connection_closed
        <3>5. connecting \in Nat /\ armed \in BOOLEAN
            BY DEF IInv, TypeOK
        <3>6. QED
            BY <3>1, <3>3, <3>4, <3>5, UpIsFinite DEF Efforts, One
    <2>2. UNCHANGED <<spc, is_stopped_>>
        BY DEF on_connection_closed
    <2>3. QED
        BY <1>2, <1>3, <2>1, <2>2, EffortsKept
<1>8. UpIsKnown'
    <2>1. ReportedOnce' => ReportedOnce
        BY MoreReports DEF IInv, on_connection_closed
    <2>2. QED
        BY <2>1 DEF IInv, TypeOK, on_connection_closed, UpIsKnown, Up
<1>5. CurrentIsUp' /\ NewConnection'
    BY DEF IInv, TypeOK, on_connection_closed, CurrentIsUp, NewConnection
<1>6. ReportsOfDown'
    BY DEF IInv, TypeOK, on_connection_closed, ReportsOfDown
<1>7. QED
    BY <1>2, <1>3, <1>4, <1>5, <1>6, <1>8 DEF IInv, on_connection_closed,
       StopFlagged, NotStarted

\* The other callbacks of the transport thread pass the effort on.
LEMMA CallbackStep ==
    ASSUME IInv,
           \/ ConnectionCallback \/ on_connection_failure \/ async_wait
           \/ TimerFires \/ ForgetConnection \/ Reconnect
    PROVE  IInv'
<1>1. UNCHANGED <<is_stopped_, status, reports, closing, spc>>
      /\ connection_' \in {connection_, None} /\ tconn' \in {tconn, None}
      /\ tpc' # "connected" /\ (tpc = "closed" => connection_' = None)
    BY DEF ConnectionCallback, on_connection_failure, async_wait, TimerFires,
       ForgetConnection, Reconnect
<1>2. next_wait' \in InitialWait..MaxWait
    BY WaitAssumption DEF IInv, TypeOK, ConnectionCallback,
       on_connection_failure, async_wait, compute_waiting_time, TimerFires,
       ForgetConnection, Reconnect
<1>3. connecting' \in Nat /\ armed' \in BOOLEAN /\ tpc' \in TPCs
    <2>1. connecting' \in Nat /\ tpc' \in TPCs
        BY DEF IInv, TypeOK, TPCs, ConnectionCallback, on_connection_failure,
           async_wait, TimerFires, ForgetConnection, Reconnect
    <2>2. armed' \in BOOLEAN
        BY Zenon DEF IInv, TypeOK, ConnectionCallback, on_connection_failure,
           async_wait, TimerFires, ForgetConnection, Reconnect
    <2>3. QED
        BY <2>1, <2>2
<1>4. TypeOK'
    BY <1>1, <1>2, <1>3 DEF IInv, TypeOK
<1>5. spc # "init"
    BY DEF IInv, NotStarted, ConnectionCallback, on_connection_failure,
       async_wait, TimerFires, ForgetConnection, Reconnect
<1>6. OneEffort' /\ NoSecondEffort'
    <2>1. Cardinality(Up') = Cardinality(Up) /\ ReportedOnce' = ReportedOnce
        BY <1>1, SameUp DEF ReportedOnce
    <2>2. connecting \in Nat /\ armed \in BOOLEAN
        BY DEF IInv, TypeOK
    <2>3. ASSUME ReportedOnce
          PROVE  /\ Efforts' \in {Efforts, Efforts - 1}
                 /\ ~is_stopped_ => Efforts' = Efforts
        <3> USE <2>1, <2>2, UpIsFinite DEF Efforts, One
        <3>1. CASE ConnectionCallback
            BY <3>1 DEF ConnectionCallback
        <3>2. CASE on_connection_failure
            BY <3>2 DEF on_connection_failure
        <3>3. CASE async_wait
            <4>1. ~armed
                BY <2>3, <3>3, BusyMeansNotUp DEF IInv, async_wait
            <4>2. QED
                BY <3>3, <4>1 DEF async_wait
        <3>4. CASE TimerFires
            BY <3>4 DEF TimerFires
        <3>5. CASE ForgetConnection
            BY <3>5 DEF ForgetConnection
        <3>6. CASE Reconnect
            BY <3>6 DEF Reconnect
        <3>7. QED
            BY <3>1, <3>2, <3>3, <3>4, <3>5, <3>6
    <2>4. QED
        BY <1>1, <1>4, <1>5, <2>1, <2>3, EffortsKept
<1>9. UpIsKnown'
    <2>1. Up' = Up /\ ReportedOnce' = ReportedOnce
        BY <1>1 DEF Up, ReportedOnce
    <2>2. CASE ForgetConnection
        BY <1>1, <2>1, <2>2, BusyMeansNotUp DEF IInv, UpIsKnown, ForgetConnection
    <2>3. CASE UNCHANGED connection_
        BY <1>1, <2>1, <2>3 DEF IInv, UpIsKnown
    <2>4. QED
        BY <2>2, <2>3 DEF ConnectionCallback, on_connection_failure, async_wait,
           TimerFires, Reconnect
<1>7. CurrentIsUp' /\ NewConnection' /\ ReportsOfDown'
    BY <1>1 DEF IInv, CurrentIsUp, NewConnection, ReportsOfDown
<1>8. QED
    BY <1>1, <1>4, <1>5, <1>6, <1>7, <1>9 DEF IInv, StopFlagged, NotStarted

\* Every step preserves the invariant.
LEMMA NextIInv == IInv /\ [Next]_vars => IInv'
<1> SUFFICES ASSUME IInv, [Next]_vars PROVE IInv'
    OBVIOUS
<1>1. CASE start \/ stop
    BY <1>1, StartStep, StopStep
<1>2. ASSUME NEW c \in Connections, on_connection(c) \/ on_connection_closed(c)
      PROVE  IInv'
    BY <1>2, OnConnectionStep, ClosedStep
<1>3. CASE AdoptConnection
    BY <1>3, AdoptStep
<1>4. CASE \/ ConnectionCallback \/ on_connection_failure \/ async_wait
           \/ TimerFires \/ ForgetConnection \/ Reconnect
    BY <1>4, CallbackStep
<1>5. CASE UNCHANGED vars
    <2>1. Up' = Up /\ ReportedOnce' = ReportedOnce
        BY <1>5 DEF vars, Up, ReportedOnce
    <2>2. QED
        BY <1>5, <2>1 DEF vars, IInv, TypeOK, StopFlagged, NotStarted,
           NewConnection, ReportsOfDown, OneEffort, NoSecondEffort, Efforts,
           CurrentIsUp, UpIsKnown
<1>6. QED
    BY <1>1, <1>2, <1>3, <1>4, <1>5 DEF Next, ConnectEnds, Connected,
       ConnectionEnds, Continue

\* The invariant holds for ever.
LEMMA SpecIInv == Spec => []IInv
BY InitIInv, NextIInv, PTL DEF Spec

\* Every variable keeps its type; in particular the waiting time stays between
\* its bounds, and a connection reports its end as often as assumed.
THEOREM ConnectorTypes == Spec => []TypeOK
<1>1. IInv => TypeOK
    BY DEF IInv
<1>2. QED
    BY <1>1, SpecIInv, PTL

\* Until it is stopped, a client makes exactly one effort to be connected.
THEOREM NeverGivesUp == Spec => []OneEffort
<1>1. IInv => OneEffort
    BY DEF IInv
<1>2. QED
    BY <1>1, SpecIInv, PTL

\* The current connection is up, or its end is being handled.
THEOREM CurrentConnectionIsUp == Spec => []CurrentIsUp
<1>1. IInv => CurrentIsUp
    BY DEF IInv
<1>2. QED
    BY <1>1, SpecIInv, PTL

\* After stop() has released connection_, every connection that is up is being
\* closed, except for the one that was adopted later, as long as connections
\* report their end once.
THEOREM StopClosesTheRest == Spec => []StopLeavesOnlyALateOne
<1>1. IInv => StopLeavesOnlyALateOne
    BY DEF IInv, UpIsKnown, StopLeavesOnlyALateOne
<1>2. QED
    BY <1>1, SpecIInv, PTL
=============================================================================
