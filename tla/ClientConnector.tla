---------------------------- MODULE ClientConnector ----------------------------
(***************************************************************************)
(* The part of a client that keeps it connected                            *)
(* (clients/impl/client_connector.h and reconnection_timer.h).             *)
(*                                                                         *)
(* The callbacks of connecting, of the retry timer and of connections run  *)
(* in the transport thread; stop() is called by a thread of the user and   *)
(* interleaves with them at connection_mutex_ and at the atomic            *)
(* is_stopped_.  tpc is the position of the transport thread in the        *)
(* callback it runs, spc the progress of start() and stop().               *)
(*                                                                         *)
(* A connection is abstracted to what the connector sees of it (module     *)
(* Connection has the details): it is up from start() until it stops, and  *)
(* a stop is reported by at most MaxReports calls of on_closed_.           *)
(***************************************************************************)
EXTENDS Naturals, FiniteSets

CONSTANTS
    MaxConnections,     \* bound: connections established
    MaxReports,         \* calls of on_closed_ of one connection
    InitialWait,        \* initial_waiting_time_
    MaxWait             \* max_waiting_time_

\* The constructor of ReconnectionTimer throws otherwise.
ASSUME WaitAssumption ==
    InitialWait \in Nat \ {0} /\ MaxWait \in Nat /\ InitialWait =< MaxWait
ASSUME ConnectionsAssumption ==
    MaxConnections \in Nat /\ MaxReports \in Nat \ {0}

VARIABLES
    connection_,    \* the current connection, None if not connected
    is_stopped_,
    status,         \* status of each connection
    reports,        \* number of calls of on_closed_ of each connection
    closing,        \* connections whose async_close() is posted
    connecting,     \* number of async_connect() in progress
    armed,          \* the retry timer is waiting
    next_wait,      \* next_wait_time_without_jitter_
    tpc, tconn,     \* the transport thread and the connection it handles
    spc             \* progress of start() and stop()

vars == <<connection_, is_stopped_, status, reports, closing, connecting,
          armed, next_wait, tpc, tconn, spc>>

Connections == 1..MaxConnections
None == 0

TPCs == {"idle", "connected", "on_connection", "failed", "closed", "on_closed"}

TypeOK ==
    /\ connection_ \in Connections \cup {None}
    /\ is_stopped_ \in BOOLEAN
    /\ status \in [Connections -> {"none", "new", "up", "down"}]
    /\ reports \in [Connections -> 0..MaxReports]
    /\ closing \subseteq Connections
    /\ connecting \in Nat
    /\ armed \in BOOLEAN
    /\ next_wait \in InitialWait..MaxWait
    /\ tpc \in TPCs
    /\ tconn \in Connections \cup {None}
    /\ spc \in {"init", "running", "flagged", "released", "done"}

Init ==
    /\ connection_ = None
    /\ is_stopped_ = FALSE
    /\ status = [c \in Connections |-> "none"]
    /\ reports = [c \in Connections |-> 0]
    /\ closing = {}
    /\ connecting = 0
    /\ armed = FALSE
    /\ next_wait = InitialWait
    /\ tpc = "idle"
    /\ tconn = None
    /\ spc = "init"

-----------------------------------------------------------------------------
(* Called by the user.                                                     *)

start ==
    /\ spc = "init"
    /\ spc' = "running"
    /\ connecting' = connecting + 1
    /\ UNCHANGED <<connection_, is_stopped_, status, reports, closing, armed,
                   next_wait, tpc, tconn>>

\* stop(), up to the exchange of is_stopped_.
StopFlag ==
    /\ spc = "running"
    /\ spc' = "flagged"
    /\ is_stopped_' = TRUE
    /\ UNCHANGED <<connection_, status, reports, closing, connecting, armed,
                   next_wait, tpc, tconn>>

\* Fault: the connection is dropped and not closed.
ReleaseOnly ==
    /\ spc = "flagged"
    /\ spc' = "released"
    /\ connection_' = None
    /\ UNCHANGED <<is_stopped_, status, reports, closing, connecting, armed,
                   next_wait, tpc, tconn>>

\* stop(), the section under connection_mutex_.
StopRelease ==
    /\ spc = "flagged"
    /\ spc' = "released"
    /\ connection_' = None
    /\ closing' = closing \cup ({connection_} \ {None})
    /\ UNCHANGED <<is_stopped_, status, reports, connecting, armed, next_wait,
                   tpc, tconn>>

\* stop(), the cancellation of the retry timer.
StopTimer ==
    /\ spc = "released"
    /\ spc' = "done"
    /\ armed' = FALSE
    /\ UNCHANGED <<connection_, is_stopped_, status, reports, closing,
                   connecting, next_wait, tpc, tconn>>

stop == StopFlag \/ StopRelease \/ StopTimer

-----------------------------------------------------------------------------
(* The transport thread.                                                   *)

\* on_connection(), the check of is_stopped_: a connection that comes too late
\* is dropped without being started.
on_connection(c) ==
    /\ tpc = "idle"
    /\ connecting > 0
    /\ status[c] = "none"
    /\ \A d \in Connections : d < c => status[d] # "none"
    /\ connecting' = connecting - 1
    /\ status' = [status EXCEPT ![c] = IF is_stopped_ THEN "down" ELSE "new"]
    /\ tpc' = IF is_stopped_ THEN "idle" ELSE "connected"
    /\ tconn' = IF is_stopped_ THEN None ELSE c
    /\ UNCHANGED <<connection_, is_stopped_, reports, closing, armed,
                   next_wait, spc>>

\* on_connection(), the section under connection_mutex_: is_stopped_ is not
\* checked again.
AdoptConnection ==
    /\ tpc = "connected"
    /\ connection_' = tconn
    /\ status' = [status EXCEPT ![tconn] = "up"]
    /\ next_wait' = InitialWait
    /\ tpc' = "on_connection"
    /\ UNCHANGED <<is_stopped_, reports, closing, connecting, armed, tconn, spc>>

\* The callback of the client when connected.
ConnectionCallback ==
    /\ tpc = "on_connection"
    /\ tpc' = "idle"
    /\ tconn' = None
    /\ UNCHANGED <<connection_, is_stopped_, status, reports, closing,
                   connecting, armed, next_wait, spc>>

\* Fault: the failure is not handled.
GiveUp ==
    /\ tpc = "idle"
    /\ connecting > 0
    /\ connecting' = connecting - 1
    /\ UNCHANGED <<connection_, is_stopped_, status, reports, closing, armed,
                   next_wait, tpc, tconn, spc>>

\* Fault: a client that was stopped retries as well.
RetryAlways ==
    /\ tpc = "idle"
    /\ connecting > 0
    /\ connecting' = connecting - 1
    /\ tpc' = "failed"
    /\ UNCHANGED <<connection_, is_stopped_, status, reports, closing, armed,
                   next_wait, tconn, spc>>

on_connection_failure ==
    /\ tpc = "idle"
    /\ connecting > 0
    /\ connecting' = connecting - 1
    /\ tpc' = IF is_stopped_ THEN "idle" ELSE "failed"
    /\ UNCHANGED <<connection_, is_stopped_, status, reports, closing, armed,
                   next_wait, tconn, spc>>

\* Fault: the maximum is not applied.
UnboundedWait == next_wait' = 2 * next_wait

\* compute_waiting_time(): the time doubles up to the maximum.
compute_waiting_time ==
    next_wait' = IF 2 * next_wait > MaxWait THEN MaxWait ELSE 2 * next_wait

async_wait ==
    /\ tpc = "failed"
    /\ tpc' = "idle"
    /\ armed' = TRUE
    /\ compute_waiting_time
    /\ UNCHANGED <<connection_, is_stopped_, status, reports, closing,
                   connecting, tconn, spc>>

\* The retry timer expires and calls async_connect().
TimerFires ==
    /\ tpc = "idle"
    /\ armed
    /\ armed' = FALSE
    /\ connecting' = connecting + 1
    /\ UNCHANGED <<connection_, is_stopped_, status, reports, closing,
                   next_wait, tpc, tconn, spc>>

\* on_connection_closed(), the check of is_stopped_, when connection c stops.
\* The peer may end a connection at any time; async_close() ends it as well.
on_connection_closed(c) ==
    /\ tpc = "idle"
    /\ \/ status[c] = "up"
       \/ status[c] = "down" /\ reports[c] \in 1..(MaxReports - 1)
    /\ status' = [status EXCEPT ![c] = "down"]
    /\ reports' = [reports EXCEPT ![c] = @ + 1]
    /\ closing' = closing \ {c}
    /\ tpc' = IF is_stopped_ THEN "idle" ELSE "closed"
    /\ UNCHANGED <<connection_, is_stopped_, connecting, armed, next_wait,
                   tconn, spc>>

\* Fault: the connection is not dropped.
KeepConnection ==
    /\ tpc = "closed"
    /\ tpc' = "on_closed"
    /\ UNCHANGED <<connection_, is_stopped_, status, reports, closing,
                   connecting, armed, next_wait, tconn, spc>>

\* on_connection_closed(), the section under connection_mutex_: the current
\* connection is dropped, whichever connection was closed.
ForgetConnection ==
    /\ tpc = "closed"
    /\ tpc' = "on_closed"
    /\ connection_' = None
    /\ UNCHANGED <<is_stopped_, status, reports, closing, connecting, armed,
                   next_wait, tconn, spc>>

\* The callback of the client when closed, then async_connect().
Reconnect ==
    /\ tpc = "on_closed"
    /\ tpc' = "idle"
    /\ connecting' = connecting + 1
    /\ UNCHANGED <<connection_, is_stopped_, status, reports, closing, armed,
                   next_wait, tconn, spc>>

-----------------------------------------------------------------------------

Connected == \E c \in Connections : on_connection(c)
ConnectEnds == Connected \/ on_connection_failure
ConnectionEnds == \E c \in Connections : on_connection_closed(c)
CloseInThread == \E c \in closing : on_connection_closed(c)
Continue == AdoptConnection \/ ConnectionCallback \/ async_wait
            \/ ForgetConnection \/ Reconnect

Next == start \/ stop \/ ConnectEnds \/ TimerFires \/ ConnectionEnds \/ Continue

\* The transport thread finishes the callback it runs; connecting, the timer
\* and a posted close come to an end; stop() runs to its end.
Fairness ==
    /\ WF_vars(start)
    /\ WF_vars(StopRelease \/ StopTimer)
    /\ WF_vars(Continue)
    /\ WF_vars(ConnectEnds)
    /\ WF_vars(TimerFires)
    /\ WF_vars(CloseInThread)

Spec == Init /\ [][Next]_vars /\ Fairness

-----------------------------------------------------------------------------
(* Properties.                                                             *)

Up == {c \in Connections : status[c] = "up"}
One(b) == IF b THEN 1 ELSE 0
ReportedOnce == \A c \in Connections : reports[c] =< 1

\* Until it is stopped, a client is always doing exactly one thing to be
\* connected: it is connecting, waiting to retry, connected, or handling the
\* change from one to the next.  It never gives up and never has two
\* connections (on_connection_closed() and on_connection_failure()).  This needs
\* connections that report their end once: a second report starts a second
\* effort beside the first one.
OneEffort ==
    spc = "running" /\ ReportedOnce =>
        connecting + One(armed) + Cardinality(Up)
            + One(tpc \in {"connected", "failed", "closed", "on_closed"}) = 1

\* connection_ is a connection that is up, or whose close is being handled:
\* messages are never handed to a connection that was given up.
CurrentIsUp ==
    connection_ # None /\ tpc # "closed" /\ ~is_stopped_ =>
        status[connection_] = "up"

\* What stop() leaves behind: nothing is being connected.
Quiet == connecting = 0 /\ ~armed

\* After stop() has released connection_, every connection that is up is being
\* closed, except one: a connection that on_connection() adopts later because it
\* had checked is_stopped_ before (line 150 of client_connector.h).
StopLeavesOnlyALateOne ==
    spc \in {"released", "done"} /\ ReportedOnce =>
        Up \ closing \subseteq {connection_}
=============================================================================
