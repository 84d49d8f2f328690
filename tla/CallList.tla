------------------------------- MODULE CallList -------------------------------
(***************************************************************************)
(* The pending calls of a client (clients/impl/call_list.h, call.h,        *)
(* call_promise.h, call_future_impl.h, request_id_generator.h and          *)
(* received_message_processor.h).                                          *)
(*                                                                         *)
(* create() runs in threads of the user, handle() in the transport thread, *)
(* on_timeout() in callback threads and get_result() in threads of the     *)
(* user.  list_ is guarded by mutex_, the result of a call by the mutex of *)
(* its future.  Call k is the k-th invocation of create(); the response    *)
(* that the server computes for it is represented by k.                    *)
(***************************************************************************)
EXTENDS Naturals, FiniteSets

CONSTANTS
    MaxCalls,       \* bound: calls of create()
    IdSpace,        \* number of message IDs, 2^32 in the code
    MaxReplies      \* responses to one request; a request may be sent twice

ASSUME IdSpaceAssumption == IdSpace \in Nat \ {0}
ASSUME CallsAssumption == MaxCalls \in Nat /\ MaxReplies \in Nat

VARIABLES
    next_id_,       \* RequestIDGenerator::next_id_
    list_,          \* call registered for each ID, None if there is none
    pc,             \* progress of create() for each call
    id,             \* message ID of each call
    timer,          \* timeout_timer_ of each call
    expired,        \* the deadline of the call has passed
    result,         \* what the future of each call holds
    notifying,      \* notify_all() is still to be called for this future
    waiter,         \* a thread in get_result() or get_result_within()
    replies,        \* responses on their way, and the number made so far
    replied,
    alive           \* the CallList has not been destroyed

vars == <<next_id_, list_, pc, id, timer, expired, result, notifying, waiter,
          replies, replied, alive>>

Calls == 1..MaxCalls
Ids == 0..(IdSpace - 1)
None == 0
Unset == 0
Timeout == MaxCalls + 1

TypeOK ==
    /\ next_id_ \in Ids
    /\ list_ \in [Ids -> Calls \cup {None}]
    /\ pc \in [Calls -> {"none", "emplace", "set_timeout", "future", "send",
                         "returned", "threw"}]
    /\ id \in [Calls -> Ids]
    /\ timer \in [Calls -> {"off", "armed", "queued"}]
    /\ expired \in [Calls -> BOOLEAN]
    /\ result \in [Calls -> Calls \cup {Unset, Timeout}]
    /\ notifying \in [Calls -> BOOLEAN]
    /\ waiter \in [Calls -> {"none", "checking", "sleeping"}]
    /\ replies \in [Calls -> 0..MaxReplies]
    /\ replied \in [Calls -> 0..MaxReplies]
    /\ alive \in BOOLEAN

\* The first ID is random.
Init ==
    /\ next_id_ \in Ids
    /\ list_ = [i \in Ids |-> None]
    /\ pc = [k \in Calls |-> "none"]
    /\ id = [k \in Calls |-> 0]
    /\ timer = [k \in Calls |-> "off"]
    /\ expired = [k \in Calls |-> FALSE]
    /\ result = [k \in Calls |-> Unset]
    /\ notifying = [k \in Calls |-> FALSE]
    /\ waiter = [k \in Calls |-> "none"]
    /\ replies = [k \in Calls |-> 0]
    /\ replied = [k \in Calls |-> 0]
    /\ alive = TRUE

Goto(k, label) == pc' = [pc EXCEPT ![k] = label]

-----------------------------------------------------------------------------
(* create() and async_call().                                              *)

\* Fault: every call gets the same ID.
GenerateSame(k) ==
    /\ pc[k] = "none"
    /\ alive
    /\ \A j \in Calls : j < k => pc[j] # "none"
    /\ id' = [id EXCEPT ![k] = next_id_]
    /\ Goto(k, "emplace")
    /\ UNCHANGED <<next_id_, list_, timer, expired, result, notifying, waiter,
                   replies, replied, alive>>

\* The deadline is fixed, and an ID is generated, wrapping around.
generate(k) ==
    /\ pc[k] = "none"
    /\ alive
    /\ \A j \in Calls : j < k => pc[j] # "none"
    /\ id' = [id EXCEPT ![k] = next_id_]
    /\ next_id_' = (next_id_ + 1) % IdSpace
    /\ Goto(k, "emplace")
    /\ UNCHANGED <<list_, timer, expired, result, notifying, waiter, replies,
                   replied, alive>>

\* Fault: the timer is started as soon as the call is in the list.
EmplaceArmed(k) ==
    /\ pc[k] = "emplace"
    /\ IF list_[id[k]] = None
       THEN /\ list_' = [list_ EXCEPT ![id[k]] = k]
            /\ timer' = [timer EXCEPT ![k] = "armed"]
            /\ Goto(k, "set_timeout")
       ELSE Goto(k, "threw") /\ UNCHANGED <<list_, timer>>
    /\ UNCHANGED <<next_id_, id, expired, result, notifying, waiter, replies,
                   replied, alive>>

\* The section under mutex_: a duplicate ID is an exception.
Emplace(k) ==
    /\ pc[k] = "emplace"
    /\ IF list_[id[k]] = None
       THEN list_' = [list_ EXCEPT ![id[k]] = k] /\ Goto(k, "set_timeout")
       ELSE Goto(k, "threw") /\ UNCHANGED list_
    /\ UNCHANGED <<next_id_, id, timer, expired, result, notifying, waiter,
                   replies, replied, alive>>

\* Fault: the timer is not started.
NoTimeout(k) ==
    /\ pc[k] = "set_timeout"
    /\ Goto(k, "future")
    /\ UNCHANGED <<next_id_, list_, id, timer, expired, result, notifying,
                   waiter, replies, replied, alive>>

\* The timer is started through a reference to the call, without mutex_.
set_timeout(k) ==
    /\ pc[k] = "set_timeout"
    /\ timer' = [timer EXCEPT ![k] = "armed"]
    /\ Goto(k, "future")
    /\ UNCHANGED <<next_id_, list_, id, expired, result, notifying, waiter,
                   replies, replied, alive>>

\* call.future(), through the same reference.
GetFuture(k) ==
    /\ pc[k] = "future"
    /\ Goto(k, "send")
    /\ UNCHANGED <<next_id_, list_, id, timer, expired, result, notifying,
                   waiter, replies, replied, alive>>

\* async_call() sends the request and returns the future.
Send(k) ==
    /\ pc[k] = "send"
    /\ Goto(k, "returned")
    /\ UNCHANGED <<next_id_, list_, id, timer, expired, result, notifying,
                   waiter, replies, replied, alive>>

create(k) == generate(k) \/ Emplace(k) \/ set_timeout(k) \/ GetFuture(k)

-----------------------------------------------------------------------------
(* Completion of a call.                                                   *)

\* Fault: waiters are not notified.
SetSilently(k, value) ==
    /\ result' = IF result[k] = Unset THEN [result EXCEPT ![k] = value] ELSE result
    /\ UNCHANGED notifying

\* CallFutureImpl::set(): the first result is kept, then waiters are notified.
SetFuture(k, value) ==
    IF result[k] # Unset
    THEN UNCHANGED <<result, notifying>>
    ELSE /\ result' = [result EXCEPT ![k] = value]
         /\ notifying' = [notifying EXCEPT ![k] = TRUE]

\* The destruction of call k cancels its timer, unless that expired already.
TimersWithout(k) ==
    [timer EXCEPT ![k] = IF @ = "armed" THEN "off" ELSE @]

\* Fault: the call is not erased.
CompleteOnly(i, value) == SetFuture(list_[i], value) /\ UNCHANGED list_

\* Fault: moreover, the result is assigned without looking at the first one.
Overwrite(i, value) ==
    /\ result' = [result EXCEPT ![list_[i]] = value]
    /\ notifying' = [notifying EXCEPT ![list_[i]] = TRUE]
    /\ UNCHANGED list_

\* Set the result of the call registered for ID i, and erase it.
Complete(i, value) ==
    /\ SetFuture(list_[i], value)
    /\ list_' = [list_ EXCEPT ![i] = None]

IsPending(i) == alive /\ list_[i] # None

\* A response to call k arrives: a response with an unknown ID is ignored.
handle(k) ==
    /\ replies[k] > 0
    /\ replies' = [replies EXCEPT ![k] = @ - 1]
    /\ IF IsPending(id[k])
       THEN Complete(id[k], k) /\ timer' = TimersWithout(list_[id[k]])
       ELSE UNCHANGED <<result, notifying, timer, list_>>
    /\ UNCHANGED <<next_id_, pc, id, expired, waiter, replied, alive>>

\* The handler of the timer of call k runs.  It knows only the ID.
on_timeout(k) ==
    /\ timer[k] = "queued"
    /\ IF IsPending(id[k])
       THEN /\ Complete(id[k], Timeout)
            /\ timer' = [TimersWithout(list_[id[k]]) EXCEPT ![k] = "off"]
       ELSE /\ timer' = [timer EXCEPT ![k] = "off"]
            /\ UNCHANGED <<result, notifying, list_>>
    /\ UNCHANGED <<next_id_, pc, id, expired, waiter, replies, replied, alive>>

notify_all(k) ==
    /\ notifying[k]
    /\ notifying' = [notifying EXCEPT ![k] = FALSE]
    /\ waiter' = [waiter EXCEPT ![k] =
                    IF @ = "sleeping" THEN "checking" ELSE @]
    /\ UNCHANGED <<next_id_, list_, pc, id, timer, expired, result, replies,
                   replied, alive>>

-----------------------------------------------------------------------------
(* get_result() and get_result_within().                                   *)

get_result(k) ==
    /\ pc[k] = "returned"
    /\ waiter[k] = "none"
    /\ waiter' = [waiter EXCEPT ![k] = "checking"]
    /\ UNCHANGED <<next_id_, list_, pc, id, timer, expired, result, notifying,
                   replies, replied, alive>>

\* Fault: a thread that wakes up at the deadline waits again.
WaitAgain(k) ==
    /\ waiter[k] = "checking"
    /\ waiter' = [waiter EXCEPT ![k] =
            IF result[k] # Unset THEN "none" ELSE "sleeping"]
    /\ UNCHANGED <<next_id_, list_, pc, id, timer, expired, result, notifying,
                   replies, replied, alive>>

\* wait_until_impl(): under the mutex of the future the thread returns if the
\* result is set or the deadline has passed, and otherwise sleeps.
wait_until_impl(k) ==
    /\ waiter[k] = "checking"
    /\ waiter' = [waiter EXCEPT ![k] =
            IF result[k] # Unset \/ expired[k] THEN "none" ELSE "sleeping"]
    /\ UNCHANGED <<next_id_, list_, pc, id, timer, expired, result, notifying,
                   replies, replied, alive>>

\* A sleeping thread wakes up at the deadline of the call.
WakeAtDeadline(k) ==
    /\ waiter[k] = "sleeping"
    /\ expired[k]
    /\ waiter' = [waiter EXCEPT ![k] = "checking"]
    /\ UNCHANGED <<next_id_, list_, pc, id, timer, expired, result, notifying,
                   replies, replied, alive>>

\* The earlier deadline of get_result_within() passes: the thread leaves.
GiveUpWithin(k) ==
    /\ waiter[k] = "sleeping"
    /\ waiter' = [waiter EXCEPT ![k] = "none"]
    /\ UNCHANGED <<next_id_, list_, pc, id, timer, expired, result, notifying,
                   replies, replied, alive>>

-----------------------------------------------------------------------------
(* The clock, the server and the end of the client.                        *)

DeadlinePasses(k) ==
    /\ pc[k] # "none"
    /\ ~expired[k]
    /\ expired' = [expired EXCEPT ![k] = TRUE]
    /\ UNCHANGED <<next_id_, list_, pc, id, timer, result, notifying, waiter,
                   replies, replied, alive>>

TimerExpires(k) ==
    /\ timer[k] = "armed"
    /\ expired[k]
    /\ timer' = [timer EXCEPT ![k] = "queued"]
    /\ UNCHANGED <<next_id_, list_, pc, id, expired, result, notifying, waiter,
                   replies, replied, alive>>

\* The server answers a request, once for each time it received it.
ServerReplies(k) ==
    /\ pc[k] = "returned"
    /\ replied[k] < MaxReplies
    /\ replies' = [replies EXCEPT ![k] = @ + 1]
    /\ replied' = [replied EXCEPT ![k] = @ + 1]
    /\ UNCHANGED <<next_id_, list_, pc, id, timer, expired, result, notifying,
                   waiter, alive>>

\* ClientImpl::stop() drops the list, and with it the calls and their timers.
\* Calls of stop() and async_call() at the same time are left out.
Destroy ==
    /\ alive
    /\ \A k \in Calls : pc[k] \in {"none", "returned", "threw"}
    /\ alive' = FALSE
    /\ list_' = [i \in Ids |-> None]
    /\ timer' = [k \in Calls |-> IF timer[k] = "armed" THEN "off" ELSE timer[k]]
    /\ UNCHANGED <<next_id_, pc, id, expired, result, notifying, waiter,
                   replies, replied>>

-----------------------------------------------------------------------------

Wait(k) == wait_until_impl(k) \/ WakeAtDeadline(k)

Next ==
    \/ \E k \in Calls :
        \/ create(k) \/ Send(k)
        \/ handle(k) \/ on_timeout(k) \/ notify_all(k)
        \/ get_result(k) \/ Wait(k) \/ GiveUpWithin(k)
        \/ DeadlinePasses(k) \/ TimerExpires(k) \/ ServerReplies(k)
    \/ Destroy

\* Threads keep running and time passes; the server owes nothing.
Fairness ==
    \A k \in Calls :
        /\ WF_vars(Emplace(k) \/ set_timeout(k) \/ GetFuture(k) \/ Send(k))
        /\ WF_vars(DeadlinePasses(k))
        /\ WF_vars(TimerExpires(k))
        /\ WF_vars(on_timeout(k))
        /\ WF_vars(Wait(k))

Spec == Init /\ [][Next]_vars /\ Fairness

-----------------------------------------------------------------------------
(* Properties.                                                             *)

\* The list holds exactly the calls that can still be completed: a call in the
\* list has no result, and one that has a result was erased, so that neither a
\* late response nor a late timeout finds it.
ListHoldsOpenCalls ==
    /\ \A i \in Ids : list_[i] # None => result[list_[i]] = Unset
    /\ \A k \in Calls :
        alive /\ pc[k] \in {"set_timeout", "future", "send", "returned"}
            /\ result[k] = Unset => list_[id[k]] = k

\* As long as no ID is used again, a future gets the response to its own request
\* or a timeout, however late or often responses arrive.
ResultIsOwn == \A k \in Calls : result[k] \in {Unset, Timeout, k}

\* A result never changes once it was set (CallFutureImpl::set()).
ResultIsFinal ==
    [][\A k \in Calls : result[k] # Unset => result'[k] = result[k]]_vars

\* No lost wake-up: a thread does not sleep on a future that holds a result,
\* unless the notification is on its way.
SleepersAreNotified ==
    \A k \in Calls :
        waiter[k] = "sleeping" /\ result[k] # Unset => notifying[k]

\* When the timer is started through the reference, the call is in the list.
\* One step later, when create() reads the future, it need not be: the timer may
\* have expired.
ReferenceIsValidAtStart ==
    \A k \in Calls : pc[k] = "set_timeout" => list_[id[k]] = k

\* Every call gets a result, as long as the client is not stopped.
EveryCallCompletes ==
    \A k \in Calls : pc[k] = "returned" ~> result[k] # Unset \/ ~alive

\* get_result() always returns, even if the client is stopped meanwhile.
GetResultReturns == \A k \in Calls : waiter[k] # "none" ~> waiter[k] = "none"
=============================================================================
