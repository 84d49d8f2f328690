---------------------------- MODULE CallListProofs ----------------------------
(***************************************************************************)
(* Proofs about module CallList, for any number of calls, of IDs and of    *)
(* responses.                                                              *)
(***************************************************************************)
EXTENDS CallList, TLAPS

\* Positions of create() at which the call is in the list.
Listed == {"set_timeout", "future", "send", "returned"}

\* A call in the list is registered under its ID and has no result.
ListedCalls ==
    \A i \in Ids :
        list_[i] # None =>
            /\ id[list_[i]] = i
            /\ pc[list_[i]] \in Listed
            /\ result[list_[i]] = Unset

\* A call gets no result before it is in the list, and create() runs only as
\* long as the list exists.
EarlyCalls ==
    \A k \in Calls :
        /\ pc[k] \in {"none", "emplace", "threw"} => result[k] = Unset
        /\ pc[k] \in {"emplace", "set_timeout", "future", "send"} => alive

\* A call without a result is in the list.
OpenCalls ==
    \A k \in Calls :
        alive /\ pc[k] \in Listed /\ result[k] = Unset => list_[id[k]] = k

\* Responses and timers belong to calls that have got far enough.
StartedCalls ==
    \A k \in Calls :
        /\ replies[k] =< replied[k]
        /\ replied[k] > 0 => pc[k] = "returned"
        /\ timer[k] # "off" => pc[k] \in {"future", "send", "returned"}

\* The inductive invariant.
IInv ==
    /\ TypeOK
    /\ StartedCalls
    /\ ListedCalls
    /\ EarlyCalls
    /\ OpenCalls
    /\ ~alive => \A i \in Ids : list_[i] = None

-----------------------------------------------------------------------------
(* Facts about the constants.                                              *)

\* IDs wrap around.
LEMMA NextId ==
    ASSUME NEW n \in Ids
    PROVE  (n + 1) % IdSpace = IF n + 1 = IdSpace THEN 0 ELSE n + 1
BY IdSpaceAssumption DEF Ids

\* A result is a call or the timeout, and neither is Unset.
LEMMA Values ==
    /\ Unset \notin Calls /\ Timeout # Unset /\ None \notin Calls
    /\ Timeout \notin Calls
BY CallsAssumption DEF Calls, Unset, Timeout, None

-----------------------------------------------------------------------------
(* Each action preserves the invariant.                                    *)

\* The invariant holds initially.
LEMMA InitIInv == Init => IInv
<1> SUFFICES ASSUME Init PROVE IInv
    OBVIOUS
<1>1. TypeOK
    BY IdSpaceAssumption, CallsAssumption DEF Init, TypeOK, Ids, Calls, None,
       Unset, Timeout
<1>2. StartedCalls
    BY DEF Init, StartedCalls
<1>3. QED
    BY <1>1, <1>2 DEF Init, IInv, ListedCalls, EarlyCalls, OpenCalls, Listed

\* create(), the generation of an ID.
LEMMA GenerateStep == ASSUME IInv, NEW k \in Calls, generate(k) PROVE IInv'
<1>1. TypeOK'
    <2>1. (next_id_ + 1) % IdSpace \in Ids
        BY NextId, IdSpaceAssumption DEF IInv, TypeOK, Ids
    <2>2. QED
        BY <2>1 DEF IInv, TypeOK, generate, Goto
<1>2. ListedCalls' /\ EarlyCalls' /\ OpenCalls'
    BY DEF IInv, TypeOK, generate, Goto, ListedCalls, EarlyCalls, OpenCalls,
       Listed
<1>3. StartedCalls'
    BY CallsAssumption DEF IInv, TypeOK, generate, Goto, StartedCalls
<1>4. QED
    BY <1>1, <1>2, <1>3 DEF IInv, generate

\* create(), the registration of the call.
LEMMA EmplaceStep == ASSUME IInv, NEW k \in Calls, Emplace(k) PROVE IInv'
<1>1. TypeOK'
    BY DEF IInv, TypeOK, Emplace, Goto
<1>2. ListedCalls'
    BY Values DEF IInv, TypeOK, Emplace, Goto, ListedCalls, EarlyCalls, Listed
<1>3. EarlyCalls' /\ OpenCalls'
    BY Values DEF IInv, TypeOK, Emplace, Goto, ListedCalls, EarlyCalls,
       OpenCalls, Listed
<1>4. StartedCalls'
    BY CallsAssumption DEF IInv, TypeOK, Emplace, Goto, StartedCalls
<1>5. QED
    BY <1>1, <1>2, <1>3, <1>4 DEF IInv, Emplace, EarlyCalls

\* The rest of create(), and async_call().
LEMMA CreateStep ==
    ASSUME IInv, NEW k \in Calls, set_timeout(k) \/ GetFuture(k) \/ Send(k)
    PROVE  IInv'
<1>1. TypeOK'
    BY DEF IInv, TypeOK, set_timeout, GetFuture, Send, Goto
<1>2. ListedCalls' /\ EarlyCalls' /\ OpenCalls'
    BY DEF IInv, TypeOK, set_timeout, GetFuture, Send, Goto, ListedCalls,
       EarlyCalls, OpenCalls, Listed
<1>3. StartedCalls'
    BY CallsAssumption DEF IInv, TypeOK, set_timeout, GetFuture, Send, Goto,
       StartedCalls
<1>4. QED
    BY <1>1, <1>2, <1>3 DEF IInv, set_timeout, GetFuture, Send

\* A result is set, and the call is erased.
LEMMA CompleteStep ==
    ASSUME IInv, NEW i \in Ids, NEW value \in Calls \cup {Timeout},
           list_[i] # None, Complete(i, value),
           UNCHANGED <<pc, id, alive>>
    PROVE  /\ result' \in [Calls -> Calls \cup {Unset, Timeout}]
           /\ notifying' \in [Calls -> BOOLEAN]
           /\ list_' \in [Ids -> Calls \cup {None}]
           /\ ListedCalls' /\ EarlyCalls' /\ OpenCalls'
           /\ alive' /\ list_[i] \in Calls
<1> DEFINE c == list_[i]
<1>1. c \in Calls /\ result[c] = Unset /\ id[c] = i /\ pc[c] \in Listed
    BY DEF IInv, TypeOK, ListedCalls
<1>2. /\ result' = [result EXCEPT ![c] = value]
      /\ notifying' = [notifying EXCEPT ![c] = TRUE]
      /\ list_' = [list_ EXCEPT ![i] = None]
    BY <1>1 DEF Complete, SetFuture
<1>3. /\ result' \in [Calls -> Calls \cup {Unset, Timeout}]
      /\ notifying' \in [Calls -> BOOLEAN]
      /\ list_' \in [Ids -> Calls \cup {None}]
    BY <1>1, <1>2 DEF IInv, TypeOK
<1>4. ListedCalls'
    BY <1>1, <1>2, <1>3 DEF IInv, TypeOK, ListedCalls
<1>5. EarlyCalls'
    BY <1>1, <1>2, <1>3 DEF IInv, TypeOK, EarlyCalls, Listed
<1>6. OpenCalls'
    <2> SUFFICES ASSUME NEW k \in Calls, alive, pc[k] \in Listed,
                        result'[k] = Unset
                 PROVE  list_'[id[k]] = k
        BY DEF OpenCalls
    <2>1. k # c
        BY <1>1, <1>2, Values DEF IInv, TypeOK
    <2>2. result[k] = Unset /\ list_[id[k]] = k
        BY <2>1, <1>1, <1>2 DEF IInv, TypeOK, OpenCalls
    <2>3. id[k] # i
        BY <2>1, <2>2
    <2>4. QED
        BY <2>2, <2>3, <1>2 DEF IInv, TypeOK
<1>7. alive'
    BY DEF IInv
<1>8. QED
    BY <1>1, <1>3, <1>4, <1>5, <1>6, <1>7

\* The timers after a call was erased: none is started.
LEMMA TimersType ==
    ASSUME TypeOK, NEW c \in Calls
    PROVE  /\ TimersWithout(c) \in [Calls -> {"off", "armed", "queued"}]
           /\ \A j \in Calls : TimersWithout(c)[j] # "off" => timer[j] # "off"
BY DEF TypeOK, TimersWithout

\* A response arrives.
LEMMA HandleStep == ASSUME IInv, NEW k \in Calls, handle(k) PROVE IInv'
<1>1. /\ id[k] \in Ids
      /\ replies' \in [Calls -> 0..MaxReplies]
      /\ \A j \in Calls : replies'[j] =< replies[j]
    BY CallsAssumption DEF IInv, TypeOK, handle
<1>2. CASE IsPending(id[k])
    <2>1. /\ Complete(id[k], k) /\ timer' = TimersWithout(list_[id[k]])
          /\ UNCHANGED <<next_id_, pc, id, expired, waiter, replied, alive>>
        BY <1>2 DEF handle
    <2>2. /\ result' \in [Calls -> Calls \cup {Unset, Timeout}]
          /\ notifying' \in [Calls -> BOOLEAN]
          /\ list_' \in [Ids -> Calls \cup {None}]
          /\ ListedCalls' /\ EarlyCalls' /\ OpenCalls'
          /\ alive' /\ list_[id[k]] \in Calls
        BY <2>1, <1>1, <1>2, CompleteStep DEF IsPending
    <2>3. TypeOK'
        BY <2>1, <2>2, <1>1, TimersType DEF IInv, TypeOK
    <2>4. \A j \in Calls : timer'[j] # "off" => timer[j] # "off"
        BY <2>1, <2>2, TimersType DEF IInv
    <2>5. StartedCalls'
        BY <2>1, <2>4, <1>1, CallsAssumption DEF IInv, TypeOK, StartedCalls
    <2>6. QED
        BY <2>2, <2>3, <2>5 DEF IInv
<1>3. CASE ~IsPending(id[k])
    <2>1. UNCHANGED <<next_id_, pc, id, expired, waiter, replied, alive, result,
                      notifying, timer, list_>>
        BY <1>3 DEF handle
    <2>2. StartedCalls'
        BY <2>1, <1>1, CallsAssumption DEF IInv, TypeOK, StartedCalls
    <2>3. QED
        BY <2>1, <2>2, <1>1 DEF IInv, TypeOK, ListedCalls, EarlyCalls, OpenCalls
<1>4. QED
    BY <1>2, <1>3

\* A timer fires.
LEMMA TimeoutStep == ASSUME IInv, NEW k \in Calls, on_timeout(k) PROVE IInv'
<1>1. id[k] \in Ids
    BY DEF IInv, TypeOK
<1>2. CASE IsPending(id[k])
    <2>1. /\ Complete(id[k], Timeout)
          /\ timer' = [TimersWithout(list_[id[k]]) EXCEPT ![k] = "off"]
          /\ UNCHANGED <<next_id_, pc, id, expired, waiter, replies, replied, alive>>
        BY <1>2 DEF on_timeout
    <2>2. /\ result' \in [Calls -> Calls \cup {Unset, Timeout}]
          /\ notifying' \in [Calls -> BOOLEAN]
          /\ list_' \in [Ids -> Calls \cup {None}]
          /\ ListedCalls' /\ EarlyCalls' /\ OpenCalls'
          /\ alive' /\ list_[id[k]] \in Calls
        BY <2>1, <1>1, <1>2, CompleteStep DEF IsPending
    <2>3. /\ timer' \in [Calls -> {"off", "armed", "queued"}]
          /\ \A j \in Calls : timer'[j] # "off" => timer[j] # "off"
        <3> DEFINE t == TimersWithout(list_[id[k]])
        <3>1. /\ t \in [Calls -> {"off", "armed", "queued"}]
              /\ \A j \in Calls : t[j] # "off" => timer[j] # "off"
            BY <2>2, TimersType DEF IInv
        <3> HIDE DEF t
        <3>2. timer' = [t EXCEPT ![k] = "off"]
            BY <2>1 DEF t
        <3>3. QED
            BY <3>1, <3>2
    <2>4. TypeOK'
        BY <2>1, <2>2, <2>3 DEF IInv, TypeOK
    <2>5. StartedCalls'
        BY <2>1, <2>3 DEF IInv, StartedCalls
    <2>6. QED
        BY <2>2, <2>4, <2>5 DEF IInv
<1>3. CASE ~IsPending(id[k])
    <2>1. /\ UNCHANGED <<next_id_, pc, id, expired, waiter, replies, replied,
                         alive, result, notifying, list_>>
          /\ timer' = [timer EXCEPT ![k] = "off"]
        BY <1>3 DEF on_timeout
    <2>2. StartedCalls'
        BY <2>1 DEF IInv, TypeOK, StartedCalls
    <2>3. QED
        BY <2>1, <2>2 DEF IInv, TypeOK, ListedCalls, EarlyCalls, OpenCalls
<1>4. QED
    BY <1>2, <1>3

\* The steps that touch neither the list, nor a result, nor create().
LEMMA OtherStep ==
    ASSUME IInv, NEW k \in Calls,
           \/ notify_all(k) \/ get_result(k) \/ Wait(k) \/ GiveUpWithin(k)
           \/ DeadlinePasses(k) \/ TimerExpires(k) \/ ServerReplies(k)
    PROVE  IInv'
<1>1. UNCHANGED <<next_id_, list_, pc, id, result, alive>>
    BY DEF notify_all, get_result, Wait, wait_until_impl, WakeAtDeadline,
       GiveUpWithin, DeadlinePasses, TimerExpires, ServerReplies
<1>2. TypeOK'
    <2>1. CASE notify_all(k)
        BY <2>1 DEF IInv, TypeOK, notify_all
    <2>2. CASE get_result(k) \/ Wait(k) \/ GiveUpWithin(k)
        BY <2>2 DEF IInv, TypeOK, get_result, Wait, wait_until_impl,
           WakeAtDeadline, GiveUpWithin
    <2>3. CASE DeadlinePasses(k) \/ TimerExpires(k)
        BY <2>3 DEF IInv, TypeOK, DeadlinePasses, TimerExpires
    <2>4. CASE ServerReplies(k)
        <3>1. replied[k] + 1 \in 0..MaxReplies
            BY <2>4, CallsAssumption DEF IInv, TypeOK, ServerReplies
        <3>2. replies[k] + 1 \in 0..MaxReplies
            BY <2>4, CallsAssumption DEF IInv, TypeOK, ServerReplies, StartedCalls
        <3>3. QED
            BY <3>1, <3>2, <2>4 DEF IInv, TypeOK, ServerReplies
    <2>5. QED
        BY <2>1, <2>2, <2>3, <2>4
<1>3. StartedCalls'
    <2>1. CASE UNCHANGED <<replies, replied, timer>>
        BY <2>1, <1>1 DEF IInv, StartedCalls
    <2>2. CASE TimerExpires(k)
        BY <2>2 DEF IInv, TypeOK, StartedCalls, TimerExpires
    <2>3. CASE ServerReplies(k)
        BY <2>3, CallsAssumption DEF IInv, TypeOK, StartedCalls, ServerReplies
    <2>4. QED
        BY <2>1, <2>2, <2>3 DEF notify_all, get_result, Wait, wait_until_impl,
           WakeAtDeadline, GiveUpWithin, DeadlinePasses
<1>4. QED
    BY <1>1, <1>2, <1>3 DEF IInv, ListedCalls, EarlyCalls, OpenCalls

\* The list is destroyed.
LEMMA DestroyStep == IInv /\ Destroy => IInv'
<1> SUFFICES ASSUME IInv, Destroy PROVE IInv'
    OBVIOUS
<1>1. TypeOK'
    BY DEF IInv, TypeOK, Destroy
<1>2. ListedCalls' /\ OpenCalls' /\ ~alive' /\ \A i \in Ids : list_'[i] = None
    BY DEF Destroy, ListedCalls, OpenCalls
<1>3. EarlyCalls'
    BY DEF IInv, Destroy, EarlyCalls
<1>4. StartedCalls'
    BY DEF IInv, TypeOK, Destroy, StartedCalls
<1>5. QED
    BY <1>1, <1>2, <1>3, <1>4 DEF IInv

\* Every step preserves the invariant.
LEMMA NextIInv == IInv /\ [Next]_vars => IInv'
<1> SUFFICES ASSUME IInv, [Next]_vars PROVE IInv'
    OBVIOUS
<1>1. CASE Destroy
    BY <1>1, DestroyStep
<1>2. ASSUME NEW k \in Calls, create(k) \/ Send(k) PROVE IInv'
    BY <1>2, GenerateStep, EmplaceStep, CreateStep DEF create
<1>3. ASSUME NEW k \in Calls, handle(k) \/ on_timeout(k) PROVE IInv'
    BY <1>3, HandleStep, TimeoutStep
<1>4. ASSUME NEW k \in Calls,
             \/ notify_all(k) \/ get_result(k) \/ Wait(k) \/ GiveUpWithin(k)
             \/ DeadlinePasses(k) \/ TimerExpires(k) \/ ServerReplies(k)
      PROVE  IInv'
    BY <1>4, OtherStep
<1>5. CASE UNCHANGED vars
    BY <1>5 DEF vars, IInv, TypeOK, ListedCalls, EarlyCalls, OpenCalls,
       StartedCalls
<1>6. QED
    BY <1>1, <1>2, <1>3, <1>4, <1>5 DEF Next

\* The invariant holds for ever.
LEMMA SpecIInv == Spec => []IInv
BY InitIInv, NextIInv, PTL DEF Spec

-----------------------------------------------------------------------------
(* Theorems for any number of IDs.                                         *)

\* Every variable keeps its type.
THEOREM CallTypes == Spec => []TypeOK
<1>1. IInv => TypeOK
    BY DEF IInv
<1>2. QED
    BY <1>1, SpecIInv, PTL

\* The list holds exactly the calls that can still be completed, even if IDs
\* are used again: create() refuses an ID that is in the list.
THEOREM OpenCallsAreListed == Spec => []ListHoldsOpenCalls
<1>1. IInv => ListHoldsOpenCalls
    BY DEF IInv, ListHoldsOpenCalls, ListedCalls, OpenCalls, Listed
<1>2. QED
    BY <1>1, SpecIInv, PTL

\* The result of a call never changes once it was set.
THEOREM FinalResult == Spec => ResultIsFinal
<1> DEFINE Final == \A k \in Calls : result[k] # Unset => result'[k] = result[k]
<1>1. IInv /\ [Next]_vars => [Final]_vars
    <2> SUFFICES ASSUME IInv, Next PROVE Final
        OBVIOUS
    <2>1. CASE UNCHANGED result
        BY <2>1
    <2>2. ASSUME NEW i \in Ids, NEW value, Complete(i, value) PROVE Final
        BY <2>2 DEF IInv, TypeOK, Complete, SetFuture
    <2>3. \A k \in Calls : id[k] \in Ids
        BY DEF IInv, TypeOK
    <2>4. ASSUME NEW k \in Calls, handle(k) \/ on_timeout(k) PROVE Final
        BY <2>1, <2>2, <2>3, <2>4 DEF handle, on_timeout
    <2>5. QED
        BY <2>1, <2>4 DEF Next, create, generate, Emplace, set_timeout,
           GetFuture, Send, notify_all, get_result, Wait, wait_until_impl,
           WakeAtDeadline, GiveUpWithin, DeadlinePasses, TimerExpires,
           ServerReplies, Destroy
<1>2. QED
    BY <1>1, SpecIInv, PTL DEF Spec, ResultIsFinal

\* A thread that waits for a result never sleeps through it.
THEOREM NoLostWakeUp == Spec => []SleepersAreNotified
<1>1. Init => SleepersAreNotified
    BY DEF Init, SleepersAreNotified
<1>2. IInv /\ SleepersAreNotified /\ [Next]_vars => SleepersAreNotified'
    <2> SUFFICES ASSUME IInv, SleepersAreNotified, [Next]_vars
                 PROVE  SleepersAreNotified'
        OBVIOUS
    <2>1. CASE UNCHANGED <<result, notifying, waiter>>
        BY <2>1 DEF SleepersAreNotified
    <2>2. ASSUME NEW i \in Ids, NEW value, Complete(i, value), UNCHANGED waiter
          PROVE  SleepersAreNotified'
        BY <2>2 DEF IInv, TypeOK, Complete, SetFuture, SleepersAreNotified
    <2>3. \A k \in Calls : id[k] \in Ids
        BY DEF IInv, TypeOK
    <2>4. ASSUME NEW k \in Calls, handle(k) \/ on_timeout(k)
          PROVE  SleepersAreNotified'
        BY <2>1, <2>2, <2>3, <2>4 DEF handle, on_timeout
    <2>5. ASSUME NEW k \in Calls, notify_all(k) PROVE SleepersAreNotified'
        BY <2>5 DEF IInv, TypeOK, notify_all, SleepersAreNotified
    <2>6. ASSUME NEW k \in Calls, get_result(k) \/ Wait(k) \/ GiveUpWithin(k)
          PROVE  SleepersAreNotified'
        BY <2>6 DEF IInv, TypeOK, get_result, Wait, wait_until_impl,
           WakeAtDeadline, GiveUpWithin, SleepersAreNotified
    <2>7. QED
        BY <2>1, <2>4, <2>5, <2>6 DEF Next, vars, create, generate, Emplace,
           set_timeout, GetFuture, Send, DeadlinePasses, TimerExpires,
           ServerReplies, Destroy
<1>3. QED
    BY <1>1, <1>2, SpecIInv, PTL DEF Spec

-----------------------------------------------------------------------------
(* Theorems that need as many IDs as calls: then no ID is used twice.      *)

EnoughIds == IdSpace >= MaxCalls

\* n is the ID that is d steps after m, around the end of the IDs.
Follows(n, m, d) == n = m + d \/ n = m + d - IdSpace

\* Calls are created one after the other, and their IDs follow each other.
IdsFollow ==
    /\ \A j, k \in Calls : j < k /\ pc[k] # "none" => pc[j] # "none"
    /\ \A j, k \in Calls :
            j < k /\ pc[k] # "none" => Follows(id[k], id[j], k - j)
    /\ \A j, k \in Calls :
            /\ j < k /\ pc[j] # "none" /\ pc[k] = "none"
            /\ \A m \in Calls : m < k => pc[m] # "none"
            => Follows(next_id_, id[j], k - j)

\* A call whose timer was not started has no result.
NoEarlyResult ==
    \A k \in Calls : pc[k] = "set_timeout" => result[k] = Unset

\* The inductive invariant with enough IDs.
OwnInv == IInv /\ IdsFollow /\ NoEarlyResult /\ ResultIsOwn

\* Two calls that were created have different IDs.
LEMMA DistinctIds ==
    ASSUME EnoughIds, IInv, IdsFollow, NEW j \in Calls, NEW k \in Calls,
           pc[j] # "none", pc[k] # "none", id[j] = id[k]
    PROVE  j = k
<1>1. ASSUME NEW a \in Calls, NEW b \in Calls, a < b, pc[b] # "none",
             id[a] = id[b]
      PROVE  FALSE
    <2>1. Follows(id[b], id[a], b - a)
        BY <1>1 DEF IdsFollow
    <2>2. id[a] \in Nat /\ b - a > 0 /\ b - a < IdSpace
        BY <1>1, IdSpaceAssumption, CallsAssumption
        DEF IInv, TypeOK, Ids, Calls, EnoughIds
    <2>3. QED
        BY <2>1, <2>2, <1>1, IdSpaceAssumption DEF Follows, Calls
<1>2. QED
    BY <1>1, CallsAssumption DEF Calls

\* The next ID follows the last one.
LEMMA FollowsOn ==
    ASSUME NEW n \in Ids, NEW m \in Ids, NEW d \in Nat, d < IdSpace,
           Follows(n, m, d)
    PROVE  Follows((n + 1) % IdSpace, m, d + 1)
<1>1. (n + 1) % IdSpace = IF n + 1 = IdSpace THEN 0 ELSE n + 1
    BY NextId
<1>2. QED
    BY <1>1, IdSpaceAssumption DEF Follows, Ids

\* The generation of an ID.
LEMMA GenerateFollows ==
    ASSUME EnoughIds, OwnInv, NEW c \in Calls, generate(c)
    PROVE  IdsFollow'
<1>1. /\ pc' = [pc EXCEPT ![c] = "emplace"] /\ pc[c] = "none"
      /\ id' = [id EXCEPT ![c] = next_id_]
      /\ next_id_' = (next_id_ + 1) % IdSpace
      /\ \A j \in Calls : j < c => pc[j] # "none"
    BY DEF generate, Goto
<1>2. /\ pc'[c] = "emplace" /\ id'[c] = next_id_
      /\ \A j \in Calls : j # c => pc'[j] = pc[j] /\ id'[j] = id[j]
    BY <1>1 DEF OwnInv, IInv, TypeOK
<1>3. \A j \in Calls : j > c => pc[j] = "none"
    BY <1>1 DEF OwnInv, IdsFollow
<1>4. \A j, k \in Calls : j < k /\ pc'[k] # "none" => pc'[j] # "none"
    <2> SUFFICES ASSUME NEW j \in Calls, NEW k \in Calls, j < k, pc'[k] # "none"
                 PROVE  pc'[j] # "none"
        OBVIOUS
    <2>1. k =< c
        BY <1>2, <1>3 DEF Calls
    <2>2. QED
        BY <2>1, <1>1, <1>2 DEF Calls
<1>5. \A j \in Calls : j < c => Follows(next_id_, id[j], c - j)
    BY <1>1 DEF OwnInv, IdsFollow
<1>6. \A j, k \in Calls :
        j < k /\ pc'[k] # "none" => Follows(id'[k], id'[j], k - j)
    <2> SUFFICES ASSUME NEW j \in Calls, NEW k \in Calls, j < k, pc'[k] # "none"
                 PROVE  Follows(id'[k], id'[j], k - j)
        OBVIOUS
    <2>1. CASE k = c
        BY <2>1, <1>2, <1>5 DEF Calls
    <2>2. CASE k # c
        <3>1. pc[k] # "none" /\ k < c
            BY <2>2, <1>2, <1>3 DEF Calls
        <3>2. j # c
            BY <3>1 DEF Calls
        <3>3. Follows(id[k], id[j], k - j)
            BY <3>1 DEF OwnInv, IdsFollow
        <3>4. QED
            BY <3>2, <3>3, <2>2, <1>2
    <2>3. QED
        BY <2>1, <2>2
<1>7. ASSUME NEW j \in Calls, NEW k \in Calls,
             j < k, pc'[j] # "none", pc'[k] = "none",
             \A m \in Calls : m < k => pc'[m] # "none"
      PROVE  Follows(next_id_', id'[j], k - j)
    <2>1. k = c + 1
        <3>1. k > c
            BY <1>7, <1>1, <1>2 DEF Calls
        <3>2. ASSUME k > c + 1 PROVE FALSE
            <4>1. c + 1 \in Calls /\ c + 1 < k /\ c + 1 > c /\ c + 1 # c
                BY <3>2, CallsAssumption DEF Calls
            <4>2. QED
                BY <4>1, <1>2, <1>3, <1>7
        <3>3. QED
            BY <3>1, <3>2 DEF Calls
    <2>2. next_id_ \in Ids /\ id[j] \in Ids
        BY DEF OwnInv, IInv, TypeOK
    <2>3. CASE j = c
        <3>1. Follows(next_id_, next_id_, 0)
            BY <2>2, IdSpaceAssumption DEF Follows, Ids
        <3>2. Follows(next_id_', next_id_, 0 + 1)
            BY <3>1, <2>2, <1>1, FollowsOn, IdSpaceAssumption
        <3>3. k - j = 0 + 1
            BY <2>1, <2>3 DEF Calls
        <3>4. QED
            BY <3>2, <3>3, <2>3, <1>2
    <2>4. CASE j # c
        <3>1. j < c /\ c - j \in Nat /\ c - j < IdSpace /\ k - j = (c - j) + 1
            BY <2>1, <2>4, <1>7, CallsAssumption, IdSpaceAssumption
            DEF Calls, EnoughIds
        <3>2. Follows(next_id_, id[j], c - j)
            BY <3>1, <1>5
        <3>3. Follows(next_id_', id[j], (c - j) + 1)
            BY <3>1, <3>2, <2>2, <1>1, FollowsOn
        <3>4. QED
            BY <3>1, <3>3, <2>4, <1>2
    <2>5. QED
        BY <2>3, <2>4
<1>8. QED
    BY <1>4, <1>6, <1>7 DEF IdsFollow

\* Other steps leave the IDs alone.
LEMMA IdsKept ==
    ASSUME IdsFollow, UNCHANGED <<id, next_id_>>,
           \A k \in Calls : pc'[k] = "none" <=> pc[k] = "none"
    PROVE  IdsFollow'
BY DEF IdsFollow, Follows

\* A call is completed by its own response or by its own timer.
LEMMA CompletesOwn ==
    ASSUME EnoughIds, OwnInv, NEW k \in Calls, handle(k) \/ on_timeout(k)
    PROVE  NoEarlyResult' /\ ResultIsOwn' /\ IdsFollow'
<1>1. id[k] \in Ids /\ pc[k] \in {"future", "send", "returned"}
    BY CallsAssumption
    DEF OwnInv, IInv, TypeOK, StartedCalls, handle, on_timeout
<1>2. UNCHANGED <<pc, id, next_id_>>
    BY DEF handle, on_timeout
<1>3. IdsFollow'
    BY <1>2, IdsKept DEF OwnInv
<1>4. CASE UNCHANGED result
    BY <1>2, <1>3, <1>4 DEF OwnInv, NoEarlyResult, ResultIsOwn
<1>5. CASE ~UNCHANGED result
    <2>1. IsPending(id[k])
        BY <1>5 DEF handle, on_timeout
    <2>2. list_[id[k]] \in Calls /\ id[list_[id[k]]] = id[k]
          /\ pc[list_[id[k]]] \in Listed
        BY <2>1, <1>1 DEF OwnInv, IInv, TypeOK, ListedCalls, IsPending
    <2>3. list_[id[k]] = k
        BY <2>2, <1>1, DistinctIds DEF OwnInv, Listed
    <2>4. \E value \in {k, Timeout} : result' = [result EXCEPT ![k] = value]
        BY <2>1, <2>3, <1>5 DEF handle, on_timeout, Complete, SetFuture
    <2>5. QED
        BY <2>4, <1>1, <1>2, <1>3 DEF OwnInv, IInv, TypeOK, NoEarlyResult,
           ResultIsOwn
<1>6. QED
    BY <1>4, <1>5

\* Every step preserves the invariant.
LEMMA NextOwn ==
    ASSUME EnoughIds, OwnInv, [Next]_vars
    PROVE  OwnInv'
<1>1. IInv'
    BY NextIInv DEF OwnInv
<1>2. ASSUME NEW k \in Calls, generate(k)
      PROVE  IdsFollow' /\ NoEarlyResult' /\ ResultIsOwn'
    <2>1. IdsFollow'
        BY <1>2, GenerateFollows
    <2>2. QED
        BY <2>1, <1>2 DEF OwnInv, IInv, TypeOK, generate, Goto, NoEarlyResult,
           ResultIsOwn
<1>3. ASSUME NEW k \in Calls,
             Emplace(k) \/ set_timeout(k) \/ GetFuture(k) \/ Send(k)
      PROVE  IdsFollow' /\ NoEarlyResult' /\ ResultIsOwn'
    <2>1. UNCHANGED <<id, next_id_, result>>
        BY <1>3 DEF Emplace, set_timeout, GetFuture, Send
    <2>2. \A j \in Calls : pc'[j] = "none" <=> pc[j] = "none"
        BY <1>3 DEF OwnInv, IInv, TypeOK, Emplace, set_timeout, GetFuture, Send,
           Goto
    <2>3. IdsFollow'
        BY <2>1, <2>2, IdsKept DEF OwnInv
    <2>4. NoEarlyResult'
        BY <1>3, <2>1 DEF OwnInv, IInv, TypeOK, EarlyCalls, NoEarlyResult,
           Emplace, set_timeout, GetFuture, Send, Goto
    <2>5. QED
        BY <2>1, <2>3, <2>4 DEF OwnInv, ResultIsOwn
<1>4. ASSUME NEW k \in Calls, handle(k) \/ on_timeout(k)
      PROVE  IdsFollow' /\ NoEarlyResult' /\ ResultIsOwn'
    BY <1>4, CompletesOwn
<1>5. CASE UNCHANGED <<pc, id, next_id_, result>>
    <2>1. IdsFollow'
        BY <1>5, IdsKept DEF OwnInv
    <2>2. QED
        BY <2>1, <1>1, <1>5 DEF OwnInv, NoEarlyResult, ResultIsOwn
<1>6. QED
    BY <1>1, <1>2, <1>3, <1>4, <1>5
    DEF OwnInv, Next, vars, create, notify_all, get_result, Wait,
        wait_until_impl, WakeAtDeadline, GiveUpWithin, DeadlinePasses,
        TimerExpires, ServerReplies, Destroy

\* The invariant holds for ever.
LEMMA SpecOwn == EnoughIds => (Spec => []OwnInv)
<1> SUFFICES ASSUME EnoughIds PROVE Spec => []OwnInv
    OBVIOUS
<1>1. Init => OwnInv
    BY InitIInv DEF Init, OwnInv, IdsFollow, NoEarlyResult, ResultIsOwn
<1>2. OwnInv /\ [Next]_vars => OwnInv'
    BY NextOwn
<1>3. QED
    BY <1>1, <1>2, PTL DEF Spec

\* A future gets the response to its own request or a timeout.
THEOREM OwnResult == EnoughIds => (Spec => []ResultIsOwn)
<1>1. OwnInv => ResultIsOwn
    BY DEF OwnInv
<1>2. QED
    BY <1>1, SpecOwn, PTL

\* The reference through which create() starts the timer is valid.
THEOREM ValidAtStart == EnoughIds => (Spec => []ReferenceIsValidAtStart)
<1>1. OwnInv => ReferenceIsValidAtStart
    BY DEF OwnInv, IInv, EarlyCalls, OpenCalls, NoEarlyResult, Listed,
       ReferenceIsValidAtStart
<1>2. QED
    BY <1>1, SpecOwn, PTL
=============================================================================
