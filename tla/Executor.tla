------------------------------- MODULE Executor -------------------------------
(***************************************************************************)
(* The executor (executors/general_executor.cpp): io_contexts, each with a *)
(* work guard and one thread that runs its handlers in order.  What the    *)
(* handlers do is left to the modules that use it.                         *)
(***************************************************************************)
EXTENDS Integers, Sequences

CONSTANTS
    MaxThreads,     \* largest number of threads of either type
    IndexLimit      \* the counters of contexts wrap here, at 2^64 in the code

ASSUME ThreadsAssumption ==
    MaxThreads \in Nat \ {0} /\ IndexLimit \in Nat \ {0}

Types == {"TRANSPORT", "CALLBACK"}
AllContexts == Types \X (0..(MaxThreads - 1))

VARIABLES
    size,           \* number of contexts of each type
    index,          \* transport_context_index_, callback_context_index_
    queue,          \* handlers of each context
    guards,         \* contexts with a work guard
    halted,         \* contexts that run no handler any more
    thread,         \* where the thread of each context is
    exception       \* whether exception_in_thread_ is set

executorVars == <<size, index, queue, guards, halted, thread, exception>>

Contexts == {x \in AllContexts : x[2] < size[x[1]]}

NoContexts == [t \in Types |-> 0]

ExecutorInit ==
    /\ size = NoContexts
    /\ index = NoContexts
    /\ queue = [x \in AllContexts |-> <<>>]
    /\ guards = {}
    /\ halted = {}
    /\ thread = [x \in AllContexts |-> "none"]
    /\ exception = FALSE

\* create_executor(): contexts and work guards as configured.
create_executor(config) ==
    /\ size' = [t \in Types |-> IF t = "TRANSPORT"
                                THEN config.num_transport_threads
                                ELSE config.num_callback_threads]
    /\ guards' = Contexts'
    /\ UNCHANGED <<index, queue, halted, thread, exception>>

-----------------------------------------------------------------------------
(* Contexts.                                                               *)

\* context() after n calls of it: the contexts in turn.
ContextAfter(type, n) == <<type, ((index[type] + n) % IndexLimit) % size[type]>>
context(type) == ContextAfter(type, 0)
IndexAfter(type, n) == [index EXCEPT ![type] = (@ + n) % IndexLimit]

Posted(x, handler) == [queue EXCEPT ![x] = Append(@, handler)]

\* A thread takes the next handler in context.run().
MayRun(x) == thread[x] = "running" /\ x \notin halted /\ queue[x] # <<>>
Taken(x) == [queue EXCEPT ![x] = Tail(@)]

-----------------------------------------------------------------------------
(* Threads.                                                                *)

\* start_threads() starts the threads of the first type first.
Before(x, y) ==
    \/ x[1] # y[1] /\ x[1] = "TRANSPORT"
    \/ x[1] = y[1] /\ x[2] < y[2]
NextThread(x) ==
    /\ x \in Contexts /\ thread[x] = "none"
    /\ \A y \in Contexts : Before(y, x) => thread[y] # "none"
AllStarted == \A x \in Contexts : thread[x] # "none"

StartThread(x) ==
    /\ NextThread(x)
    /\ thread' = [thread EXCEPT ![x] = "running"]
    /\ UNCHANGED <<size, index, queue, guards, halted, exception>>

\* async_stop_threads_gently()
ResetGuards ==
    /\ guards' = {}
    /\ UNCHANGED <<size, index, queue, halted, thread, exception>>

\* Fault: the threads of callbacks are not joined.
TransportJoined == \A x \in Contexts : x[1] = "TRANSPORT" => thread[x] \in {"none", "finished"}

\* stop_threads(): every thread that was started is joined.
Joined == \A x \in Contexts : thread[x] \in {"none", "finished"}

\* stop(): the contexts and the handlers left in them are destroyed.
Clear ==
    /\ size' = NoContexts
    /\ queue' = [x \in AllContexts |-> <<>>]
    /\ UNCHANGED <<index, guards, halted, thread, exception>>

\* run() returns when the context was stopped, or is out of work; a context out
\* of work is stopped too.
Exit(x, hasOperations) ==
    /\ thread[x] = "running"
    /\ \/ x \in halted
       \/ queue[x] = <<>> /\ x \notin guards /\ ~hasOperations
    /\ thread' = [thread EXCEPT ![x] = "finished"]
    /\ halted' = halted \cup {x}
    /\ UNCHANGED <<size, index, queue, guards, exception>>

\* A handler throws; the catch of run_in_thread() is in three steps.
Thrown(x) == [thread EXCEPT ![x] = "caught"]

RecordException(x) ==
    /\ thread[x] = "caught"
    /\ exception' = TRUE
    /\ thread' = [thread EXCEPT ![x] = "recorded"]
    /\ UNCHANGED <<size, index, queue, guards, halted>>

interrupt_threads(x) ==
    /\ thread[x] = "recorded"
    /\ halted' = Contexts
    /\ thread' = [thread EXCEPT ![x] = "interrupted"]
    /\ UNCHANGED <<size, index, queue, guards, exception>>

\* The functions given to on_exception() are called by the module that gave them.
EndThread(x) ==
    /\ thread[x] = "interrupted"
    /\ thread' = [thread EXCEPT ![x] = "finished"]
    /\ UNCHANGED <<size, index, queue, guards, halted, exception>>

=============================================================================
