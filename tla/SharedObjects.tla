---------------------------- MODULE SharedObjects ----------------------------
(***************************************************************************)
(* The pool of shared objects (util/impl/shared_objects.h): one thread     *)
(* creates objects in the buffers of a pool, and any thread copies, moves  *)
(* and gives up references to them.  Each access to the atomic count of a  *)
(* buffer is a step of its own.                                            *)
(***************************************************************************)
EXTENDS Integers, FiniteSets

CONSTANTS
    NumBuffers,     \* size of the pool
    References      \* places where a SharedObject may be

Creator == "creator"    \* the thread that calls create()
Users == References \cup {Creator}
PoolBuffers == 0..(NumBuffers - 1)
Unused == -1            \* the count of a buffer that is not in use
NoBuffer == NumBuffers  \* buffer_ is nullptr
NoReference == "none"

ASSUME PoolAssumption ==
    NumBuffers \in Nat \ {0} /\ {Creator, NoReference} \cap References = {}

VARIABLES
    count,      \* reference_count_ of each buffer
    object,     \* buffers whose buffer_ holds an object
    next,       \* next_buffer_index_
    initial,    \* initial_buffer_index of create()
    exists,     \* references that are constructed
    hold,       \* the buffer each user holds
    at          \* where each user is, in which function, with which source

poolVars == <<count, object, next, initial, exists, hold, at>>
creation == <<next, initial>>

Step(pc, function, from) == [pc |-> pc, function |-> function, from |-> from]
Nothing == Step("idle", "none", NoReference)

PoolInit ==
    /\ count = [b \in PoolBuffers |-> Unused]
    /\ object = {}
    /\ next = 0 /\ initial = 0
    /\ exists = {}
    /\ hold = [u \in Users |-> NoBuffer]
    /\ at = [u \in Users |-> Nothing]

-----------------------------------------------------------------------------
(* SharedObjectBuffer.                                                     *)

\* Fault: the buffer is marked as unused before its object is destroyed.
MarkedUnused(b) == [count EXCEPT ![b] = IF @ = 1 THEN Unused ELSE @ - 1]

\* release(): the fetch_sub
Decreased(b) == [count EXCEPT ![b] = @ - 1]

\* A user begins to release its buffer within a function; if its reference was
\* the last one the object is destroyed and the buffer given back after it.
BeginRelease(u, function, from) ==
    /\ count' = Decreased(hold[u])
    /\ at' = [at EXCEPT ![u] =
                 Step(IF count[hold[u]] = 1 THEN "destroy" ELSE "settle",
                      function, from)]
    /\ UNCHANGED <<object, exists, hold>>

\* release(): the reset of the object
DestroyObject(u) ==
    /\ at[u].pc = "destroy"
    /\ object' = object \ {hold[u]}
    /\ at' = [at EXCEPT ![u].pc = "store"]
    /\ UNCHANGED <<count, creation, exists, hold>>

\* release(): the store of the count
StoreUnused(u) ==
    /\ at[u].pc = "store"
    /\ count' = [count EXCEPT ![hold[u]] = Unused]
    /\ at' = [at EXCEPT ![u].pc = "settle"]
    /\ UNCHANGED <<object, creation, exists, hold>>

-----------------------------------------------------------------------------
(* SharedObjectMemoryPool::create(), called by one thread at a time.       *)

BeginCreate ==
    /\ at[Creator] = Nothing
    /\ initial' = next
    /\ at' = [at EXCEPT ![Creator].pc = "loop"]
    /\ UNCHANGED <<count, object, next, exists, hold>>

\* The search came round: the index after the current one is the first.
CameRound == (next + 1) % NumBuffers = initial

\* try_start_use() of the next buffer; std::bad_alloc after a whole round.
TryBuffer ==
    /\ at[Creator].pc = "loop"
    /\ next' = (next + 1) % NumBuffers
    /\ IF count[next] = Unused
          THEN /\ count' = [count EXCEPT ![next] = 1]
               /\ hold' = [hold EXCEPT ![Creator] = next]
               /\ at' = [at EXCEPT ![Creator].pc = "emplace"]
          ELSE /\ at' = [at EXCEPT ![Creator].pc =
                            IF CameRound THEN "threw" ELSE "loop"]
               /\ UNCHANGED <<count, hold>>
    /\ UNCHANGED <<object, initial, exists>>

\* The object is constructed, and a new reference holds it.
Emplace(r) ==
    /\ at[Creator].pc = "emplace"
    /\ r \notin exists
    /\ object' = object \cup {hold[Creator]}
    /\ hold' = [hold EXCEPT ![r] = hold[Creator], ![Creator] = NoBuffer]
    /\ exists' = exists \cup {r}
    /\ at' = [at EXCEPT ![Creator] = Nothing]
    /\ UNCHANGED <<count, creation>>

\* The constructor of the object throws: the buffer is released.
EmplaceThrows ==
    /\ at[Creator].pc = "emplace"
    /\ BeginRelease(Creator, "create", NoReference)
    /\ UNCHANGED creation

\* An exception left create().
CreateThrew ==
    /\ \/ at[Creator].pc = "threw"
       \/ at[Creator].pc = "settle"
    /\ hold' = [hold EXCEPT ![Creator] = NoBuffer]
    /\ at' = [at EXCEPT ![Creator] = Nothing]
    /\ UNCHANGED <<count, object, creation, exists>>

-----------------------------------------------------------------------------
(* SharedObject.  A reference is used by one thread at a time.             *)

Untouched(r) == at[r] = Nothing /\ \A q \in References : at[q].from # r
Alone(r) == r \in exists /\ Untouched(r)

\* Other threads at most copy the reference.
Readable(o) ==
    /\ o \in exists /\ at[o] = Nothing
    /\ \A q \in References : at[q].from = o => at[q].function = "copy"

\* The copy constructor
CopyReference(r, o) ==
    /\ r \notin exists
    /\ Readable(o)
    /\ hold' = [hold EXCEPT ![r] = hold[o]]
    /\ count' = [b \in PoolBuffers |-> count[b] + IF b = hold[o] THEN 1 ELSE 0]
    /\ exists' = exists \cup {r}
    /\ UNCHANGED <<object, creation, at>>

\* The move constructor
MoveReference(r, o) ==
    /\ r \notin exists
    /\ Alone(o)
    /\ hold' = [hold EXCEPT ![r] = hold[o], ![o] = NoBuffer]
    /\ exists' = exists \cup {r}
    /\ UNCHANGED <<count, object, creation, at>>

\* reset(), alone or at the beginning of an assignment or of the destructor
BeginReset(r, function, from) ==
    /\ Alone(r)
    /\ IF hold[r] # NoBuffer
          THEN BeginRelease(r, function, from)
          ELSE /\ at' = [at EXCEPT ![r] = Step("settle", function, from)]
               /\ UNCHANGED <<count, object, exists, hold>>
    /\ UNCHANGED creation

Assign(r, o) ==
    /\ \/ r # o /\ Readable(o) /\ BeginReset(r, "copy", o)
       \/ Alone(o) /\ BeginReset(r, "move", o)

\* The rest of the copy assignment
TakeCopy(r) ==
    LET b == hold[at[r].from]
    IN /\ hold' = [hold EXCEPT ![r] = b]
       /\ count' = [c \in PoolBuffers |-> count[c] + IF c = b THEN 1 ELSE 0]

\* The rest of the move assignment; an object moved to itself is given up.
TakeMove(r) ==
    LET emptied == [hold EXCEPT ![r] = NoBuffer]
        o == at[r].from
    IN /\ hold' = [emptied EXCEPT ![o] = NoBuffer, ![r] = emptied[o]]
       /\ UNCHANGED count

\* What follows reset()
Settle(r) ==
    /\ at[r].pc = "settle"
    /\ CASE at[r].function = "copy" -> TakeCopy(r)
         [] at[r].function = "move" -> TakeMove(r)
         [] OTHER -> hold' = [hold EXCEPT ![r] = NoBuffer] /\ UNCHANGED count
    /\ exists' = IF at[r].function = "delete" THEN exists \ {r} ELSE exists
    /\ at' = [at EXCEPT ![r] = Nothing]
    /\ UNCHANGED <<object, creation>>

Creating ==
    BeginCreate \/ TryBuffer \/ (\E r \in References : Emplace(r))
    \/ EmplaceThrows \/ CreateThrew

Referring ==
    \E r \in References :
        \/ \E o \in References : \/ CopyReference(r, o) \/ MoveReference(r, o)
                                 \/ Assign(r, o)
        \/ BeginReset(r, "reset", NoReference)
        \/ BeginReset(r, "delete", NoReference)
        \/ Settle(r)

PoolNext ==
    Creating \/ Referring \/ \E u \in Users : DestroyObject(u) \/ StoreUnused(u)

PoolSpec == PoolInit /\ [][PoolNext]_poolVars

-----------------------------------------------------------------------------
(* Properties.                                                             *)

\* Users that count for buffer b: they hold it and have not begun to release it.
Counted(b) ==
    {u \in Users : hold[u] = b /\ at[u].pc \notin {"destroy", "store", "settle"}}

\* An object lives as long as a reference holds it, a buffer is given to one
\* object at a time, and one that nobody holds or is about to give back is free
\* for create(), whatever copies, assignments and exceptions there were.
BuffersAreOwned ==
    \A b \in PoolBuffers :
        LET closing == {u \in Users : hold[u] = b /\ at[u].pc \in {"destroy", "store"}}
        IN /\ Counted(b) # {} => count[b] = Cardinality(Counted(b)) /\ closing = {}
           /\ Counted(b) \cap References # {} => b \in object
           /\ Counted(b) = {} => /\ Cardinality(closing) = (IF count[b] = 0 THEN 1 ELSE 0)
                                 /\ count[b] \in {0, Unused}
           /\ count[b] = Unused => b \notin object
=============================================================================
