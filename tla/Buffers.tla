------------------------------- MODULE Buffers -------------------------------
(***************************************************************************)
(* The memory of serialized messages (messages/impl/                       *)
(* sharable_binary_header.h, serialization_buffer.cpp,                     *)
(* serialized_message.cpp): blocks of the heap that one                    *)
(* SerializationBuffer fills and that any number of SerializedMessage      *)
(* objects share afterwards, in different threads, by an atomic count.     *)
(*                                                                         *)
(* One object is used by one thread at a time; different objects of one    *)
(* block are used at the same time.  A decrease of the count and what      *)
(* follows it are two steps.  The bytes of a message are left out.         *)
(***************************************************************************)
EXTENDS Integers, FiniteSets

CONSTANTS
    Blocks,             \* addresses std::malloc may return
    MessageObjects,     \* places where a SerializedMessage may be
    InitialCapacity,    \* capacity allocate_shared_binary() leaves
    Sizes,              \* sizes of the pieces written
    Memory,             \* largest capacity std::malloc gives
    Word                \* number of values of std::size_t

NullPtr == "nullptr"    \* buffer_ after a move or a release
NoObject == "none"      \* the object is not constructed

ASSUME BlocksAssumption ==
    NullPtr \notin Blocks /\ NoObject \notin Blocks \cup MessageObjects
ASSUME SizesAssumption ==
    /\ Memory \in Nat /\ InitialCapacity \in 1..Memory /\ Sizes \subseteq 0..Memory
    /\ Word \in Nat /\ 4 * Memory < Word

VARIABLES
    heap,       \* the header of each block
    builder,    \* buffer_ of the SerializationBuffer
    message,    \* buffer_ of each SerializedMessage
    task        \* decreases of the count under way, by message

bufferVars == <<heap, builder, message, task>>

\* SharableBinaryHeader; total_memory_size is the capacity and a constant.
Header(size, capacity) ==
    [alive |-> TRUE, binary_size |-> size, binary_capacity |-> capacity,
     reference_count |-> 0, is_reference_count_enabled |-> FALSE]

Freed == [Header(0, 0) EXCEPT !.alive = FALSE]

\* The first member tells whether the count was decreased, the second whether
\* it was 1 before, the third the source of an assignment.
NoTask == [decreased |-> FALSE, last |-> FALSE, from |-> NoObject]

BuffersInit ==
    /\ heap = [b \in Blocks |-> Freed]
    /\ builder = NoObject
    /\ message = [m \in MessageObjects |-> NoObject]
    /\ task = [m \in MessageObjects |-> NoTask]

-----------------------------------------------------------------------------
(* Blocks of the heap.                                                     *)

\* std::malloc; a failure throws std::bad_alloc before anything was changed.
Allocatable(capacity) == {b \in Blocks : ~heap[b].alive /\ capacity <= Memory}

\* enable_reference_count_of_sharable_binary()
Enabled(header) ==
    [header EXCEPT !.is_reference_count_enabled = TRUE, !.reference_count = 1]

\* add_reference_count_of_sharable_binary()
Added(b) == [heap EXCEPT ![b].reference_count = @ + 1]

\* Fault: the capacity is doubled once.
DoubledOnce(capacity, required) == {(2 * capacity) % Word}

\* A capacity after each number of shifts by one bit.  The loop comes to its
\* end within MaxShifts or not at all: each shift adds to the capacity until a
\* bit is lost, and no more than 2 * Memory is ever required.
MaxShifts == 2 * Memory
Shifts(capacity) ==
    LET s[k \in 0..MaxShifts] == IF k = 0 THEN capacity ELSE (2 * s[k - 1]) % Word
    IN s

\* The loop of expand_sharable_binary(): shifts until the size fits.  The set
\* is empty if no shift of the word does, where the loop would not end.
NewCapacity(capacity, required) ==
    LET shifts == Shifts(capacity)
        enough == {k \in 1..MaxShifts : shifts[k] >= required}
    IN {shifts[k] : k \in {i \in enough : \A j \in enough : i <= j}}

-----------------------------------------------------------------------------
(* SerializationBuffer.                                                    *)

\* The constructor: allocate_shared_binary()
NewBuilder ==
    /\ builder = NoObject
    /\ \E b \in Allocatable(InitialCapacity) :
          /\ builder' = b
          /\ heap' = [heap EXCEPT ![b] = Header(0, InitialCapacity)]
    /\ UNCHANGED <<message, task>>

Fits(b, n) == heap[b].binary_size + n <= heap[b].binary_capacity

\* write() into the capacity there is
Write(n) ==
    /\ builder \in Blocks /\ Fits(builder, n)
    /\ heap' = [heap EXCEPT ![builder].binary_size = @ + n]
    /\ UNCHANGED <<builder, message, task>>

\* write() with expand_sharable_binary(): std::realloc keeps or moves the block.
\* If it fails, std::bad_alloc leaves write() and the block is as it was.
ExpandAndWrite(n) ==
    /\ builder \in Blocks /\ ~Fits(builder, n)
    /\ LET size == heap[builder].binary_size + n
       IN \E capacity \in NewCapacity(heap[builder].binary_capacity, size) :
          \E b \in Allocatable(capacity) \cup {c \in {builder} : capacity <= Memory} :
            /\ heap' = [heap EXCEPT ![builder] = Freed,
                                    ![b] = Header(size, capacity)]
            /\ builder' = b
    /\ UNCHANGED <<message, task>>

\* release(): the block goes to a new message.
Release(m) ==
    /\ builder \in Blocks
    /\ message[m] = NoObject
    /\ heap' = [heap EXCEPT ![builder] = Enabled(@)]
    /\ message' = [message EXCEPT ![m] = builder]
    /\ builder' = NullPtr
    /\ UNCHANGED task

\* The destructor: deallocate_sharable_binary() of a block or of nullptr
DeleteBuilder ==
    /\ builder # NoObject
    /\ heap' = [b \in Blocks |-> IF b = builder THEN Freed ELSE heap[b]]
    /\ builder' = NoObject
    /\ UNCHANGED <<message, task>>

-----------------------------------------------------------------------------
(* SerializedMessage.                                                      *)

\* No thread is in a function of the message, or reads it to assign another.
Idle(m) == ~task[m].decreased /\ task[m].from = NoObject
Unread(m) == \A o \in MessageObjects : task[o].from # m
Usable(m) == Idle(m) /\ Unread(m) /\ message[m] # NoObject

\* The constructor with data: allocate_sharable_binary()
New(m, n) ==
    /\ message[m] = NoObject
    /\ \E b \in Allocatable(n) :
          /\ heap' = [heap EXCEPT ![b] = Enabled(Header(n, n))]
          /\ message' = [message EXCEPT ![m] = b]
    /\ UNCHANGED <<builder, task>>

\* The copy constructor; its source is no message that was moved from.
CopyNew(m, o) ==
    /\ message[m] = NoObject
    /\ Idle(o) /\ message[o] \in Blocks
    /\ heap' = Added(message[o])
    /\ message' = [message EXCEPT ![m] = message[o]]
    /\ UNCHANGED <<builder, task>>

\* The move constructor
MoveNew(m, o) ==
    /\ message[m] = NoObject
    /\ Usable(o)
    /\ message' = [message EXCEPT ![m] = message[o], ![o] = NullPtr]
    /\ UNCHANGED <<heap, builder, task>>

\* The move assignment: a swap
MoveAssign(m, o) ==
    /\ Usable(m) /\ Usable(o)
    /\ message' = [message EXCEPT ![m] = message[o], ![o] = message[m]]
    /\ UNCHANGED <<heap, builder, task>>

\* decrease_reference_count_of_sharable_binary(): fetch_sub
Decrease(m, from) ==
    /\ task' = [task EXCEPT ![m] =
                   [decreased |-> TRUE,
                    last |-> heap[message[m]].reference_count = 1,
                    from |-> from]]
    /\ heap' = [heap EXCEPT ![message[m]].reference_count = @ - 1]
    /\ UNCHANGED <<builder, message>>

\* The beginning of the copy assignment from another message
CopyAssign(m, o) ==
    /\ Usable(m) /\ m # o
    /\ Idle(o) /\ message[o] \in Blocks
    /\ IF message[m] = NullPtr
          THEN /\ task' = [task EXCEPT ![m] = [NoTask EXCEPT !.from = o]]
               /\ UNCHANGED <<heap, builder, message>>
          ELSE Decrease(m, o)

\* The beginning of the destructor
Delete(m) ==
    /\ Usable(m)
    /\ IF message[m] = NullPtr
          THEN /\ message' = [message EXCEPT ![m] = NoObject]
               /\ UNCHANGED <<heap, builder, task>>
          ELSE Decrease(m, NoObject)

\* Fault: an assignment does not count the new reference.
HeapAfterUncounted(m) ==
    IF task[m].last THEN [heap EXCEPT ![message[m]] = Freed] ELSE heap

\* deallocate_sharable_binary() after the last decrease, and the new reference
\* of an assignment.
HeapAfter(m) ==
    LET freed == IF task[m].last THEN [heap EXCEPT ![message[m]] = Freed]
                                 ELSE heap
    IN IF task[m].from = NoObject THEN freed
       ELSE [freed EXCEPT ![message[task[m].from]].reference_count = @ + 1]

\* The rest of the destructor or of the copy assignment
Finish(m) ==
    /\ ~Idle(m)
    /\ heap' = HeapAfter(m)
    /\ message' = [message EXCEPT ![m] =
                      IF task[m].from = NoObject THEN NoObject
                                                 ELSE message[task[m].from]]
    /\ task' = [task EXCEPT ![m] = NoTask]
    /\ UNCHANGED builder

Building ==
    \/ NewBuilder
    \/ \E n \in Sizes : Write(n) \/ ExpandAndWrite(n)
    \/ \E m \in MessageObjects : Release(m)
    \/ DeleteBuilder

Sharing ==
    \E m \in MessageObjects :
        \/ \E n \in Sizes : New(m, n)
        \/ \E o \in MessageObjects : \/ CopyNew(m, o) \/ MoveNew(m, o)
                               \/ MoveAssign(m, o) \/ CopyAssign(m, o)
        \/ Delete(m)
        \/ Finish(m)

BuffersNext == Building \/ Sharing

BuffersSpec == BuffersInit /\ [][BuffersNext]_bufferVars

-----------------------------------------------------------------------------
(* Properties.                                                             *)

\* The messages that count for block b: those that hold it and have not begun
\* to give it up.
Holders(b) == {m \in MessageObjects : message[m] = b /\ ~task[m].decreased}

\* A block lives exactly as long as something owns it, in every interleaving of
\* copies, assignments and destructors: it is filled by the builder alone, or
\* its count is the number of its messages and the thread that took the count
\* to zero, which is one, is about to free it (serialized_message.cpp).
BlocksAreOwned ==
    \A b \in Blocks :
        LET last == {m \in MessageObjects : message[m] = b /\ task[m].last}
        IN IF heap[b].alive
           THEN IF heap[b].is_reference_count_enabled
                THEN /\ heap[b].reference_count = Cardinality(Holders(b))
                     /\ Cardinality(last) = (IF Holders(b) = {} THEN 1 ELSE 0)
                     /\ builder # b
                ELSE builder = b /\ Holders(b) = {}
           ELSE builder # b /\ Holders(b) = {} /\ last = {}

\* What is written into a block fits into it, whatever the pieces were and
\* however often it was expanded (serialization_buffer.cpp, write()), and the
\* loop that looks for a larger capacity ends: with blocks no larger than Memory
\* the shift never loses a bit (expand_sharable_binary()).
WritesFit ==
    /\ \A b \in Blocks : heap[b].binary_size <= heap[b].binary_capacity
    /\ builder \in Blocks => \A n \in Sizes :
            ~Fits(builder, n) => NewCapacity(heap[builder].binary_capacity,
                                             heap[builder].binary_size + n) # {}
=============================================================================
