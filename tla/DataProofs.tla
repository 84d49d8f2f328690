----------------------------- MODULE DataProofs -----------------------------
(***************************************************************************)
(* Proofs about Buffers, SharedObjects and CallPath: for any number of     *)
(* blocks, messages, buffers and references, and for any methods, calls,   *)
(* foreign messages, read buffer size and number of messages.  What they   *)
(* share are the lemmas on induction.                                      *)
(***************************************************************************)
EXTENDS CallPath, Buffers, SharedObjects, FiniteSetTheorems, TLAPS

-----------------------------------------------------------------------------
(* Buffers: types.                                                         *)

Headers ==
    [alive : BOOLEAN, binary_size : Nat, binary_capacity : 0..Memory,
     reference_count : Int, is_reference_count_enabled : BOOLEAN]

Tasks == [decreased : BOOLEAN, last : BOOLEAN, from : MessageObjects \cup {NoObject}]

BufferTypes ==
    /\ heap \in [Blocks -> Headers]
    /\ builder \in Blocks \cup {NullPtr, NoObject}
    /\ message \in [MessageObjects -> Blocks \cup {NullPtr, NoObject}]
    /\ task \in [MessageObjects -> Tasks]

\* The pointers that are no blocks.
LEMMA Pointers ==
    /\ NullPtr \notin Blocks /\ NoObject \notin Blocks
    /\ NoObject \notin MessageObjects /\ NullPtr # NoObject
BY BlocksAssumption DEF NullPtr, NoObject

LEMMA SizesAreNatural ==
    /\ Memory \in Nat /\ InitialCapacity \in 0..Memory
    /\ \A n \in Sizes : n \in 0..Memory
BY SizesAssumption

LEMMA HeaderType ==
    ASSUME NEW size \in Nat, NEW capacity \in 0..Memory
    PROVE  Header(size, capacity) \in Headers
BY DEF Header, Headers

LEMMA FreedType == Freed \in Headers
<1>1. 0 \in 0..Memory
    BY SizesAreNatural
<1>2. Header(0, 0) \in Headers
    BY <1>1, HeaderType
<1>3. QED
    BY <1>2 DEF Freed, Header, Headers

LEMMA EnabledType == ASSUME NEW h \in Headers PROVE Enabled(h) \in Headers
<1> DEFINE g == [h EXCEPT !.is_reference_count_enabled = TRUE]
<1>1. g \in Headers
    BY DEF Headers
<1> HIDE DEF g
<1>2. [g EXCEPT !.reference_count = 1] \in Headers
    BY <1>1 DEF Headers
<1>3. QED
    BY <1>2 DEF Enabled, g

LEMMA NoTaskType == NoTask \in Tasks
BY DEF NoTask, Tasks

-----------------------------------------------------------------------------
(* Induction.                                                              *)

\* Induction over the natural numbers: otherwise the members of S up to m, each
\* with its successor among them, were as many as without 0.
LEMMA SetInduction ==
    ASSUME NEW S \in SUBSET Nat, 0 \in S, \A n \in S : n + 1 \in S
    PROVE  S = Nat
<1> SUFFICES ASSUME NEW m \in Nat, m \notin S PROVE FALSE
    OBVIOUS
<1> DEFINE A == S \cap 0..m
           f == [n \in A |-> n + 1]
<1>1. f \in Injection(A, A \ {0})
  <2>1. \A n \in A : n + 1 \in A \ {0}
      OBVIOUS
  <2>2. f \in [A -> A \ {0}] /\ \A a, b \in A : f[a] = f[b] => a = b
      BY <2>1
  <2>3. QED
      BY <2>2 DEF Injection, IsInjective
<1>2. 0 \in A /\ A \subseteq 0..m
    OBVIOUS
<1> HIDE DEF A, f
<1>3. IsFiniteSet(A)
  <2>1. 0 \in Int /\ m \in Int
      OBVIOUS
  <2>2. QED
      BY <1>2, <2>1, FS_Interval, FS_Subset
<1>4. IsFiniteSet(A \ {0}) /\ Cardinality(A \ {0}) = Cardinality(A) - 1
    BY <1>2, <1>3, FS_RemoveElement
<1>5. Cardinality(A) =< Cardinality(A \ {0})
    BY <1>1, <1>4, FS_Injection
<1>6. QED
    BY <1>3, <1>4, <1>5, FS_CardinalityType

\* The least member of a set of natural numbers.
LEMMA LeastMember ==
    ASSUME NEW S \in SUBSET Nat, S # {}
    PROVE  \E n \in S : \A m \in S : n =< m
<1> SUFFICES ASSUME \A n \in S : \E m \in S : m < n PROVE FALSE
    BY SMT
<1> DEFINE Below == {n \in Nat : \A m \in S : n =< m}
<1>1. 0 \in Below
    OBVIOUS
<1>2. ASSUME NEW n \in Below PROVE n + 1 \in Below
    OBVIOUS
<1>3. Below = Nat
  <2>1. Below \in SUBSET Nat
      OBVIOUS
  <2> HIDE DEF Below
  <2>2. QED
      BY <1>1, <1>2, <2>1, SetInduction
<1>4. PICK m \in S : TRUE
    OBVIOUS
<1>5. m + 1 \in Below
    BY <1>3
<1>6. QED
    BY <1>5

-----------------------------------------------------------------------------
(* Buffers: the loop of expand_sharable_binary().                          *)

LEMMA WordIsLarge ==
    /\ Word \in Nat \ {0} /\ MaxShifts \in Nat
    /\ 2 * MaxShifts < Word
BY SizesAssumption DEF MaxShifts

\* Each shift does what the loop does once.
LEMMA ShiftsLaw ==
    ASSUME NEW c \in Nat
    PROVE  \A k \in 0..MaxShifts :
             Shifts(c)[k] = IF k = 0 THEN c ELSE (2 * Shifts(c)[k - 1]) % Word
<1> DEFINE Shift(p, k) == IF k = 0 THEN c ELSE (2 * p[k - 1]) % Word
           Solves(p) == p = [k \in 0..MaxShifts |-> Shift(p, k)]
           Begins(p, n) == p \in [0..n -> Nat] /\ \A k \in 0..n : p[k] = Shift(p, k)
           Lengths == {n \in Nat : \E p : Begins(p, n)}
<1>1. 0 \in Lengths
  <2>1. Begins([k \in 0..0 |-> c], 0)
      OBVIOUS
  <2> HIDE DEF Begins
  <2>2. QED
      BY <2>1
<1>2. ASSUME NEW n \in Lengths PROVE n + 1 \in Lengths
  <2>1. n \in Nat /\ \E p : Begins(p, n)
      OBVIOUS
  <2>2. PICK p : Begins(p, n)
      BY <2>1
  <2> DEFINE q == [k \in 0..n + 1 |-> IF k = n + 1 THEN (2 * p[n]) % Word ELSE p[k]]
  <2>3. p[n] \in Nat
      BY <2>1, <2>2
  <2>4. (2 * p[n]) % Word \in Nat
      BY <2>3, WordIsLarge
  <2>5. q \in [0..n + 1 -> Nat]
      BY <2>1, <2>2, <2>4
  <2>6. ASSUME NEW k \in 0..n + 1 PROVE q[k] = Shift(q, k)
    <3>1. CASE k = n + 1
      <4>1. q[k] = (2 * p[n]) % Word /\ q[k - 1] = p[n] /\ k # 0
          BY <2>1, <3>1
      <4> HIDE DEF q
      <4>2. QED
          BY <4>1
    <3>2. CASE k # n + 1
      <4>1. k \in 0..n /\ q[k] = p[k] /\ (k # 0 => q[k - 1] = p[k - 1])
          BY <2>1, <3>2
      <4>2. p[k] = Shift(p, k)
          BY <2>2, <4>1
      <4> HIDE DEF q
      <4>3. QED
          BY <4>1, <4>2
    <3>3. QED
        BY <3>1, <3>2
  <2>7. Begins(q, n + 1)
    <3> HIDE DEF q, Shift
    <3>1. QED
        BY <2>5, <2>6
  <2> HIDE DEF Begins, q
  <2>8. QED
      BY <2>1, <2>7
<1>3. Lengths = Nat
  <2>1. Lengths \in SUBSET Nat
      OBVIOUS
  <2> HIDE DEF Lengths
  <2>2. QED
      BY <1>1, <1>2, <2>1, SetInduction
<1>4. \E p : Solves(p)
  <2>1. \E p : Begins(p, MaxShifts)
    <3> HIDE DEF Begins
    <3>1. QED
        BY <1>3, WordIsLarge
  <2>2. PICK p : Begins(p, MaxShifts)
      BY <2>1
  <2>3. p = [k \in 0..MaxShifts |-> p[k]]
      BY <2>2
  <2>4. Solves(p)
      BY <2>2, <2>3
  <2> HIDE DEF Solves
  <2>5. QED
      BY <2>4
<1>5. Shifts(c) = CHOOSE p : Solves(p)
    BY DEF Shifts
<1>6. Solves(CHOOSE p : Solves(p))
  <2> HIDE DEF Solves
  <2>1. QED
      BY <1>4
<1>7. Solves(Shifts(c))
  <2> HIDE DEF Solves
  <2>1. QED
      BY <1>5, <1>6
<1> DEFINE s == Shifts(c)
<1> HIDE DEF s
<1>8. s = [k \in 0..MaxShifts |-> Shift(s, k)]
    BY <1>7 DEF s
<1>9. \A k \in 0..MaxShifts : s[k] = Shift(s, k)
    BY <1>8
<1>10. QED
    BY <1>9 DEF s

LEMMA ShiftsAreNatural ==
    ASSUME NEW c \in Nat
    PROVE  \A k \in 0..MaxShifts : Shifts(c)[k] \in Nat
<1> DEFINE p == Shifts(c)
           Natural == {n \in Nat : n \in 0..MaxShifts => p[n] \in Nat}
<1> HIDE DEF p
<1>1. \A k \in 0..MaxShifts : p[k] = IF k = 0 THEN c ELSE (2 * p[k - 1]) % Word
    BY ShiftsLaw DEF p
<1>2. 0 \in Natural
    BY <1>1
<1>3. ASSUME NEW n \in Natural PROVE n + 1 \in Natural
  <2> SUFFICES ASSUME n + 1 \in 0..MaxShifts PROVE p[n + 1] \in Nat
      OBVIOUS
  <2>1. p[n] \in Nat /\ p[n + 1] = (2 * p[n]) % Word
      BY <1>1, WordIsLarge
  <2>2. QED
      BY <2>1, WordIsLarge
<1>4. Natural = Nat
  <2>1. Natural \in SUBSET Nat
      OBVIOUS
  <2> HIDE DEF Natural
  <2>2. QED
      BY <1>2, <1>3, <2>1, SetInduction
<1>5. \A k \in 0..MaxShifts : p[k] \in Nat
    BY <1>4, WordIsLarge
<1>6. QED
    BY <1>5 DEF p

\* A capacity that is not enough grows with each shift, since no bit is lost.
LEMMA LoopEnds ==
    ASSUME NEW c \in Nat \ {0}, NEW s \in 0..MaxShifts, c < s
    PROVE  \E k \in 1..MaxShifts : Shifts(c)[k] >= s
<1> SUFFICES ASSUME \A k \in 1..MaxShifts : ~(Shifts(c)[k] >= s) PROVE FALSE
    OBVIOUS
<1> DEFINE p == Shifts(c)
           Grown == {n \in Nat : n \in 0..MaxShifts =>
                                  p[n] \in Nat /\ p[n] > n /\ p[n] < s}
<1> HIDE DEF p
<1>1. \A k \in 0..MaxShifts : p[k] = IF k = 0 THEN c ELSE (2 * p[k - 1]) % Word
    BY ShiftsLaw DEF p
<1>2. 0 \in Grown
    BY <1>1, WordIsLarge
<1>3. ASSUME NEW n \in Grown PROVE n + 1 \in Grown
  <2> SUFFICES ASSUME n + 1 \in 0..MaxShifts
               PROVE  p[n + 1] \in Nat /\ p[n + 1] > n + 1 /\ p[n + 1] < s
      OBVIOUS
  <2>1. n + 1 \in 1..MaxShifts /\ p[n] \in Nat /\ p[n] > n /\ p[n] < s
      BY WordIsLarge
  <2>2. p[n + 1] = (2 * p[n]) % Word
      BY <1>1, WordIsLarge
  <2>3. (2 * p[n]) % Word = 2 * p[n]
      BY <2>1, WordIsLarge
  <2>4. ~(p[n + 1] >= s)
      BY <2>1 DEF p
  <2>5. QED
      BY <2>1, <2>2, <2>3, <2>4
<1>4. Grown = Nat
  <2>1. Grown \in SUBSET Nat
      OBVIOUS
  <2> HIDE DEF Grown
  <2>2. QED
      BY <1>2, <1>3, <2>1, SetInduction
<1>5. p[MaxShifts] > MaxShifts /\ p[MaxShifts] \in Nat /\ p[MaxShifts] < s
    BY <1>4, WordIsLarge
<1>6. QED
    BY <1>5, WordIsLarge

LEMMA CapacityIsFound ==
    ASSUME NEW c \in Nat \ {0}, NEW s \in 0..MaxShifts, c < s
    PROVE  NewCapacity(c, s) # {}
<1> DEFINE enough == {k \in 1..MaxShifts : Shifts(c)[k] >= s}
<1>1. enough # {} /\ enough \in SUBSET Nat
    BY LoopEnds
<1> HIDE DEF enough
<1>2. PICK k \in enough : \A j \in enough : k =< j
    BY <1>1, LeastMember
<1>3. Shifts(c)[k] \in {Shifts(c)[n] : n \in {i \in enough : \A j \in enough : i <= j}}
    BY <1>2
<1>4. QED
    BY <1>3, Zenon DEF NewCapacity, enough

\* The capacity it finds is large enough.
LEMMA CapacityIsEnough ==
    ASSUME NEW capacity \in Nat, NEW required \in Nat,
           NEW found \in NewCapacity(capacity, required)
    PROVE  found \in Nat /\ found >= required
<1>1. PICK k \in 1..MaxShifts : /\ found = Shifts(capacity)[k]
                               /\ Shifts(capacity)[k] >= required
    BY Zenon DEF NewCapacity
<1>2. /\ k \in 0..MaxShifts /\ k - 1 \in 0..MaxShifts /\ k # 0
    BY WordIsLarge
<1>3. \A n \in 0..MaxShifts : Shifts(capacity)[n] \in Nat
    BY ShiftsAreNatural
<1>4. QED
    BY <1>1, <1>2, <1>3

-----------------------------------------------------------------------------
(* Buffers: every step keeps the types.                                    *)

LEMMA InitTypes == BuffersInit => BufferTypes
<1> SUFFICES ASSUME BuffersInit PROVE BufferTypes
    OBVIOUS
<1>1. heap \in [Blocks -> Headers]
    BY FreedType DEF BuffersInit
<1>2. task \in [MessageObjects -> Tasks]
    BY NoTaskType DEF BuffersInit
<1>3. builder = NoObject /\ message = [m \in MessageObjects |-> NoObject]
    BY DEF BuffersInit
<1>4. QED
    BY <1>1, <1>2, <1>3 DEF BufferTypes

\* The heap after a step of the builder or of a message.
LEMMA HeapKeepsType ==
    ASSUME BufferTypes, BuffersNext
    PROVE  heap' \in [Blocks -> Headers]
<1>1. heap \in [Blocks -> Headers]
    BY DEF BufferTypes
<1>2. CASE UNCHANGED heap
    BY <1>1, <1>2
<1>3. ASSUME NEW b \in Blocks, NEW h \in Headers, heap' = [heap EXCEPT ![b] = h]
      PROVE  heap' \in [Blocks -> Headers]
    BY <1>1, <1>3
<1>4. ASSUME NEW b \in Blocks, NEW n \in Int,
             heap' = [heap EXCEPT ![b].reference_count = n]
      PROVE  heap' \in [Blocks -> Headers]
    BY <1>1, <1>4 DEF Headers
<1>5. CASE NewBuilder
  <2>1. PICK b \in Blocks : heap' = [heap EXCEPT ![b] = Header(0, InitialCapacity)]
      BY <1>5 DEF NewBuilder, Allocatable
  <2>2. Header(0, InitialCapacity) \in Headers
      BY SizesAreNatural, HeaderType
  <2>3. QED
      BY <1>3, <2>1, <2>2
<1>6. ASSUME NEW n \in Sizes, Write(n) PROVE heap' \in [Blocks -> Headers]
  <2>1. n \in Nat /\ builder \in Blocks
      BY <1>6, SizesAreNatural DEF Write
  <2>2. QED
      BY <1>1, <1>6, <2>1 DEF Write, Headers
<1>7. ASSUME NEW n \in Sizes, ExpandAndWrite(n) PROVE heap' \in [Blocks -> Headers]
  <2> DEFINE size == heap[builder].binary_size + n
  <2>1. PICK capacity \in NewCapacity(heap[builder].binary_capacity, size) :
          \E b \in Allocatable(capacity) \cup {c \in {builder} : capacity <= Memory} :
            heap' = [heap EXCEPT ![builder] = Freed, ![b] = Header(size, capacity)]
      BY <1>7 DEF ExpandAndWrite
  <2>0. PICK b \in Allocatable(capacity) \cup {c \in {builder} : capacity <= Memory} :
            heap' = [heap EXCEPT ![builder] = Freed, ![b] = Header(size, capacity)]
      BY <2>1
  <2>2. builder \in Blocks /\ b \in Blocks /\ capacity <= Memory
      BY <1>7, <2>0 DEF ExpandAndWrite, Allocatable
  <2>3. heap[builder].binary_size \in Nat /\ heap[builder].binary_capacity \in Nat
      BY <1>1, <2>2, SizesAreNatural DEF Headers
  <2>4. size \in Nat
      BY <2>3, SizesAreNatural
  <2> HIDE DEF size
  <2>5. capacity \in 0..Memory
      BY <2>1, <2>2, <2>3, <2>4, SizesAreNatural, CapacityIsEnough
  <2>6. Header(size, capacity) \in Headers
      BY <2>4, <2>5, HeaderType
  <2>7. QED
    <3> DEFINE g == [heap EXCEPT ![builder] = Freed]
               h == Header(size, capacity)
    <3>1. g \in [Blocks -> Headers]
        BY <1>1, FreedType
    <3>2. heap' = [g EXCEPT ![b] = h] /\ h \in Headers
        BY <2>0, <2>6
    <3> HIDE DEF g, h
    <3>3. QED
        BY <3>1, <3>2, <2>2
<1>8. ASSUME NEW m \in MessageObjects, Release(m) PROVE heap' \in [Blocks -> Headers]
  <2>1. builder \in Blocks /\ heap' = [heap EXCEPT ![builder] = Enabled(heap[builder])]
      BY <1>8 DEF Release
  <2>2. Enabled(heap[builder]) \in Headers
      BY <1>1, <2>1, EnabledType
  <2>3. QED
      BY <1>3, <2>1, <2>2
<1>9. CASE DeleteBuilder
  <2>1. ASSUME NEW b \in Blocks
        PROVE (IF b = builder THEN Freed ELSE heap[b]) \in Headers
      BY <1>1, FreedType
  <2>2. QED
      BY <1>9, <2>1 DEF DeleteBuilder
<1>10. ASSUME NEW m \in MessageObjects, NEW n \in Sizes, New(m, n)
       PROVE  heap' \in [Blocks -> Headers]
  <2>1. PICK b \in Blocks : heap' = [heap EXCEPT ![b] = Enabled(Header(n, n))]
      BY <1>10 DEF New, Allocatable
  <2>2. Header(n, n) \in Headers
    <3>1. n \in Nat /\ n \in 0..Memory
        BY SizesAreNatural
    <3>2. QED
        BY <3>1, HeaderType
  <2>3. Enabled(Header(n, n)) \in Headers
      BY <2>2, EnabledType
  <2>4. QED
      BY <1>3, <2>1, <2>3
<1>11. ASSUME NEW m \in MessageObjects, NEW o \in MessageObjects, CopyNew(m, o)
       PROVE  heap' \in [Blocks -> Headers]
  <2>1. message[o] \in Blocks /\ heap' = Added(message[o])
      BY <1>11 DEF CopyNew
  <2>2. heap[message[o]].reference_count + 1 \in Int
      BY <1>1, <2>1 DEF Headers
  <2>3. QED
      BY <1>4, <2>1, <2>2 DEF Added
<1>12. ASSUME NEW m \in MessageObjects, NEW o, Decrease(m, o), message[m] \in Blocks
       PROVE  heap' \in [Blocks -> Headers]
  <2>1. heap[message[m]].reference_count - 1 \in Int
      BY <1>1, <1>12 DEF Headers
  <2>2. QED
      BY <1>4, <1>12, <2>1 DEF Decrease
<1>13. ASSUME NEW m \in MessageObjects, NEW o \in MessageObjects, CopyAssign(m, o)
       PROVE  heap' \in [Blocks -> Headers]
  <2>1. CASE message[m] = NullPtr
      BY <1>2, <1>13, <2>1 DEF CopyAssign
  <2>2. CASE message[m] # NullPtr
    <3>1. message[m] \in Blocks
        BY <1>13, <2>2 DEF CopyAssign, Usable, BufferTypes
    <3>2. QED
        BY <1>12, <1>13, <2>2, <3>1 DEF CopyAssign
  <2>3. QED
      BY <2>1, <2>2
<1>14. ASSUME NEW m \in MessageObjects, Delete(m) PROVE heap' \in [Blocks -> Headers]
  <2>1. CASE message[m] = NullPtr
      BY <1>2, <1>14, <2>1 DEF Delete
  <2>2. CASE message[m] # NullPtr
    <3>1. message[m] \in Blocks
        BY <1>14, <2>2 DEF Delete, Usable, BufferTypes
    <3>2. QED
        BY <1>12, <1>14, <2>2, <3>1 DEF Delete
  <2>3. QED
      BY <2>1, <2>2
<1>15. ASSUME NEW m \in MessageObjects, Finish(m) PROVE heap' \in [Blocks -> Headers]
  <2> DEFINE freed == IF task[m].last THEN [heap EXCEPT ![message[m]] = Freed] ELSE heap
             b == message[task[m].from]
  <2>1. freed \in [Blocks -> Headers]
      BY <1>1, FreedType
  <2>2. heap' = IF task[m].from = NoObject THEN freed
                ELSE [freed EXCEPT ![b].reference_count = @ + 1]
      BY <1>15 DEF Finish, HeapAfter
  <2> HIDE DEF freed, b
  <2>3. [freed EXCEPT ![b].reference_count = @ + 1] \in [Blocks -> Headers]
    <3>1. CASE b \in Blocks
        BY <2>1, <3>1 DEF Headers
    <3>2. CASE b \notin Blocks
        BY <2>1, <3>2
    <3>3. QED
        BY <3>1, <3>2
  <2>4. QED
      BY <2>1, <2>2, <2>3
<1>16. QED
    BY <1>2, <1>5, <1>6, <1>7, <1>8, <1>9, <1>10, <1>11, <1>13, <1>14, <1>15
       DEF BuffersNext, Building, Sharing, MoveNew, MoveAssign


LEMMA TasksKeepType ==
    ASSUME BufferTypes, BuffersNext
    PROVE  task' \in [MessageObjects -> Tasks]
<1>1. task \in [MessageObjects -> Tasks]
    BY DEF BufferTypes
<1>2. CASE UNCHANGED task
    BY <1>1, <1>2
<1>3. ASSUME NEW m, NEW t \in Tasks, task' = [task EXCEPT ![m] = t]
      PROVE  task' \in [MessageObjects -> Tasks]
    BY <1>1, <1>3
<1>4. ASSUME NEW m, NEW o \in MessageObjects \cup {NoObject}, Decrease(m, o)
      PROVE  task' \in [MessageObjects -> Tasks]
  <2> DEFINE last == heap[message[m]].reference_count = 1
             t == [decreased |-> TRUE, last |-> last, from |-> o]
  <2>1. last \in BOOLEAN
      OBVIOUS
  <2>2. task' = [task EXCEPT ![m] = t]
      BY <1>4 DEF Decrease
  <2> HIDE DEF last
  <2>3. t \in Tasks
      BY <2>1 DEF Tasks
  <2> HIDE DEF t
  <2>4. QED
      BY <1>3, <2>2, <2>3
<1>5. ASSUME NEW m \in MessageObjects, NEW o \in MessageObjects, CopyAssign(m, o)
      PROVE  task' \in [MessageObjects -> Tasks]
  <2> DEFINE t == [NoTask EXCEPT !.from = o]
  <2>1. t \in Tasks
      BY NoTaskType DEF Tasks
  <2>2. CASE message[m] = NullPtr
    <3>1. task' = [task EXCEPT ![m] = t]
        BY <1>5, <2>2 DEF CopyAssign
    <3> HIDE DEF t
    <3>2. QED
        BY <1>3, <2>1, <3>1
  <2>3. CASE message[m] # NullPtr
      BY <1>4, <1>5, <2>3 DEF CopyAssign
  <2>4. QED
      BY <2>2, <2>3
<1>6. ASSUME NEW m \in MessageObjects, Delete(m)
      PROVE  task' \in [MessageObjects -> Tasks]
    BY <1>2, <1>4, <1>6 DEF Delete
<1>7. ASSUME NEW m \in MessageObjects, Finish(m)
      PROVE  task' \in [MessageObjects -> Tasks]
    BY <1>3, <1>7, NoTaskType DEF Finish
<1>8. QED
    BY <1>2, <1>5, <1>6, <1>7
       DEF BuffersNext, Building, Sharing, NewBuilder, Write, ExpandAndWrite,
           Release, DeleteBuilder, New, CopyNew, MoveNew, MoveAssign

LEMMA PointersKeepType ==
    ASSUME BufferTypes, BuffersNext
    PROVE  /\ builder' \in Blocks \cup {NullPtr, NoObject}
           /\ message' \in [MessageObjects -> Blocks \cup {NullPtr, NoObject}]
<1> DEFINE P == Blocks \cup {NullPtr, NoObject}
<1>1. builder \in P /\ message \in [MessageObjects -> P]
    BY DEF BufferTypes
<1>2. CASE Building
    BY <1>1, <1>2 DEF Building, NewBuilder, Write, ExpandAndWrite, Release,
                      DeleteBuilder, Allocatable
<1>3. CASE Sharing
  <2>1. builder' = builder
      BY <1>3 DEF Sharing, New, CopyNew, MoveNew, MoveAssign, CopyAssign, Delete,
                  Finish, Decrease
  <2>2. ASSUME NEW m \in MessageObjects, Finish(m) PROVE message' \in [MessageObjects -> P]
    <3>1. task[m].from \in MessageObjects \cup {NoObject}
        BY DEF BufferTypes, Tasks
    <3>2. QED
        BY <1>1, <2>2, <3>1 DEF Finish
  <2>3. message' \in [MessageObjects -> P]
      BY <1>1, <1>3, <2>2 DEF Sharing, New, CopyNew, MoveNew, MoveAssign, CopyAssign,
                              Delete, Decrease, Allocatable
  <2>4. QED
      BY <1>1, <2>1, <2>3
<1>4. QED
    BY <1>2, <1>3 DEF BuffersNext

LEMMA NextTypes == BufferTypes /\ [BuffersNext]_bufferVars => BufferTypes'
<1> SUFFICES ASSUME BufferTypes, [BuffersNext]_bufferVars PROVE BufferTypes'
    OBVIOUS
<1>1. CASE BuffersNext
    BY <1>1, HeapKeepsType, TasksKeepType, PointersKeepType DEF BufferTypes
<1>2. CASE UNCHANGED bufferVars
    BY <1>2 DEF BufferTypes, bufferVars
<1>3. QED
    BY <1>1, <1>2

-----------------------------------------------------------------------------
(* Buffers: sizes.                                                         *)

\* What was written into each block fits into it.
PiecesFit == \A b \in Blocks : heap[b].binary_size <= heap[b].binary_capacity

\* A block that is being filled can be doubled.
CanGrow ==
    \A b \in Blocks :
        heap[b].alive /\ ~heap[b].is_reference_count_enabled =>
            heap[b].binary_capacity > 0

LEMMA InitFits == BuffersInit => PiecesFit
BY DEF BuffersInit, PiecesFit, Freed, Header

LEMMA NextFits ==
    BufferTypes /\ PiecesFit /\ [BuffersNext]_bufferVars => PiecesFit'
<1> SUFFICES ASSUME BufferTypes, PiecesFit, [BuffersNext]_bufferVars PROVE PiecesFit'
    OBVIOUS
<1>1. \A b \in Blocks : /\ heap[b].binary_size \in Nat
                        /\ heap[b].binary_capacity \in Nat
                        /\ heap[b].binary_size <= heap[b].binary_capacity
    BY SizesAreNatural DEF BufferTypes, Headers, PiecesFit
<1>2. heap \in [Blocks -> Headers]
    BY DEF BufferTypes
<1>3. Freed.binary_size = 0 /\ Freed.binary_capacity = 0
    BY DEF Freed, Header
<1>4. CASE \A b \in Blocks : /\ heap'[b].binary_size = heap[b].binary_size
                             /\ heap'[b].binary_capacity = heap[b].binary_capacity
    BY <1>1, <1>4 DEF PiecesFit
<1>5. CASE NewBuilder
    BY <1>1, <1>2, <1>5, SizesAreNatural DEF NewBuilder, Header, PiecesFit
<1>6. ASSUME NEW n \in Sizes, Write(n) PROVE PiecesFit'
    BY <1>1, <1>2, <1>6 DEF Write, Fits, Headers, PiecesFit
<1>7. ASSUME NEW n \in Sizes, ExpandAndWrite(n) PROVE PiecesFit'
  <2> DEFINE size == heap[builder].binary_size + n
  <2>1. PICK capacity \in NewCapacity(heap[builder].binary_capacity, size) :
          \E b \in Allocatable(capacity) \cup {c \in {builder} : capacity <= Memory} :
            heap' = [heap EXCEPT ![builder] = Freed, ![b] = Header(size, capacity)]
      BY <1>7 DEF ExpandAndWrite
  <2>2. PICK b \in Allocatable(capacity) \cup {c \in {builder} : capacity <= Memory} :
            heap' = [heap EXCEPT ![builder] = Freed, ![b] = Header(size, capacity)]
      BY <2>1
  <2>3. builder \in Blocks
      BY <1>7 DEF ExpandAndWrite
  <2>4. size \in Nat
      BY <1>1, <2>3, SizesAreNatural
  <2> HIDE DEF size
  <2>5. size <= capacity
      BY <1>1, <2>1, <2>3, <2>4, CapacityIsEnough
  <2>6. /\ Header(size, capacity).binary_size = size
        /\ Header(size, capacity).binary_capacity = capacity
      BY DEF Header
  <2>7. ASSUME NEW c \in Blocks
        PROVE  heap'[c] \in {heap[c], Freed, Header(size, capacity)}
      BY <1>2, <2>2
  <2>8. ASSUME NEW c \in Blocks
        PROVE  heap'[c].binary_size <= heap'[c].binary_capacity
      BY <1>1, <1>3, <2>5, <2>6, <2>7
  <2>9. QED
      BY <2>8 DEF PiecesFit
<1>8. CASE DeleteBuilder
    BY <1>1, <1>3, <1>8 DEF DeleteBuilder, PiecesFit
<1>9. ASSUME NEW m \in MessageObjects, NEW n \in Sizes, New(m, n) PROVE PiecesFit'
  <2>1. PICK b \in Blocks : heap' = [heap EXCEPT ![b] = Enabled(Header(n, n))]
      BY <1>9 DEF New, Allocatable
  <2>2. n \in Nat
      BY SizesAreNatural
  <2>3. /\ Enabled(Header(n, n)).binary_size = n
        /\ Enabled(Header(n, n)).binary_capacity = n
      BY DEF Enabled, Header
  <2>4. QED
      BY <1>1, <1>2, <2>1, <2>2, <2>3 DEF PiecesFit
<1>10. ASSUME NEW m \in MessageObjects, Finish(m) PROVE PiecesFit'
  <2> DEFINE freed == IF task[m].last THEN [heap EXCEPT ![message[m]] = Freed] ELSE heap
             b == message[task[m].from]
  <2>1. freed \in [Blocks -> Headers]
      BY <1>2, FreedType
  <2>2. \A c \in Blocks : freed[c] \in {heap[c], Freed}
      BY <1>2
  <2>3. heap' = IF task[m].from = NoObject THEN freed
                ELSE [freed EXCEPT ![b].reference_count = @ + 1]
      BY <1>10 DEF Finish, HeapAfter
  <2> HIDE DEF freed, b
  <2>4. ASSUME NEW c \in Blocks
        PROVE  /\ heap'[c].binary_size = freed[c].binary_size
               /\ heap'[c].binary_capacity = freed[c].binary_capacity
      BY <2>1, <2>3 DEF Headers
  <2>5. QED
      BY <1>1, <1>3, <2>2, <2>4 DEF PiecesFit
<1>11. ASSUME NEW m \in MessageObjects, Release(m) PROVE PiecesFit'
    BY <1>2, <1>4, <1>11 DEF Release, Enabled, Headers
<1>12. ASSUME NEW m \in MessageObjects,
              heap' = Added(message[m])
              \/ heap' = [heap EXCEPT ![message[m]].reference_count = @ - 1]
       PROVE PiecesFit'
    BY <1>2, <1>4, <1>12 DEF Added, Headers
<1>13. CASE UNCHANGED heap
    BY <1>4, <1>13
<1>14. QED
    BY <1>5, <1>6, <1>7, <1>8, <1>9, <1>10, <1>11, <1>12, <1>13
       DEF BuffersNext, Building, Sharing, CopyNew, MoveNew, MoveAssign, CopyAssign,
           Delete, Decrease, bufferVars

LEMMA InitGrow == BuffersInit => CanGrow
BY DEF BuffersInit, CanGrow, Freed, Header

LEMMA NextGrow ==
    BufferTypes /\ PiecesFit /\ CanGrow /\ [BuffersNext]_bufferVars => CanGrow'
<1> SUFFICES ASSUME BufferTypes, PiecesFit, CanGrow, [BuffersNext]_bufferVars
             PROVE  CanGrow'
    OBVIOUS
<1> DEFINE Grows(h) == h.alive /\ ~h.is_reference_count_enabled =>
                            h.binary_capacity > 0
<1>1. heap \in [Blocks -> Headers]
    BY DEF BufferTypes
<1>2. \A b \in Blocks : Grows(heap[b])
    BY DEF CanGrow
<1>3. Grows(Freed)
    BY DEF Freed, Header
<1>4. ASSUME \A b \in Blocks : \/ Grows(heap'[b])
                               \/ /\ heap'[b].alive = heap[b].alive
                                  /\ heap'[b].is_reference_count_enabled =
                                         heap[b].is_reference_count_enabled
                                  /\ heap'[b].binary_capacity = heap[b].binary_capacity
      PROVE  CanGrow'
    BY <1>2, <1>4 DEF CanGrow
<1>5. CASE NewBuilder
  <2>1. PICK b \in Blocks : heap' = [heap EXCEPT ![b] = Header(0, InitialCapacity)]
      BY <1>5 DEF NewBuilder, Allocatable
  <2>2. Grows(Header(0, InitialCapacity))
      BY SizesAssumption DEF Header
  <2> HIDE DEF Grows
  <2>3. QED
      BY <1>1, <1>2, <1>4, <2>1, <2>2
<1>6. ASSUME NEW n \in Sizes, Write(n) PROVE CanGrow'
    BY <1>1, <1>4, <1>6 DEF Write, Headers
<1>7. ASSUME NEW n \in Sizes, ExpandAndWrite(n) PROVE CanGrow'
  <2> DEFINE size == heap[builder].binary_size + n
  <2>1. PICK capacity \in NewCapacity(heap[builder].binary_capacity, size) :
          \E b \in Allocatable(capacity) \cup {c \in {builder} : capacity <= Memory} :
            heap' = [heap EXCEPT ![builder] = Freed, ![b] = Header(size, capacity)]
      BY <1>7 DEF ExpandAndWrite
  <2>2. PICK b \in Allocatable(capacity) \cup {c \in {builder} : capacity <= Memory} :
            heap' = [heap EXCEPT ![builder] = Freed, ![b] = Header(size, capacity)]
      BY <2>1
  <2>3. builder \in Blocks /\ ~Fits(builder, n)
      BY <1>7 DEF ExpandAndWrite
  <2>4. /\ size \in Nat /\ heap[builder].binary_capacity \in Nat
        /\ size > heap[builder].binary_capacity
      BY <1>1, <2>3, SizesAreNatural DEF Headers, Fits
  <2> HIDE DEF size
  <2>5. capacity > 0
      BY <2>1, <2>4, CapacityIsEnough
  <2>6. Grows(Header(size, capacity))
      BY <2>5 DEF Header
  <2>7. ASSUME NEW c \in Blocks
        PROVE  heap'[c] \in {heap[c], Freed, Header(size, capacity)}
      BY <1>1, <2>2
  <2> HIDE DEF Grows
  <2>8. QED
      BY <1>2, <1>3, <1>4, <2>6, <2>7
<1>8. CASE DeleteBuilder
    BY <1>3, <1>4, <1>8 DEF DeleteBuilder
<1>9. ASSUME NEW m \in MessageObjects, NEW n \in Sizes, New(m, n) PROVE CanGrow'
  <2>1. PICK b \in Blocks : heap' = [heap EXCEPT ![b] = Enabled(Header(n, n))]
      BY <1>9 DEF New, Allocatable
  <2>2. Grows(Enabled(Header(n, n)))
      BY DEF Enabled, Header
  <2> HIDE DEF Grows
  <2>3. QED
      BY <1>1, <1>2, <1>4, <2>1, <2>2
<1>10. ASSUME NEW m \in MessageObjects, Finish(m) PROVE CanGrow'
  <2> DEFINE freed == IF task[m].last THEN [heap EXCEPT ![message[m]] = Freed] ELSE heap
             b == message[task[m].from]
  <2>1. freed \in [Blocks -> Headers]
      BY <1>1, FreedType
  <2>2. \A c \in Blocks : freed[c] \in {heap[c], Freed}
      BY <1>1
  <2>3. heap' = IF task[m].from = NoObject THEN freed
                ELSE [freed EXCEPT ![b].reference_count = @ + 1]
      BY <1>10 DEF Finish, HeapAfter
  <2> HIDE DEF freed, b
  <2>4. ASSUME NEW c \in Blocks
        PROVE  /\ heap'[c].alive = freed[c].alive
               /\ heap'[c].is_reference_count_enabled =
                      freed[c].is_reference_count_enabled
               /\ heap'[c].binary_capacity = freed[c].binary_capacity
      BY <2>1, <2>3 DEF Headers
  <2>5. QED
      BY <1>3, <1>4, <2>2, <2>4
<1>11. ASSUME NEW m \in MessageObjects, Release(m) PROVE CanGrow'
  <2>1. heap' = [heap EXCEPT ![builder] = Enabled(heap[builder])] /\ builder \in Blocks
      BY <1>11 DEF Release
  <2>2. Grows(Enabled(heap[builder]))
      BY <1>1, <2>1 DEF Enabled, Headers
  <2> HIDE DEF Grows
  <2>3. QED
      BY <1>1, <1>2, <1>4, <2>1, <2>2
<1>12. ASSUME NEW m \in MessageObjects,
              heap' = Added(message[m])
              \/ heap' = [heap EXCEPT ![message[m]].reference_count = @ - 1]
       PROVE CanGrow'
    BY <1>1, <1>4, <1>12 DEF Added, Headers
<1>13. CASE UNCHANGED heap
    BY <1>4, <1>13
<1>14. QED
    BY <1>5, <1>6, <1>7, <1>8, <1>9, <1>10, <1>11, <1>12, <1>13
       DEF BuffersNext, Building, Sharing, CopyNew, MoveNew, MoveAssign, CopyAssign,
           Delete, Decrease, bufferVars

-----------------------------------------------------------------------------
(* Buffers: who owns a block.                                              *)

\* The messages that took the count of block b to zero, and are to free it.
Freeing(b) == {m \in MessageObjects : message[m] = b /\ task[m].last}

\* A header h of block b, with the builder, the messages that count and those
\* that are to free the block.
OwnedBy(h, building, b, holders, freeing) ==
    /\ IsFiniteSet(holders)
    /\ h.alive /\ h.is_reference_count_enabled =>
          /\ building # b
          /\ h.reference_count = Cardinality(holders)
          /\ holders # {} => freeing = {}
          /\ holders = {} => \E m \in freeing : freeing = {m}
    /\ h.alive /\ ~h.is_reference_count_enabled =>
          building = b /\ holders = {} /\ freeing = {}
    /\ ~h.alive => building # b /\ holders = {} /\ freeing = {}

Owned == \A b \in Blocks : OwnedBy(heap[b], builder, b, Holders(b), Freeing(b))

\* A decrease is one of a block; the source of an assignment stays as it is.
TaskSound(m) ==
    /\ task[m].decreased => message[m] \in Blocks
    /\ task[m].last => task[m].decreased
    /\ task[m].from # NoObject =>
          /\ task[m].decreased \/ message[m] = NullPtr
          /\ task[m].from # m
          /\ Idle(task[m].from) /\ message[task[m].from] \in Blocks

TasksSound == \A m \in MessageObjects : TaskSound(m)

\* What the count tells.
LEMMA OwnedIsEnough == Owned => BlocksAreOwned
<1> SUFFICES ASSUME Owned, NEW b \in Blocks
             PROVE  IF heap[b].alive
                    THEN IF heap[b].is_reference_count_enabled
                         THEN /\ heap[b].reference_count = Cardinality(Holders(b))
                              /\ Cardinality(Freeing(b)) =
                                     (IF Holders(b) = {} THEN 1 ELSE 0)
                              /\ builder # b
                         ELSE builder = b /\ Holders(b) = {}
                    ELSE builder # b /\ Holders(b) = {} /\ Freeing(b) = {}
    BY Zenon DEF BlocksAreOwned, Freeing
<1>1. OwnedBy(heap[b], builder, b, Holders(b), Freeing(b))
    BY DEF Owned
<1>2. \A m : Cardinality({m}) = 1
    BY FS_Singleton
<1>3. Cardinality({}) = 0
    BY FS_EmptySet
<1>4. QED
    BY <1>1, <1>2, <1>3, Zenon DEF OwnedBy

\* A block that a new message holds.
LEMMA OwnedByOne ==
    ASSUME NEW h, NEW building, NEW b, NEW m,
           h.is_reference_count_enabled, h.alive, h.reference_count = 1,
           building # b
    PROVE  OwnedBy(h, building, b, {m}, {})
<1>1. IsFiniteSet({m}) /\ Cardinality({m}) = 1
    BY FS_Singleton
<1>2. QED
    BY <1>1 DEF OwnedBy

\* One more message holds a shared block.
LEMMA OwnedByMore ==
    ASSUME NEW h, NEW building, NEW b, NEW holders, NEW freeing, NEW m, NEW g,
           OwnedBy(h, building, b, holders, freeing),
           holders # {}, m \notin holders,
           g.alive = h.alive,
           g.is_reference_count_enabled = h.is_reference_count_enabled,
           g.reference_count = h.reference_count + 1
    PROVE  OwnedBy(g, building, b, holders \cup {m}, freeing)
<1>1. IsFiniteSet(holders)
    BY DEF OwnedBy
<1>2. /\ IsFiniteSet(holders \cup {m})
      /\ Cardinality(holders \cup {m}) = Cardinality(holders) + 1
    BY <1>1, FS_AddElement
<1>3. /\ h.alive /\ h.is_reference_count_enabled /\ building # b
      /\ h.reference_count = Cardinality(holders) /\ freeing = {}
    BY DEF OwnedBy
<1>4. g.reference_count = Cardinality(holders \cup {m})
    BY <1>2, <1>3
<1>5. g.alive /\ g.is_reference_count_enabled
    BY <1>3
<1>6. holders \cup {m} # {}
    OBVIOUS
<1>7. QED
    BY <1>2, <1>3, <1>4, <1>5, <1>6, Zenon DEF OwnedBy

\* A message begins to give its block up.
LEMMA OwnedByFewer ==
    ASSUME NEW h, NEW building, NEW b, NEW holders, NEW freeing, NEW m, NEW g,
           OwnedBy(h, building, b, holders, freeing),
           m \in holders,
           g.alive = h.alive,
           g.is_reference_count_enabled = h.is_reference_count_enabled,
           g.reference_count = h.reference_count - 1
    PROVE  OwnedBy(g, building, b, holders \ {m},
                   freeing \cup (IF h.reference_count = 1 THEN {m} ELSE {}))
<1> DEFINE added == IF h.reference_count = 1 THEN {m} ELSE {}
<1>1. IsFiniteSet(holders)
    BY DEF OwnedBy
<1>2. /\ IsFiniteSet(holders \ {m})
      /\ Cardinality(holders \ {m}) = Cardinality(holders) - 1
    BY <1>1, FS_RemoveElement
<1>3. /\ h.alive /\ h.is_reference_count_enabled /\ building # b
      /\ h.reference_count = Cardinality(holders) /\ freeing = {}
    BY DEF OwnedBy
<1>4. g.reference_count = Cardinality(holders \ {m})
    BY <1>2, <1>3
<1>5. g.alive /\ g.is_reference_count_enabled
    BY <1>3
<1>6. Cardinality(holders) \in Nat
    BY <1>1, FS_CardinalityType
<1>7. holders \ {m} = {} <=> h.reference_count = 1
  <2>1. holders \ {m} = {} <=> Cardinality(holders \ {m}) = 0
      BY <1>2, FS_EmptySet
  <2>2. QED
      BY <1>2, <1>3, <1>6, <2>1
<1>8. freeing \cup added = IF holders \ {m} = {} THEN {m} ELSE {}
    BY <1>3, <1>7
<1>9. OwnedBy(g, building, b, holders \ {m}, IF holders \ {m} = {} THEN {m} ELSE {})
    BY <1>2, <1>3, <1>4, <1>5, Zenon DEF OwnedBy
<1>10. QED
    BY <1>8, <1>9

\* One message takes the place of another.
LEMMA OwnedByOther ==
    ASSUME NEW h, NEW building, NEW b, NEW holders, NEW freeing, NEW m, NEW o,
           OwnedBy(h, building, b, holders, freeing),
           o \in holders, m \notin holders
    PROVE  OwnedBy(h, building, b, (holders \ {o}) \cup {m}, freeing)
<1>1. IsFiniteSet(holders)
    BY DEF OwnedBy
<1>2. /\ IsFiniteSet(holders \ {o})
      /\ Cardinality(holders \ {o}) = Cardinality(holders) - 1
    BY <1>1, FS_RemoveElement
<1>3. /\ IsFiniteSet((holders \ {o}) \cup {m})
      /\ Cardinality((holders \ {o}) \cup {m}) = Cardinality(holders \ {o}) + 1
    BY <1>2, FS_AddElement
<1>4. Cardinality((holders \ {o}) \cup {m}) = Cardinality(holders)
    BY <1>1, <1>2, <1>3, FS_CardinalityType
<1>5. /\ h.alive /\ h.is_reference_count_enabled /\ building # b
      /\ h.reference_count = Cardinality(holders) /\ freeing = {}
    BY DEF OwnedBy
<1>6. (holders \ {o}) \cup {m} # {}
    OBVIOUS
<1>7. QED
    BY <1>3, <1>4, <1>5, <1>6, Zenon DEF OwnedBy


-----------------------------------------------------------------------------
(* Buffers: decreases and assignments under way.                           *)

LEMMA InitSound == BuffersInit => TasksSound
BY DEF BuffersInit, TasksSound, TaskSound, NoTask

\* Messages that nobody decreases or reads are changed.
LEMMA SoundWithoutTask ==
    ASSUME BufferTypes, TasksSound, task' = task,
           \A x \in MessageObjects :
              message'[x] # message[x] =>
                 Idle(x) /\ (message'[x] \in Blocks \/ Unread(x))
    PROVE  TasksSound'
<1> SUFFICES ASSUME NEW q \in MessageObjects PROVE TaskSound(q)'
    BY DEF TasksSound
<1>1. TaskSound(q)
    BY DEF TasksSound
<1>2. task[q].from \in MessageObjects \cup {NoObject}
    BY DEF BufferTypes, Tasks
<1>3. /\ task[q].decreased => message'[q] \in Blocks
      /\ task[q].from # NoObject => task[q].decreased \/ message'[q] = NullPtr
    BY <1>1 DEF TaskSound, Idle
<1>4. task[q].from # NoObject => message'[task[q].from] \in Blocks
    BY <1>1, <1>2 DEF TaskSound, Unread
<1>5. QED
    BY <1>1, <1>3, <1>4 DEF TaskSound, Idle

\* A task of a message begins.
LEMMA SoundAtBegin ==
    ASSUME BufferTypes, TasksSound, message' = message,
           NEW m \in MessageObjects, Unread(m), NEW t, task' = [task EXCEPT ![m] = t],
           t.decreased => message[m] \in Blocks,
           t.last => t.decreased, t.decreased \/ message[m] = NullPtr,
           t.from # NoObject => /\ t.from \in MessageObjects /\ t.from # m
                                /\ Idle(t.from) /\ message[t.from] \in Blocks
    PROVE  TasksSound'
<1> SUFFICES ASSUME NEW q \in MessageObjects PROVE TaskSound(q)'
    BY DEF TasksSound
<1>1. task'[m] = t /\ \A x \in MessageObjects \ {m} : task'[x] = task[x]
    BY DEF BufferTypes
<1>2. CASE q = m
  <2>1. t.from # NoObject => ~task'[t.from].decreased /\ task'[t.from].from = NoObject
      BY <1>1 DEF Idle
  <2>2. QED
      BY <1>1, <1>2, <2>1 DEF TaskSound, Idle
<1>3. CASE q # m
  <2>1. TaskSound(q) /\ task'[q] = task[q]
      BY <1>1, <1>3 DEF TasksSound
  <2>2. task[q].from \in MessageObjects \cup {NoObject} /\ task[q].from # m
      BY DEF BufferTypes, Tasks, Unread
  <2>3. task[q].from # NoObject => task'[task[q].from] = task[task[q].from]
      BY <1>1, <2>2
  <2>4. QED
      BY <2>1, <2>3 DEF TaskSound, Idle
<1>4. QED
    BY <1>2, <1>3

LEMMA SoundAtDecrease ==
    ASSUME BufferTypes, TasksSound,
           NEW m \in MessageObjects, Unread(m), message[m] \in Blocks,
           NEW o \in MessageObjects \cup {NoObject},
           o # NoObject => o # m /\ Idle(o) /\ message[o] \in Blocks,
           Decrease(m, o)
    PROVE  TasksSound'
<1> DEFINE last == heap[message[m]].reference_count = 1
           t == [decreased |-> TRUE, last |-> last, from |-> o]
<1>1. /\ task' = [task EXCEPT ![m] = t] /\ message' = message
    BY DEF Decrease
<1>2. t.decreased /\ t.from = o
    OBVIOUS
<1> HIDE DEF t
<1>3. QED
    BY <1>1, <1>2, SoundAtBegin

LEMMA NextSound ==
    BufferTypes /\ TasksSound /\ [BuffersNext]_bufferVars => TasksSound'
<1> SUFFICES ASSUME BufferTypes, TasksSound, [BuffersNext]_bufferVars PROVE TasksSound'
    OBVIOUS
<1>1. message \in [MessageObjects -> Blocks \cup {NullPtr, NoObject}]
    BY DEF BufferTypes
<1>2. ASSUME NEW m \in MessageObjects, message[m] = NoObject
      PROVE  Idle(m) /\ Unread(m)
  <2>1. Idle(m)
      BY <1>2, Pointers DEF TasksSound, TaskSound, Idle
  <2>2. ASSUME NEW q \in MessageObjects PROVE task[q].from # m
      BY <1>2, Pointers DEF TasksSound, TaskSound
  <2>3. QED
      BY <2>1, <2>2 DEF Unread
<1>3. CASE Building
  <2>1. /\ task' = task
        /\ \A x \in MessageObjects : message'[x] # message[x] =>
              message[x] = NoObject /\ message'[x] \in Blocks
      BY <1>1, <1>3 DEF Building, NewBuilder, Write, ExpandAndWrite, Release, DeleteBuilder
  <2>2. QED
      BY <1>2, <2>1, SoundWithoutTask
<1>4. ASSUME NEW m \in MessageObjects, NEW n \in Sizes, New(m, n) PROVE TasksSound'
  <2>1. /\ task' = task
        /\ \A x \in MessageObjects : message'[x] # message[x] =>
              message[x] = NoObject /\ message'[x] \in Blocks
      BY <1>1, <1>4 DEF New, Allocatable
  <2>2. QED
      BY <1>2, <2>1, SoundWithoutTask
<1>5. ASSUME NEW m \in MessageObjects, NEW o \in MessageObjects, CopyNew(m, o)
      PROVE  TasksSound'
  <2>1. /\ task' = task
        /\ \A x \in MessageObjects : message'[x] # message[x] =>
              message[x] = NoObject /\ message'[x] \in Blocks
      BY <1>1, <1>5 DEF CopyNew
  <2>2. QED
      BY <1>2, <2>1, SoundWithoutTask
<1>6. ASSUME NEW m \in MessageObjects, NEW o \in MessageObjects,
             MoveNew(m, o) \/ MoveAssign(m, o)
      PROVE  TasksSound'
  <2>1. /\ task' = task
        /\ \A x \in MessageObjects : message'[x] # message[x] => x \in {m, o}
      BY <1>1, <1>6 DEF MoveNew, MoveAssign
  <2>2. Idle(m) /\ Unread(m) /\ Idle(o) /\ Unread(o)
      BY <1>2, <1>6 DEF MoveNew, MoveAssign, Usable
  <2>3. QED
      BY <2>1, <2>2, SoundWithoutTask
<1>7. ASSUME NEW m \in MessageObjects, NEW o \in MessageObjects, CopyAssign(m, o)
      PROVE  TasksSound'
  <2>1. /\ Unread(m) /\ message[m] \in Blocks \cup {NullPtr}
        /\ o # m /\ Idle(o) /\ message[o] \in Blocks
      BY <1>1, <1>7 DEF CopyAssign, Usable
  <2>2. CASE message[m] = NullPtr
    <3> DEFINE t == [NoTask EXCEPT !.from = o]
    <3>1. task' = [task EXCEPT ![m] = t] /\ message' = message
        BY <1>7, <2>2 DEF CopyAssign
    <3>2. ~t.decreased /\ ~t.last /\ t.from = o
        BY DEF NoTask
    <3> HIDE DEF t
    <3>3. QED
        BY <2>1, <2>2, <3>1, <3>2, SoundAtBegin
  <2>3. CASE message[m] # NullPtr
      BY <1>7, <2>1, <2>3, SoundAtDecrease DEF CopyAssign
  <2>4. QED
      BY <2>2, <2>3
<1>8. ASSUME NEW m \in MessageObjects, Delete(m) PROVE TasksSound'
  <2>1. Unread(m) /\ Idle(m) /\ message[m] \in Blocks \cup {NullPtr}
      BY <1>1, <1>8 DEF Delete, Usable
  <2>2. CASE message[m] = NullPtr
    <3>1. /\ task' = task
          /\ \A x \in MessageObjects : message'[x] # message[x] => x = m
        BY <1>1, <1>8, <2>2 DEF Delete
    <3>2. QED
        BY <2>1, <3>1, SoundWithoutTask
  <2>3. CASE message[m] # NullPtr
      BY <1>8, <2>1, <2>3, SoundAtDecrease DEF Delete
  <2>4. QED
      BY <2>2, <2>3
<1>9. ASSUME NEW m \in MessageObjects, Finish(m) PROVE TasksSound'
  <2> SUFFICES ASSUME NEW q \in MessageObjects PROVE TaskSound(q)'
      BY DEF TasksSound
  <2>1. /\ ~Idle(m) /\ task'[m] = NoTask
        /\ \A x \in MessageObjects \ {m} : task'[x] = task[x] /\ message'[x] = message[x]
      BY <1>1, <1>9 DEF Finish, BufferTypes
  <2>2. CASE q = m
      BY <2>1, <2>2 DEF TaskSound, NoTask
  <2>3. CASE q # m
    <3>1. TaskSound(q) /\ task'[q] = task[q] /\ message'[q] = message[q]
        BY <2>1, <2>3 DEF TasksSound
    <3>2. task[q].from \in MessageObjects \cup {NoObject}
        BY DEF BufferTypes, Tasks
    <3>3. task[q].from # NoObject => task[q].from # m
        BY <2>1, <3>1 DEF TaskSound
    <3>4. task[q].from # NoObject => /\ task'[task[q].from] = task[task[q].from]
                                     /\ message'[task[q].from] = message[task[q].from]
        BY <2>1, <3>2, <3>3
    <3>5. QED
        BY <3>1, <3>4 DEF TaskSound, Idle
  <2>4. QED
      BY <2>2, <2>3
<1>10. CASE UNCHANGED bufferVars
    BY <1>10, SoundWithoutTask DEF bufferVars
<1>11. QED
    BY <1>3, <1>4, <1>5, <1>6, <1>7, <1>8, <1>9, <1>10 DEF BuffersNext, Sharing


-----------------------------------------------------------------------------
(* Buffers: every step keeps the owners.                                   *)

\* A block of the builder, and a block of nobody.
LEMMA OwnedByBuilder ==
    ASSUME NEW h, NEW building, NEW b,
           h.alive, ~h.is_reference_count_enabled, building = b
    PROVE  OwnedBy(h, building, b, {}, {})
BY FS_EmptySet DEF OwnedBy

LEMMA OwnedByNone ==
    ASSUME NEW h, NEW building, NEW b, ~h.alive, building # b
    PROVE  OwnedBy(h, building, b, {}, {})
BY FS_EmptySet DEF OwnedBy

\* The size of the block, and where the builder is if it is not here.
LEMMA OwnedBySame ==
    ASSUME NEW h, NEW building, NEW b, NEW holders, NEW freeing, NEW g, NEW elsewhere,
           OwnedBy(h, building, b, holders, freeing),
           elsewhere = b <=> building = b,
           g.alive = h.alive,
           g.is_reference_count_enabled = h.is_reference_count_enabled,
           g.reference_count = h.reference_count
    PROVE  OwnedBy(g, elsewhere, b, holders, freeing)
BY DEF OwnedBy

LEMMA InitOwned == BuffersInit => Owned
<1> SUFFICES ASSUME BuffersInit, NEW b \in Blocks
             PROVE  OwnedBy(heap[b], builder, b, Holders(b), Freeing(b))
    BY DEF Owned
<1>1. ~heap[b].alive
    BY DEF BuffersInit, Freed, Header
<1>2. builder # b
    BY Pointers DEF BuffersInit
<1>3. Holders(b) = {} /\ Freeing(b) = {}
    BY Pointers DEF BuffersInit, Holders, Freeing
<1>4. OwnedBy(heap[b], builder, b, {}, {})
    BY <1>1, <1>2, OwnedByNone
<1>5. QED
    BY <1>3, <1>4

LEMMA BuildingOwned ==
    ASSUME BufferTypes, TasksSound, Owned, Building
    PROVE  Owned'
<1> SUFFICES ASSUME NEW b \in Blocks
             PROVE  OwnedBy(heap'[b], builder', b, Holders(b)', Freeing(b)')
    BY DEF Owned
<1>1. \A c \in Blocks : OwnedBy(heap[c], builder, c, Holders(c), Freeing(c))
    BY DEF Owned
<1>2. heap \in [Blocks -> Headers]
    BY DEF BufferTypes
<1>3. ASSUME UNCHANGED <<message, task>>
      PROVE  Holders(b)' = Holders(b) /\ Freeing(b)' = Freeing(b)
    BY <1>3 DEF Holders, Freeing
<1>4. \A c \in Blocks : ~heap[c].alive => Holders(c) = {} /\ Freeing(c) = {} /\ builder # c
    BY <1>1 DEF OwnedBy
<1>5. builder \in Blocks => /\ Holders(builder) = {} /\ Freeing(builder) = {}
                            /\ heap[builder].alive
                            /\ ~heap[builder].is_reference_count_enabled
    BY <1>1 DEF OwnedBy
<1>6. ASSUME heap'[b] = heap[b], builder' = b <=> builder = b,
             Holders(b)' = Holders(b), Freeing(b)' = Freeing(b)
      PROVE  OwnedBy(heap'[b], builder', b, Holders(b)', Freeing(b)')
  <2>1. OwnedBy(heap[b], builder', b, Holders(b), Freeing(b))
      BY <1>1, <1>6, OwnedBySame
  <2>2. QED
      BY <1>6, <2>1
<1>7. CASE NewBuilder
  <2>1. PICK c \in Blocks :
            /\ ~heap[c].alive /\ builder' = c
            /\ heap' = [heap EXCEPT ![c] = Header(0, InitialCapacity)]
      BY <1>7 DEF NewBuilder, Allocatable
  <2>2. builder # b
      BY <1>7, Pointers DEF NewBuilder
  <2>3. UNCHANGED <<message, task>>
      BY <1>7 DEF NewBuilder
  <2>4. CASE b = c
    <3>1. heap'[b].alive /\ ~heap'[b].is_reference_count_enabled
        BY <1>2, <2>1, <2>4 DEF Header
    <3>2. OwnedBy(heap'[b], builder', b, {}, {})
        BY <2>1, <2>4, <3>1, OwnedByBuilder
    <3>3. QED
        BY <1>3, <1>4, <2>1, <2>3, <2>4, <3>2
  <2>5. CASE b # c
    <3>1. heap'[b] = heap[b]
        BY <1>2, <2>1, <2>5
    <3>2. QED
        BY <1>3, <1>6, <2>1, <2>2, <2>3, <2>5, <3>1
  <2>6. QED
      BY <2>4, <2>5
<1>8. ASSUME NEW n \in Sizes, Write(n)
      PROVE  OwnedBy(heap'[b], builder', b, Holders(b)', Freeing(b)')
  <2>1. /\ heap'[b].alive = heap[b].alive
        /\ heap'[b].is_reference_count_enabled = heap[b].is_reference_count_enabled
        /\ heap'[b].reference_count = heap[b].reference_count
      BY <1>2, <1>8 DEF Write, Headers
  <2>2. builder' = builder /\ UNCHANGED <<message, task>>
      BY <1>8 DEF Write
  <2>3. OwnedBy(heap'[b], builder', b, Holders(b), Freeing(b))
      BY <1>1, <2>1, <2>2, OwnedBySame
  <2>4. QED
      BY <1>3, <2>2, <2>3
<1>9. ASSUME NEW n \in Sizes, ExpandAndWrite(n)
      PROVE  OwnedBy(heap'[b], builder', b, Holders(b)', Freeing(b)')
  <2> DEFINE size == heap[builder].binary_size + n
  <2>1. PICK capacity \in NewCapacity(heap[builder].binary_capacity, size) :
          \E c \in Allocatable(capacity) \cup {x \in {builder} : capacity <= Memory} :
            /\ heap' = [heap EXCEPT ![builder] = Freed, ![c] = Header(size, capacity)]
            /\ builder' = c
      BY <1>9 DEF ExpandAndWrite
  <2>2. PICK c \in Allocatable(capacity) \cup {x \in {builder} : capacity <= Memory} :
            /\ heap' = [heap EXCEPT ![builder] = Freed, ![c] = Header(size, capacity)]
            /\ builder' = c
      BY <2>1
  <2>3. builder \in Blocks /\ UNCHANGED <<message, task>>
      BY <1>9 DEF ExpandAndWrite
  <2>4. c \in Blocks /\ Holders(c) = {} /\ Freeing(c) = {}
      BY <1>4, <1>5, <2>2, <2>3 DEF Allocatable
  <2> HIDE DEF size
  <2>5. CASE b = c
    <3>1. heap'[b] = Header(size, capacity)
        BY <1>2, <2>2, <2>4, <2>5
    <3>2. heap'[b].alive /\ ~heap'[b].is_reference_count_enabled
        BY <3>1 DEF Header
    <3>3. OwnedBy(heap'[b], builder', b, {}, {})
        BY <2>2, <2>5, <3>2, OwnedByBuilder
    <3>4. QED
        BY <1>3, <2>3, <2>4, <2>5, <3>3
  <2>6. CASE b # c /\ b = builder
    <3>1. heap'[b] = Freed
        BY <1>2, <2>2, <2>4, <2>6
    <3>2. ~heap'[b].alive
        BY <3>1 DEF Freed, Header
    <3>3. OwnedBy(heap'[b], builder', b, {}, {})
        BY <2>2, <2>6, <3>2, OwnedByNone
    <3>4. QED
        BY <1>3, <1>5, <2>3, <2>6, <3>3
  <2>7. CASE b # c /\ b # builder
    <3>1. heap'[b] = heap[b]
        BY <1>2, <2>2, <2>4, <2>7
    <3>2. QED
        BY <1>3, <1>6, <2>2, <2>3, <2>7, <3>1
  <2>8. QED
      BY <2>5, <2>6, <2>7
<1>10. ASSUME NEW m \in MessageObjects, Release(m)
       PROVE  OwnedBy(heap'[b], builder', b, Holders(b)', Freeing(b)')
  <2>1. /\ builder \in Blocks /\ builder' = NullPtr /\ message[m] = NoObject
        /\ message' = [message EXCEPT ![m] = builder] /\ task' = task
        /\ heap' = [heap EXCEPT ![builder] = Enabled(heap[builder])]
      BY <1>10 DEF Release
  <2>2. /\ message'[m] = builder
        /\ \A x \in MessageObjects \ {m} : message'[x] = message[x]
      BY <2>1 DEF BufferTypes
  <2>3. ~task[m].decreased /\ ~task[m].last
      BY <2>1, Pointers DEF TasksSound, TaskSound
  <2>4. CASE b = builder
    <3>1. Holders(b)' = {m} /\ Freeing(b)' = {}
      <4>1. Holders(b) = {} /\ Freeing(b) = {}
          BY <1>5, <2>1, <2>4
      <4>2. QED
          BY <2>1, <2>2, <2>3, <2>4, <4>1 DEF Holders, Freeing
    <3>2. heap'[b] = Enabled(heap[b])
        BY <1>2, <2>1, <2>4
    <3>3. /\ heap'[b].is_reference_count_enabled /\ heap'[b].alive
          /\ heap'[b].reference_count = 1
        BY <1>2, <1>5, <2>1, <2>4, <3>2 DEF Enabled, Headers
    <3>4. OwnedBy(heap'[b], builder', b, {m}, {})
        BY <2>1, <3>3, Pointers, OwnedByOne
    <3>5. QED
        BY <3>1, <3>4
  <2>5. CASE b # builder
    <3>1. Holders(b)' = Holders(b) /\ Freeing(b)' = Freeing(b)
        BY <2>1, <2>2, <2>5, Pointers DEF Holders, Freeing
    <3>2. heap'[b] = heap[b] /\ builder' # b
        BY <1>2, <2>1, <2>5, Pointers
    <3>3. QED
        BY <1>6, <2>5, <3>1, <3>2
  <2>6. QED
      BY <2>4, <2>5
<1>11. CASE DeleteBuilder
  <2>1. /\ heap'[b] = (IF b = builder THEN Freed ELSE heap[b]) /\ builder' = NoObject
        /\ UNCHANGED <<message, task>>
      BY <1>11 DEF DeleteBuilder
  <2>2. CASE b = builder
    <3>1. ~heap'[b].alive
        BY <2>1, <2>2 DEF Freed, Header
    <3>2. OwnedBy(heap'[b], builder', b, {}, {})
        BY <2>1, <3>1, Pointers, OwnedByNone
    <3>3. QED
        BY <1>3, <1>5, <2>1, <2>2, <3>2
  <2>3. CASE b # builder
      BY <1>3, <1>6, <2>1, <2>3, Pointers
  <2>4. QED
      BY <2>2, <2>3
<1>12. QED
    BY <1>7, <1>8, <1>9, <1>10, <1>11 DEF Building


LEMMA SharingOwned ==
    ASSUME BufferTypes, TasksSound, Owned, Sharing
    PROVE  Owned'
<1> SUFFICES ASSUME NEW b \in Blocks
             PROVE  OwnedBy(heap'[b], builder, b, Holders(b)', Freeing(b)')
  <2>1. builder' = builder
      BY DEF Sharing, New, CopyNew, MoveNew, MoveAssign, CopyAssign, Delete,
             Finish, Decrease
  <2>2. QED
      BY <2>1 DEF Owned
<1>1. OwnedBy(heap[b], builder, b, Holders(b), Freeing(b))
    BY DEF Owned
<1>2. /\ heap \in [Blocks -> Headers]
      /\ message \in [MessageObjects -> Blocks \cup {NullPtr, NoObject}]
      /\ task \in [MessageObjects -> Tasks]
    BY DEF BufferTypes
<1>3. ASSUME NEW m \in MessageObjects, Idle(m) \/ message[m] = NoObject
      PROVE  ~task[m].decreased /\ ~task[m].last
    BY <1>3, Pointers DEF TasksSound, TaskSound, Idle
<1>4. ASSUME heap'[b] = heap[b],
             Holders(b)' = Holders(b), Freeing(b)' = Freeing(b)
      PROVE  OwnedBy(heap'[b], builder, b, Holders(b)', Freeing(b)')
    BY <1>1, <1>4
<1>5. ASSUME NEW m \in MessageObjects, NEW n \in Sizes, New(m, n)
      PROVE  OwnedBy(heap'[b], builder, b, Holders(b)', Freeing(b)')
  <2>1. PICK c \in Blocks :
            /\ ~heap[c].alive
            /\ heap' = [heap EXCEPT ![c] = Enabled(Header(n, n))]
            /\ message' = [message EXCEPT ![m] = c]
      BY <1>5 DEF New, Allocatable
  <2>2. /\ message[m] = NoObject /\ task' = task /\ message'[m] = c
        /\ \A x \in MessageObjects \ {m} : message'[x] = message[x]
      BY <1>2, <1>5, <2>1 DEF New
  <2>3. ~task[m].decreased /\ ~task[m].last
      BY <1>3, <2>2
  <2>4. CASE b = c
    <3>1. Holders(b) = {} /\ Freeing(b) = {} /\ builder # b
        BY <1>1, <2>1, <2>4 DEF OwnedBy
    <3>2. Holders(b)' = {m} /\ Freeing(b)' = {}
        BY <2>2, <2>3, <2>4, <3>1 DEF Holders, Freeing
    <3>3. heap'[b] = Enabled(Header(n, n))
        BY <1>2, <2>1, <2>4
    <3>4. /\ heap'[b].is_reference_count_enabled /\ heap'[b].alive
          /\ heap'[b].reference_count = 1
        BY <3>3 DEF Enabled, Header
    <3>5. OwnedBy(heap'[b], builder, b, {m}, {})
        BY <3>1, <3>4, OwnedByOne
    <3>6. QED
        BY <3>2, <3>5
  <2>5. CASE b # c
    <3>1. Holders(b)' = Holders(b) /\ Freeing(b)' = Freeing(b)
        BY <2>2, <2>5, Pointers DEF Holders, Freeing
    <3>2. heap'[b] = heap[b]
        BY <1>2, <2>1, <2>5
    <3>3. QED
        BY <1>4, <3>1, <3>2
  <2>6. QED
      BY <2>4, <2>5
<1>6. ASSUME NEW m \in MessageObjects, NEW o \in MessageObjects, CopyNew(m, o)
      PROVE  OwnedBy(heap'[b], builder, b, Holders(b)', Freeing(b)')
  <2>1. /\ message[m] = NoObject /\ task' = task /\ Idle(o) /\ message[o] \in Blocks
        /\ message'[m] = message[o]
        /\ \A x \in MessageObjects \ {m} : message'[x] = message[x]
        /\ heap' = [heap EXCEPT ![message[o]].reference_count = @ + 1]
      BY <1>2, <1>6 DEF CopyNew, Added
  <2>2. /\ ~task[m].decreased /\ ~task[m].last
        /\ ~task[o].decreased
      BY <1>3, <2>1
  <2>3. CASE b = message[o]
    <3>1. Holders(b)' = Holders(b) \cup {m} /\ Freeing(b)' = Freeing(b)
        BY <2>1, <2>2, <2>3, Pointers DEF Holders, Freeing
    <3>2. Holders(b) # {} /\ m \notin Holders(b)
        BY <2>1, <2>2, <2>3, Pointers DEF Holders
    <3>3. /\ heap'[b].alive = heap[b].alive
          /\ heap'[b].is_reference_count_enabled = heap[b].is_reference_count_enabled
          /\ heap'[b].reference_count = heap[b].reference_count + 1
        BY <1>2, <2>1, <2>3 DEF Headers
    <3>4. OwnedBy(heap'[b], builder, b, Holders(b) \cup {m}, Freeing(b))
        BY <1>1, <3>2, <3>3, OwnedByMore
    <3>5. QED
        BY <3>1, <3>4
  <2>4. CASE b # message[o]
    <3>1. Holders(b)' = Holders(b) /\ Freeing(b)' = Freeing(b)
        BY <2>1, <2>4, Pointers DEF Holders, Freeing
    <3>2. heap'[b] = heap[b]
        BY <1>2, <2>1, <2>4
    <3>3. QED
        BY <1>4, <3>1, <3>2
  <2>5. QED
      BY <2>3, <2>4
<1>7. ASSUME NEW m \in MessageObjects, NEW o \in MessageObjects, MoveNew(m, o)
      PROVE  OwnedBy(heap'[b], builder, b, Holders(b)', Freeing(b)')
  <2>1. /\ message[m] = NoObject /\ Idle(o) /\ m # o
        /\ message' = [message EXCEPT ![m] = message[o], ![o] = NullPtr]
        /\ task' = task /\ heap' = heap
      BY <1>7 DEF MoveNew, Usable
  <2>2. /\ message'[m] = message[o] /\ message'[o] = NullPtr
        /\ \A x \in MessageObjects \ {m, o} : message'[x] = message[x]
      BY <1>2, <2>1
  <2>3. /\ ~task[m].decreased /\ ~task[m].last
        /\ ~task[o].decreased /\ ~task[o].last
      BY <1>3, <2>1
  <2>4. Freeing(b)' = Freeing(b)
      BY <2>1, <2>2, <2>3 DEF Freeing
  <2>5. CASE b = message[o]
    <3>1. Holders(b)' = (Holders(b) \ {o}) \cup {m}
        BY <2>1, <2>2, <2>3, <2>5, Pointers DEF Holders
    <3>2. o \in Holders(b) /\ m \notin Holders(b)
        BY <2>1, <2>3, <2>5, Pointers DEF Holders
    <3>3. OwnedBy(heap[b], builder, b, (Holders(b) \ {o}) \cup {m}, Freeing(b))
        BY <1>1, <3>2, OwnedByOther
    <3>4. QED
        BY <2>1, <2>4, <3>1, <3>3
  <2>6. CASE b # message[o]
    <3>1. Holders(b)' = Holders(b)
        BY <2>1, <2>2, <2>6, Pointers DEF Holders
    <3>2. QED
        BY <1>4, <2>1, <2>4, <3>1
  <2>7. QED
      BY <2>5, <2>6
<1>8. ASSUME NEW m \in MessageObjects, NEW o \in MessageObjects, MoveAssign(m, o)
      PROVE  OwnedBy(heap'[b], builder, b, Holders(b)', Freeing(b)')
  <2>1. /\ Idle(m) /\ Idle(o)
        /\ message' = [message EXCEPT ![m] = message[o], ![o] = message[m]]
        /\ task' = task /\ heap' = heap
      BY <1>8 DEF MoveAssign, Usable
  <2>2. /\ message'[m] = message[o] /\ message'[o] = message[m]
        /\ \A x \in MessageObjects \ {m, o} : message'[x] = message[x]
      BY <1>2, <2>1
  <2>3. /\ ~task[m].decreased /\ ~task[m].last
        /\ ~task[o].decreased /\ ~task[o].last
      BY <1>3, <2>1
  <2>4. Freeing(b)' = Freeing(b)
      BY <2>1, <2>2, <2>3 DEF Freeing
  <2>5. CASE b = message[o] /\ b # message[m]
    <3>1. Holders(b)' = (Holders(b) \ {o}) \cup {m}
        BY <2>1, <2>2, <2>3, <2>5 DEF Holders
    <3>2. o \in Holders(b) /\ m \notin Holders(b)
        BY <2>3, <2>5 DEF Holders
    <3>3. OwnedBy(heap[b], builder, b, (Holders(b) \ {o}) \cup {m}, Freeing(b))
        BY <1>1, <3>2, OwnedByOther
    <3>4. QED
        BY <2>1, <2>4, <3>1, <3>3
  <2>6. CASE b # message[o] /\ b = message[m]
    <3>1. Holders(b)' = (Holders(b) \ {m}) \cup {o}
        BY <2>1, <2>2, <2>3, <2>6 DEF Holders
    <3>2. m \in Holders(b) /\ o \notin Holders(b)
        BY <2>3, <2>6 DEF Holders
    <3>3. OwnedBy(heap[b], builder, b, (Holders(b) \ {m}) \cup {o}, Freeing(b))
        BY <1>1, <3>2, OwnedByOther
    <3>4. QED
        BY <2>1, <2>4, <3>1, <3>3
  <2>7. CASE b = message[o] <=> b = message[m]
    <3>1. Holders(b)' = Holders(b)
        BY <2>1, <2>2, <2>3, <2>7 DEF Holders
    <3>2. QED
        BY <1>4, <2>1, <2>4, <3>1
  <2>8. QED
      BY <2>5, <2>6, <2>7
<1>9. ASSUME NEW m \in MessageObjects, NEW o, Decrease(m, o), Idle(m), message[m] \in Blocks
      PROVE  OwnedBy(heap'[b], builder, b, Holders(b)', Freeing(b)')
  <2> DEFINE last == heap[message[m]].reference_count = 1
             t == [decreased |-> TRUE, last |-> last, from |-> o]
  <2>1. /\ message' = message /\ task' = [task EXCEPT ![m] = t]
        /\ heap' = [heap EXCEPT ![message[m]].reference_count = @ - 1]
      BY <1>9 DEF Decrease
  <2>2. t.decreased /\ (t.last <=> last)
      OBVIOUS
  <2> HIDE DEF t
  <2>3. task'[m] = t /\ \A x \in MessageObjects \ {m} : task'[x] = task[x]
      BY <1>2, <2>1
  <2>4. ~task[m].decreased /\ ~task[m].last
      BY <1>3, <1>9
  <2>5. CASE b = message[m]
    <3>1. Holders(b)' = Holders(b) \ {m} /\ m \in Holders(b)
        BY <2>1, <2>2, <2>3, <2>4, <2>5 DEF Holders
    <3>2. Freeing(b)' = Freeing(b) \cup
                            (IF heap[b].reference_count = 1 THEN {m} ELSE {})
        BY <2>1, <2>2, <2>3, <2>4, <2>5 DEF Freeing
    <3>3. /\ heap'[b].alive = heap[b].alive
          /\ heap'[b].is_reference_count_enabled = heap[b].is_reference_count_enabled
          /\ heap'[b].reference_count = heap[b].reference_count - 1
        BY <1>2, <2>1, <2>5 DEF Headers
    <3>4. OwnedBy(heap'[b], builder, b, Holders(b) \ {m},
                  Freeing(b) \cup (IF heap[b].reference_count = 1 THEN {m} ELSE {}))
        BY <1>1, <3>1, <3>3, OwnedByFewer
    <3>5. QED
        BY <3>1, <3>2, <3>4
  <2>6. CASE b # message[m]
    <3>1. Holders(b)' = Holders(b) /\ Freeing(b)' = Freeing(b)
        BY <2>1, <2>3, <2>6 DEF Holders, Freeing
    <3>2. heap'[b] = heap[b]
        BY <1>2, <1>9, <2>1, <2>6
    <3>3. QED
        BY <1>4, <3>1, <3>2
  <2>7. QED
      BY <2>5, <2>6
<1>10. ASSUME NEW m \in MessageObjects, NEW o \in MessageObjects, CopyAssign(m, o)
       PROVE  OwnedBy(heap'[b], builder, b, Holders(b)', Freeing(b)')
  <2>1. Idle(m) /\ message[m] \in Blocks \cup {NullPtr}
      BY <1>2, <1>10 DEF CopyAssign, Usable
  <2>2. CASE message[m] = NullPtr
    <3>1. /\ message' = message /\ heap' = heap
          /\ task' = [task EXCEPT ![m] = [NoTask EXCEPT !.from = o]]
        BY <1>10, <2>2 DEF CopyAssign
    <3>2. /\ ~task'[m].decreased /\ ~task'[m].last
          /\ \A x \in MessageObjects \ {m} : task'[x] = task[x]
        BY <1>2, <3>1 DEF NoTask
    <3>3. ~task[m].decreased /\ ~task[m].last
        BY <1>3, <2>1
    <3>4. Holders(b)' = Holders(b) /\ Freeing(b)' = Freeing(b)
        BY <3>1, <3>2, <3>3 DEF Holders, Freeing
    <3>5. QED
        BY <1>4, <3>1, <3>4
  <2>3. CASE message[m] # NullPtr
      BY <1>9, <1>10, <2>1, <2>3 DEF CopyAssign
  <2>4. QED
      BY <2>2, <2>3
<1>11. ASSUME NEW m \in MessageObjects, Delete(m)
       PROVE  OwnedBy(heap'[b], builder, b, Holders(b)', Freeing(b)')
  <2>1. Idle(m) /\ message[m] \in Blocks \cup {NullPtr}
      BY <1>2, <1>11 DEF Delete, Usable
  <2>2. CASE message[m] = NullPtr
    <3>1. /\ task' = task /\ heap' = heap /\ message'[m] = NoObject
          /\ \A x \in MessageObjects \ {m} : message'[x] = message[x]
        BY <1>2, <1>11, <2>2 DEF Delete
    <3>2. Holders(b)' = Holders(b) /\ Freeing(b)' = Freeing(b)
        BY <2>2, <3>1, Pointers DEF Holders, Freeing
    <3>3. QED
        BY <1>4, <3>1, <3>2
  <2>3. CASE message[m] # NullPtr
      BY <1>9, <1>11, <2>1, <2>3 DEF Delete
  <2>4. QED
      BY <2>2, <2>3
<1>12. ASSUME NEW m \in MessageObjects, Finish(m)
       PROVE  OwnedBy(heap'[b], builder, b, Holders(b)', Freeing(b)')
  <2> DEFINE from == task[m].from
             frees == message[m] = b /\ task[m].last
             takes == from # NoObject /\ message[from] = b
  <2>1. /\ ~Idle(m) /\ heap' = HeapAfter(m)
        /\ message'[m] = (IF from = NoObject THEN NoObject ELSE message[from])
        /\ task'[m] = NoTask
        /\ \A x \in MessageObjects \ {m} : task'[x] = task[x] /\ message'[x] = message[x]
      BY <1>2, <1>12 DEF Finish
  <2>2. ~task'[m].decreased /\ ~task'[m].last
      BY <2>1 DEF NoTask
  <2>3. /\ task[m].last => task[m].decreased
        /\ task[m].decreased \/ message[m] = NullPtr
        /\ from # NoObject => /\ from \in MessageObjects /\ from # m
                              /\ ~task[from].decreased
      BY <1>2, <2>1 DEF TasksSound, TaskSound, Idle, Tasks
  <2>4. m \notin Holders(b)
      BY <2>3, Pointers DEF Holders
  <2>5. takes => from \in Holders(b)
      BY <2>3 DEF Holders
  <2>6. message'[m] = b <=> takes
      BY <2>1, Pointers
  <2>7. CASE frees
    <3>1. m \in Freeing(b)
        BY <2>7 DEF Freeing
    <3>2. Holders(b) = {} /\ Freeing(b) = {m} /\ builder # b
        BY <1>1, <3>1 DEF OwnedBy
    <3>3. ~takes
        BY <2>5, <3>2
    <3>4. Holders(b)' = {} /\ Freeing(b)' = {}
      <4>1. message'[m] # b
          BY <2>6, <3>3
      <4> HIDE DEF from, frees, takes
      <4>2. QED
          BY <2>1, <2>2, <3>2, <4>1 DEF Holders, Freeing
    <3>5. heap'[b] = Freed
        BY <1>2, <2>1, <2>7, <3>3 DEF HeapAfter
    <3>6. ~heap'[b].alive
        BY <3>5 DEF Freed, Header
    <3>7. OwnedBy(heap'[b], builder, b, {}, {})
        BY <3>2, <3>6, OwnedByNone
    <3>8. QED
        BY <3>4, <3>7
  <2>8. CASE ~frees /\ takes
    <3>1. Holders(b)' = Holders(b) \cup {m} /\ Freeing(b)' = Freeing(b)
      <4>1. message'[m] = b /\ ~(message[m] = b /\ task[m].last)
          BY <2>6, <2>8
      <4> HIDE DEF from, frees, takes
      <4>2. QED
          BY <2>1, <2>2, <2>4, <4>1 DEF Holders, Freeing
    <3>2. Holders(b) # {}
        BY <2>5, <2>8
    <3>3. heap' = [(IF task[m].last THEN [heap EXCEPT ![message[m]] = Freed] ELSE heap)
                      EXCEPT ![b].reference_count = @ + 1]
        BY <2>1, <2>8 DEF HeapAfter
    <3>4. heap'[b] = [heap[b] EXCEPT !.reference_count = @ + 1]
        BY <1>2, <2>8, <3>3
    <3>5. /\ heap'[b].alive = heap[b].alive
          /\ heap'[b].is_reference_count_enabled = heap[b].is_reference_count_enabled
          /\ heap'[b].reference_count = heap[b].reference_count + 1
        BY <1>2, <3>4 DEF Headers
    <3>6. OwnedBy(heap'[b], builder, b, Holders(b) \cup {m}, Freeing(b))
        BY <1>1, <2>4, <3>2, <3>5, OwnedByMore
    <3>7. QED
        BY <3>1, <3>6
  <2>9. CASE ~frees /\ ~takes
    <3>1. Holders(b)' = Holders(b) /\ Freeing(b)' = Freeing(b)
      <4>1. message'[m] # b /\ ~(message[m] = b /\ task[m].last)
          BY <2>6, <2>9
      <4> HIDE DEF from, frees, takes
      <4>2. QED
          BY <2>1, <2>2, <2>4, <4>1 DEF Holders, Freeing
    <3>2. heap'[b] = heap[b]
        BY <1>2, <2>1, <2>9 DEF HeapAfter
    <3>3. QED
        BY <1>4, <3>1, <3>2
  <2>10. QED
      BY <2>7, <2>8, <2>9
<1>13. QED
    BY <1>5, <1>6, <1>7, <1>8, <1>10, <1>11, <1>12 DEF Sharing

\* Types, tasks and owners together are inductive.
LEMMA SpecOwned == BuffersSpec => [](BufferTypes /\ TasksSound /\ Owned)
<1> DEFINE Inv == BufferTypes /\ TasksSound /\ Owned
<1>1. BuffersInit => Inv
    BY InitTypes, InitSound, InitOwned
<1>2. Inv /\ [BuffersNext]_bufferVars => Inv'
  <2>1. BufferTypes /\ TasksSound /\ [BuffersNext]_bufferVars => (BufferTypes /\ TasksSound)'
      BY NextTypes, NextSound
  <2>2. Inv /\ BuffersNext => Owned'
      BY BuildingOwned, SharingOwned DEF BuffersNext
  <2>3. Inv /\ UNCHANGED bufferVars => Owned'
      BY DEF Owned, Holders, Freeing, bufferVars
  <2>4. QED
      BY <2>1, <2>2, <2>3
<1>3. QED
    BY <1>1, <1>2, PTL DEF BuffersSpec

\* Copies, moves, assignments and destructors of any number of messages, each
\* decrease of the count and what follows it with others in between: no block is
\* freed while something owns it, none twice, and none is left
\* (serialized_message.cpp, sharable_binary_header.h).
THEOREM MemoryIsOwned == BuffersSpec => []BlocksAreOwned
BY SpecOwned, OwnedIsEnough, PTL

\* The block that is being filled is not shared, so the loop finds a capacity.
LEMMA FitsAndGrows ==
    BufferTypes /\ Owned /\ PiecesFit /\ CanGrow => WritesFit
<1> SUFFICES ASSUME BufferTypes, Owned, PiecesFit, CanGrow,
                    builder \in Blocks, NEW n \in Sizes, ~Fits(builder, n)
             PROVE  NewCapacity(heap[builder].binary_capacity,
                                heap[builder].binary_size + n) # {}
    BY DEF WritesFit, PiecesFit
<1> DEFINE c == heap[builder].binary_capacity
           s == heap[builder].binary_size
<1>1. heap[builder] \in Headers
    BY DEF BufferTypes
<1>2. heap[builder].alive /\ ~heap[builder].is_reference_count_enabled
    BY <1>1 DEF Owned, OwnedBy, Headers
<1>3. c \in 0..Memory /\ c > 0 /\ s \in Nat /\ s =< c
    BY <1>1, <1>2 DEF CanGrow, PiecesFit, Headers
<1>4. n \in 0..Memory /\ Memory \in Nat
    BY SizesAreNatural
<1>5. s + n \in 0..MaxShifts /\ c < s + n
    BY <1>3, <1>4 DEF Fits, MaxShifts
<1>6. c \in Nat \ {0}
    BY <1>3, <1>4
<1> HIDE DEF c, s
<1>7. NewCapacity(c, s + n) # {}
    BY <1>5, <1>6, CapacityIsFound
<1>8. QED
    BY <1>7 DEF c, s

\* For blocks of any size and pieces of any length, no write goes beyond the end
\* of its block, and a larger one is
\* found whenever there is memory for it (SerializationBuffer::write(), expand_sharable_binary()).
THEOREM WritesStayInside == BuffersSpec => []WritesFit
<1>1. BuffersInit => PiecesFit /\ CanGrow
    BY InitFits, InitGrow
<1>2. /\ BufferTypes /\ PiecesFit /\ CanGrow /\ [BuffersNext]_bufferVars
         => (PiecesFit /\ CanGrow)'
    BY NextFits, NextGrow
<1>3. QED
    BY <1>1, <1>2, SpecOwned, FitsAndGrows, PTL DEF BuffersSpec

-----------------------------------------------------------------------------
(* The pool: types and users.                                              *)

Counters == {"idle", "loop", "emplace", "threw", "destroy", "store", "settle"}
Functions == {"none", "create", "copy", "move", "reset", "delete"}
Steps == [pc : Counters, function : Functions, from : References \cup {NoReference}]

PoolTypes ==
    /\ count \in [PoolBuffers -> Int]
    /\ object \subseteq PoolBuffers
    /\ next \in PoolBuffers
    /\ exists \subseteq References
    /\ hold \in [Users -> PoolBuffers \cup {NoBuffer}]
    /\ at \in [Users -> Steps]

\* What a user holds where it is; the source of an assignment exists, and its
\* own thread is in no function.
UserSound(u) ==
    /\ at[u].pc \in {"emplace", "destroy", "store"} => hold[u] \in PoolBuffers
    /\ at[u].pc \in {"loop", "threw"} => hold[u] = NoBuffer
    /\ u = Creator => /\ at[u].from = NoReference
                      /\ at[u].pc = "idle" => hold[u] = NoBuffer
    /\ u # Creator => /\ at[u].pc \notin {"loop", "emplace", "threw"}
                      /\ u \notin exists => at[u] = Nothing /\ hold[u] = NoBuffer
    /\ at[u].from # NoReference =>
          at[u].from \in exists /\ (at[u].from = u \/ at[at[u].from] = Nothing)
    /\ at[u].function \in {"copy", "move"} => at[u].from # NoReference
    /\ at[u].function = "copy" => at[u].from # u

UsersSound == \A u \in Users : UserSound(u)

-----------------------------------------------------------------------------
(* The pool: who owns a buffer.                                            *)

\* The users that are to destroy the object of b or to give b back.
Closing(b) == {u \in Users : hold[u] = b /\ at[u].pc \in {"destroy", "store"}}
Storing(b) == {u \in Users : hold[u] = b /\ at[u].pc = "store"}

\* Buffer b with this count, the buffers with an object, the users that count,
\* and those that close it.
KeptBy(n, b, objects, counted, ending, storing) ==
    /\ IsFiniteSet(counted)
    /\ counted # {} => n = Cardinality(counted) /\ ending = {}
    /\ counted = {} => \/ n = 0 /\ \E u \in ending : ending = {u}
                       \/ n = Unused /\ ending = {}
    /\ n = Unused => b \notin objects
    /\ counted \cap References # {} => b \in objects
    /\ storing # {} => b \notin objects

Kept == \A b \in PoolBuffers :
            KeptBy(count[b], b, object, Counted(b), Closing(b), Storing(b))


LEMMA PoolNames ==
    /\ Creator \in Users /\ References \subseteq Users
    /\ Creator \notin References /\ NoReference \notin References
    /\ \A u \in Users : u = Creator \/ u \in References
BY PoolAssumption DEF Users

LEMMA PoolIndices ==
    /\ NoBuffer \notin PoolBuffers /\ 0 \in PoolBuffers
    /\ \A b \in PoolBuffers : (b + 1) % NumBuffers \in PoolBuffers
BY PoolAssumption DEF PoolBuffers, NoBuffer

LEMMA StepType ==
    ASSUME NEW pc \in Counters, NEW function \in Functions,
           NEW from \in References \cup {NoReference}
    PROVE  /\ Step(pc, function, from) \in Steps
           /\ Step(pc, function, from).pc = pc
           /\ Step(pc, function, from).function = function
           /\ Step(pc, function, from).from = from
BY DEF Step, Steps

LEMMA NothingType ==
    /\ Nothing \in Steps
    /\ Nothing.pc = "idle" /\ Nothing.function = "none" /\ Nothing.from = NoReference
BY DEF Nothing, Step, Steps, Counters, Functions

LEMMA PoolInitTypes == PoolInit => PoolTypes
<1> SUFFICES ASSUME PoolInit PROVE PoolTypes
    OBVIOUS
<1>1. Unused \in Int
    BY DEF Unused
<1>2. QED
    BY <1>1, PoolIndices, NothingType DEF PoolInit, PoolTypes

\* What the functions that give up a buffer or an empty reference begin.
LEMMA BeginTypes ==
    ASSUME PoolTypes, NEW u \in Users, NEW function \in Functions,
           NEW from \in References \cup {NoReference},
           \/ BeginRelease(u, function, from) /\ UNCHANGED creation
           \/ BeginReset(u, function, from)
    PROVE  PoolTypes'
<1> DEFINE release == Step(IF count[hold[u]] = 1 THEN "destroy" ELSE "settle",
                           function, from)
           settle == Step("settle", function, from)
<1>1. release \in Steps /\ settle \in Steps
    BY StepType DEF Counters
<1>2. /\ count' \in {count, [count EXCEPT ![hold[u]] = @ - 1]}
      /\ at' \in {[at EXCEPT ![u] = release], [at EXCEPT ![u] = settle]}
      /\ UNCHANGED <<object, next, exists, hold>>
    BY DEF BeginRelease, BeginReset, Decreased, creation
<1> HIDE DEF release, settle
<1>3. count' \in [PoolBuffers -> Int]
    BY <1>2 DEF PoolTypes
<1>4. at' \in [Users -> Steps]
    BY <1>1, <1>2 DEF PoolTypes
<1>5. QED
    BY <1>2, <1>3, <1>4 DEF PoolTypes

LEMMA PoolNextTypes == PoolTypes /\ UsersSound /\ [PoolNext]_poolVars => PoolTypes'
<1> SUFFICES ASSUME PoolTypes, UsersSound, [PoolNext]_poolVars PROVE PoolTypes'
    OBVIOUS
<1>1. /\ count \in [PoolBuffers -> Int] /\ object \subseteq PoolBuffers
      /\ next \in PoolBuffers /\ exists \subseteq References
      /\ hold \in [Users -> PoolBuffers \cup {NoBuffer}]
      /\ at \in [Users -> Steps]
    BY DEF PoolTypes
<1>2. ASSUME NEW u \in Users, NEW pc \in Counters
      PROVE  /\ [at EXCEPT ![u].pc = pc] \in [Users -> Steps]
             /\ [at EXCEPT ![u] = Nothing] \in [Users -> Steps]
    BY <1>1, NothingType DEF Steps
<1>3. ASSUME NEW b PROVE [c \in PoolBuffers |-> count[c] + IF c = b THEN 1 ELSE 0]
                             \in [PoolBuffers -> Int]
    BY <1>1
<1>4. Unused \in Int /\ Creator \in Users /\ References \subseteq Users
    BY PoolNames DEF Unused
<1>5. CASE BeginCreate
    BY <1>1, <1>2, <1>4, <1>5 DEF BeginCreate, PoolTypes, Counters
<1>6. CASE TryBuffer
  <2>1. next' \in PoolBuffers
      BY <1>1, <1>6, PoolIndices DEF TryBuffer
  <2>2. count' \in {count, [count EXCEPT ![next] = 1]}
        /\ hold' \in {hold, [hold EXCEPT ![Creator] = next]}
        /\ UNCHANGED <<object, exists>>
      BY <1>6 DEF TryBuffer
  <2>3. at' \in [Users -> Steps]
    <3>1. \E pc \in Counters : at' = [at EXCEPT ![Creator].pc = pc]
        BY <1>6 DEF TryBuffer, Counters
    <3>2. QED
        BY <1>2, <1>4, <3>1
  <2>4. QED
      BY <1>1, <2>1, <2>2, <2>3 DEF PoolTypes
<1>7. ASSUME NEW r \in References, Emplace(r) PROVE PoolTypes'
  <2>1. hold[Creator] \in PoolBuffers
      BY <1>4, <1>7 DEF Emplace, UsersSound, UserSound
  <2>2. object' \subseteq PoolBuffers
      BY <1>1, <1>7, <2>1 DEF Emplace
  <2>3. hold' \in [Users -> PoolBuffers \cup {NoBuffer}]
      BY <1>1, <1>7, <2>1 DEF Emplace
  <2>4. at' \in [Users -> Steps]
      BY <1>2, <1>4, <1>7 DEF Emplace, Counters
  <2>5. QED
      BY <1>1, <1>7, <2>2, <2>3, <2>4 DEF Emplace, PoolTypes, creation
<1>8. CASE EmplaceThrows
    BY <1>4, <1>8, BeginTypes DEF EmplaceThrows, Functions
<1>9. CASE CreateThrew
  <2>1. at' \in [Users -> Steps]
      BY <1>2, <1>4, <1>9 DEF CreateThrew, Counters
  <2>2. QED
      BY <1>1, <1>9, <2>1 DEF CreateThrew, PoolTypes, creation
<1>10. ASSUME NEW r \in References, NEW o \in References, CopyReference(r, o)
       PROVE  PoolTypes'
  <2>1. hold[o] \in PoolBuffers \cup {NoBuffer}
      BY <1>1, <1>4
  <2>2. QED
      BY <1>1, <1>3, <1>10, <2>1 DEF CopyReference, PoolTypes, creation
<1>11. ASSUME NEW r \in References, NEW o \in References, MoveReference(r, o)
       PROVE  PoolTypes'
  <2>1. hold[o] \in PoolBuffers \cup {NoBuffer}
      BY <1>1, <1>4
  <2>2. QED
      BY <1>1, <1>11, <2>1 DEF MoveReference, PoolTypes, creation
<1>12. ASSUME NEW r \in References, NEW o \in References, Assign(r, o)
       PROVE  PoolTypes'
    BY <1>4, <1>12, BeginTypes DEF Assign, Functions
<1>13. ASSUME NEW r \in References,
              BeginReset(r, "reset", NoReference) \/ BeginReset(r, "delete", NoReference)
       PROVE  PoolTypes'
    BY <1>4, <1>13, BeginTypes DEF Functions
<1>14. ASSUME NEW r \in References, Settle(r) PROVE PoolTypes'
  <2>1. at' \in [Users -> Steps] /\ object' \subseteq PoolBuffers /\ next' \in PoolBuffers
      BY <1>1, <1>2, <1>4, <1>14 DEF Settle, Counters, creation
  <2>2. exists' \subseteq References
      BY <1>1, <1>14 DEF Settle
  <2>3. /\ count' \in [PoolBuffers -> Int]
        /\ hold' \in [Users -> PoolBuffers \cup {NoBuffer}]
    <3>1. CASE at[r].function = "copy"
      <4>1. at[r].from \in Users
          BY <1>1, <1>4, <3>1 DEF UsersSound, UserSound
      <4>2. hold[at[r].from] \in PoolBuffers \cup {NoBuffer}
          BY <1>1, <4>1
      <4>3. /\ hold' = [hold EXCEPT ![r] = hold[at[r].from]]
            /\ count' = [c \in PoolBuffers |->
                             count[c] + IF c = hold[at[r].from] THEN 1 ELSE 0]
          BY <1>14, <3>1 DEF Settle, TakeCopy
      <4>4. QED
          BY <1>1, <1>3, <4>2, <4>3
    <3>2. CASE at[r].function = "move"
        BY <1>1, <1>14, <3>2 DEF Settle, TakeMove
    <3>3. CASE at[r].function \notin {"copy", "move"}
        BY <1>1, <1>14, <3>3 DEF Settle
    <3>4. QED
        BY <3>1, <3>2, <3>3
  <2>4. QED
      BY <2>1, <2>2, <2>3 DEF PoolTypes
<1>15. ASSUME NEW u \in Users, DestroyObject(u) PROVE PoolTypes'
    BY <1>1, <1>2, <1>15 DEF DestroyObject, PoolTypes, creation, Counters
<1>16. ASSUME NEW u \in Users, StoreUnused(u) PROVE PoolTypes'
    BY <1>1, <1>2, <1>4, <1>16 DEF StoreUnused, PoolTypes, creation, Counters
<1>17. CASE UNCHANGED poolVars
    BY <1>17 DEF PoolTypes, poolVars
<1>18. QED
    BY <1>5, <1>6, <1>7, <1>8, <1>9, <1>10, <1>11, <1>12, <1>13, <1>14, <1>15, <1>16, <1>17
       DEF PoolNext, Creating, Referring


-----------------------------------------------------------------------------
(* The pool: every step keeps what users hold.                             *)

LEMMA PoolInitSound == PoolInit => UsersSound
BY NothingType DEF PoolInit, UsersSound, UserSound

\* A step of user m, who is in a function or whose reference nobody reads, and
\* which may take or give the buffer of an idle reference.
LEMMA SoundAtStep ==
    ASSUME PoolTypes, UsersSound, NEW m \in Users, UserSound(m)',
           \A q \in Users \ {m} :
              /\ at'[q] = at[q]
              /\ \/ hold'[q] = hold[q]
                 \/ q \in exists' /\ at[q] = Nothing /\ q # Creator,
           \A x \in exists : x \in exists' \/ x = m,
           \/ at'[m] = at[m] /\ exists \subseteq exists'
           \/ at[m] # Nothing
           \/ \A q \in Users \ {m} : at[q].from # m
    PROVE  UsersSound'
<1> SUFFICES ASSUME NEW q \in Users \ {m} PROVE UserSound(q)'
    BY DEF UsersSound
<1>1. UserSound(q) /\ at'[q] = at[q]
    BY DEF UsersSound
<1>2. at[q].from # NoReference =>
          at[q].from \in exists' /\ (at[q].from = q \/ at'[at[q].from] = Nothing)
  <2> SUFFICES ASSUME at[q].from # NoReference
               PROVE at[q].from \in exists' /\ (at[q].from = q \/ at'[at[q].from] = Nothing)
      OBVIOUS
  <2> DEFINE o == at[q].from
  <2>1. o \in exists /\ (o = q \/ at[o] = Nothing)
      BY <1>1 DEF UserSound
  <2>2. o \in Users
      BY <2>1, PoolNames DEF PoolTypes
  <2>3. CASE o = m
    <3>1. at[m] = Nothing
        BY <2>1, <2>3
    <3>2. at'[m] = at[m] /\ exists \subseteq exists'
        BY <2>3, <3>1
    <3>3. QED
        BY <2>1, <2>3, <3>1, <3>2
  <2>4. CASE o # m
    <3>1. o \in exists' /\ at'[o] = at[o]
        BY <2>1, <2>2, <2>4
    <3>2. QED
        BY <2>1, <3>1
  <2>5. QED
      BY <2>3, <2>4
<1>3. CASE hold'[q] = hold[q]
    BY <1>1, <1>2, <1>3 DEF UserSound
<1>4. CASE q \in exists' /\ at[q] = Nothing /\ q # Creator
    BY <1>1, <1>2, <1>4, NothingType DEF UserSound
<1>5. QED
    BY <1>3, <1>4

\* release() and reset() begin in a function of m that nobody reads.
LEMMA SoundAtBeginning ==
    ASSUME PoolTypes, UsersSound, NEW m \in Users, NEW function \in Functions,
           NEW from \in References \cup {NoReference},
           m = Creator => from = NoReference,
           m # Creator => m \in exists,
           \A q \in Users \ {m} : at[q].from # m,
           from # NoReference => from \in exists /\ (from = m \/ at[from] = Nothing),
           function \in {"copy", "move"} => from # NoReference,
           function = "copy" => from # m,
           \/ BeginRelease(m, function, from) /\ hold[m] \in PoolBuffers
           \/ BeginReset(m, function, from)
    PROVE  UsersSound'
<1>1. PICK pc \in {"destroy", "settle"} :
          /\ at' = [at EXCEPT ![m] = Step(pc, function, from)]
          /\ pc = "destroy" => hold[m] # NoBuffer
    BY PoolIndices DEF BeginRelease, BeginReset
<1>2. hold' = hold /\ exists' = exists
    BY DEF BeginRelease, BeginReset
<1>3. /\ Step(pc, function, from).pc = pc /\ Step(pc, function, from).from = from
      /\ Step(pc, function, from).function = function
    BY DEF Step
<1>4. /\ at'[m].pc = pc /\ at'[m].from = from /\ at'[m].function = function
      /\ \A q \in Users \ {m} : at'[q] = at[q]
    BY <1>1, <1>3 DEF PoolTypes
<1>5. hold[m] \in PoolBuffers \cup {NoBuffer}
    BY DEF PoolTypes
<1>6. from # NoReference => from = m \/ at'[from] = Nothing
  <2>1. from \in exists => from \in Users
      BY PoolNames DEF PoolTypes
  <2>2. QED
      BY <1>4, <2>1
<1>7. UserSound(m)'
    BY <1>1, <1>2, <1>4, <1>5, <1>6 DEF UserSound
<1>8. QED
    BY <1>2, <1>4, <1>7, SoundAtStep

LEMMA PoolNextSound == PoolTypes /\ UsersSound /\ [PoolNext]_poolVars => UsersSound'
<1> SUFFICES ASSUME PoolTypes, UsersSound, [PoolNext]_poolVars PROVE UsersSound'
    OBVIOUS
<1>1. /\ exists \subseteq References
      /\ hold \in [Users -> PoolBuffers \cup {NoBuffer}]
      /\ at \in [Users -> Steps]
    BY DEF PoolTypes
<1>2. /\ Creator \in Users /\ Creator \notin exists
      /\ \A r \in References : r \in Users /\ r # Creator /\ r # NoReference
    BY <1>1, PoolNames
<1>3. \A q \in Users : at[q].from # Creator
    BY <1>1, <1>2 DEF UsersSound, UserSound, Creator, NoReference
<1>4. ASSUME NEW r \in References, r \notin exists
      PROVE  at[r] = Nothing /\ hold[r] = NoBuffer
    BY <1>2, <1>4 DEF UsersSound, UserSound
<1>5. ASSUME NEW r \in References, Alone(r)
      PROVE  /\ r \in exists /\ at[r] = Nothing
             /\ \A q \in Users : at[q].from # r
  <2>1. r \in exists /\ at[r] = Nothing /\ \A q \in References : at[q].from # r
      BY <1>5 DEF Alone, Untouched
  <2>2. at[Creator].from # r
      BY <1>2 DEF UsersSound, UserSound
  <2>3. QED
      BY <2>1, <2>2, PoolNames
<1>6. CASE BeginCreate
  <2>1. /\ at[Creator] = Nothing /\ at' = [at EXCEPT ![Creator].pc = "loop"]
        /\ hold' = hold /\ exists' = exists
      BY <1>6 DEF BeginCreate
  <2>2. /\ at'[Creator].pc = "loop" /\ at'[Creator].from = NoReference
        /\ at'[Creator].function = "none"
        /\ \A q \in Users \ {Creator} : at'[q] = at[q]
      BY <1>1, <1>2, <2>1, NothingType DEF Steps
  <2>3. hold[Creator] = NoBuffer
      BY <1>2, <2>1, NothingType DEF UsersSound, UserSound
  <2>4. UserSound(Creator)'
      BY <2>1, <2>2, <2>3 DEF UserSound
  <2>5. QED
      BY <1>2, <1>3, <2>1, <2>2, <2>4, SoundAtStep
<1>7. CASE TryBuffer
  <2>1. PICK pc \in {"emplace", "threw", "loop"} :
            /\ at[Creator].pc = "loop"
            /\ at' = [at EXCEPT ![Creator].pc = pc]
            /\ IF pc = "emplace" THEN hold' = [hold EXCEPT ![Creator] = next]
               ELSE hold' = hold
            /\ exists' = exists
      BY <1>7 DEF TryBuffer
  <2>2. /\ at[Creator].from = NoReference /\ hold[Creator] = NoBuffer
        /\ at[Creator].function \notin {"copy", "move"}
      BY <1>2, <2>1 DEF UsersSound, UserSound
  <2>3. /\ at'[Creator].pc = pc /\ at'[Creator].from = NoReference
        /\ at'[Creator].function = at[Creator].function
        /\ \A q \in Users \ {Creator} : at'[q] = at[q] /\ hold'[q] = hold[q]
        /\ IF pc = "emplace" THEN hold'[Creator] = next ELSE hold'[Creator] = NoBuffer
      BY <1>1, <1>2, <2>1, <2>2 DEF Steps
  <2>4. next \in PoolBuffers
      BY DEF PoolTypes
  <2>5. UserSound(Creator)'
      BY <2>2, <2>3, <2>4 DEF UserSound
  <2>6. QED
      BY <1>2, <1>3, <2>1, <2>3, <2>5, SoundAtStep
<1>8. ASSUME NEW r \in References, Emplace(r) PROVE UsersSound'
  <2>1. /\ r \notin exists /\ exists' = exists \cup {r}
        /\ at' = [at EXCEPT ![Creator] = Nothing]
        /\ hold' = [hold EXCEPT ![r] = hold[Creator], ![Creator] = NoBuffer]
      BY <1>8 DEF Emplace
  <2>2. /\ at'[Creator] = Nothing /\ hold'[Creator] = NoBuffer
        /\ \A q \in Users \ {Creator} : at'[q] = at[q] /\ (hold'[q] = hold[q] \/ q = r)
      BY <1>1, <1>2, <2>1
  <2>3. UserSound(Creator)'
      BY <2>2, NothingType DEF UserSound
  <2>4. QED
      BY <1>2, <1>3, <1>4, <2>1, <2>2, <2>3, SoundAtStep
<1>9. CASE EmplaceThrows
  <2>1. /\ BeginRelease(Creator, "create", NoReference) /\ hold[Creator] \in PoolBuffers
      BY <1>2, <1>9 DEF EmplaceThrows, UsersSound, UserSound
  <2>2. QED
      BY <1>2, <1>3, <2>1, SoundAtBeginning DEF Functions
<1>10. CASE CreateThrew
  <2>1. /\ at' = [at EXCEPT ![Creator] = Nothing] /\ exists' = exists
        /\ hold' = [hold EXCEPT ![Creator] = NoBuffer]
      BY <1>10 DEF CreateThrew
  <2>2. /\ at'[Creator] = Nothing /\ hold'[Creator] = NoBuffer
        /\ \A q \in Users \ {Creator} : at'[q] = at[q] /\ hold'[q] = hold[q]
      BY <1>1, <1>2, <2>1
  <2>3. UserSound(Creator)'
      BY <2>2, NothingType DEF UserSound
  <2>4. QED
      BY <1>2, <1>3, <2>1, <2>2, <2>3, SoundAtStep
<1>11. ASSUME NEW r \in References, NEW o \in References, CopyReference(r, o)
       PROVE  UsersSound'
  <2>1. /\ r \notin exists /\ exists' = exists \cup {r} /\ at' = at
        /\ hold' = [hold EXCEPT ![r] = hold[o]]
      BY <1>11 DEF CopyReference
  <2>2. at[r] = Nothing /\ \A q \in Users \ {r} : at'[q] = at[q] /\ hold'[q] = hold[q]
      BY <1>1, <1>4, <2>1
  <2>3. UserSound(r)'
      BY <1>2, <2>1, <2>2, NothingType DEF UserSound
  <2>4. QED
      BY <1>2, <2>1, <2>2, <2>3, SoundAtStep
<1>12. ASSUME NEW r \in References, NEW o \in References, MoveReference(r, o)
       PROVE  UsersSound'
  <2>1. /\ r \notin exists /\ exists' = exists \cup {r} /\ at' = at
        /\ hold' = [hold EXCEPT ![r] = hold[o], ![o] = NoBuffer]
        /\ o \in exists /\ at[o] = Nothing
      BY <1>5, <1>12 DEF MoveReference
  <2>2. /\ at[r] = Nothing
        /\ \A q \in Users \ {r} : at'[q] = at[q] /\ (hold'[q] = hold[q] \/ q = o)
      BY <1>1, <1>4, <2>1
  <2>3. UserSound(r)'
      BY <1>2, <2>1, <2>2, NothingType DEF UserSound
  <2>4. QED
      BY <1>2, <2>1, <2>2, <2>3, SoundAtStep
<1>13. ASSUME NEW r \in References, NEW o \in References, Assign(r, o)
       PROVE  UsersSound'
  <2>1. CASE r # o /\ Readable(o) /\ BeginReset(r, "copy", o)
    <3>1. Alone(r) /\ o \in exists /\ at[o] = Nothing
        BY <2>1 DEF BeginReset, Readable
    <3>2. r \in exists /\ \A q \in Users : at[q].from # r
        BY <1>5, <3>1
    <3>3. QED
        BY <1>2, <2>1, <3>1, <3>2, SoundAtBeginning DEF Functions
  <2>2. CASE Alone(o) /\ BeginReset(r, "move", o)
    <3>1. Alone(r) /\ o \in exists /\ at[o] = Nothing
        BY <1>5, <2>2 DEF BeginReset
    <3>2. r \in exists /\ \A q \in Users : at[q].from # r
        BY <1>5, <3>1
    <3>3. QED
        BY <1>2, <2>2, <3>1, <3>2, SoundAtBeginning DEF Functions
  <2>3. QED
      BY <1>13, <2>1, <2>2 DEF Assign
<1>14. ASSUME NEW r \in References, NEW function \in {"reset", "delete"},
              BeginReset(r, function, NoReference)
       PROVE  UsersSound'
  <2>1. Alone(r)
      BY <1>14 DEF BeginReset
  <2>2. r \in exists /\ \A q \in Users : at[q].from # r
      BY <1>5, <2>1
  <2>3. QED
      BY <1>2, <1>14, <2>2, SoundAtBeginning DEF Functions
<1>15. ASSUME NEW r \in References, Settle(r) PROVE UsersSound'
  <2> DEFINE o == at[r].from
  <2>1. /\ at[r].pc = "settle" /\ at' = [at EXCEPT ![r] = Nothing]
        /\ exists' = IF at[r].function = "delete" THEN exists \ {r} ELSE exists
      BY <1>15 DEF Settle
  <2>2. at[r] # Nothing /\ r \in exists
      BY <1>2, <2>1, NothingType DEF UsersSound, UserSound
  <2>3. at'[r] = Nothing /\ \A q \in Users \ {r} : at'[q] = at[q]
      BY <1>1, <1>2, <2>1
  <2>4. /\ \A q \in Users \ {r} : hold'[q] = hold[q] \/ (q = o /\ at[r].function = "move")
        /\ at[r].function = "delete" => hold'[r] = NoBuffer
    <3>1. CASE at[r].function = "copy"
      <4>1. hold' = [hold EXCEPT ![r] = hold[o]]
          BY <1>15, <3>1 DEF Settle, TakeCopy
      <4> HIDE DEF o
      <4>2. \A q \in Users \ {r} : hold'[q] = hold[q]
          BY <1>1, <4>1
      <4>3. at[r].function # "delete"
          BY <3>1
      <4>4. QED
          BY <4>2, <4>3
    <3>2. CASE at[r].function = "move"
      <4> DEFINE emptied == [hold EXCEPT ![r] = NoBuffer]
      <4>1. hold' = [emptied EXCEPT ![o] = NoBuffer, ![r] = emptied[o]]
          BY <1>15, <3>2 DEF Settle, TakeMove
      <4> HIDE DEF o
      <4>2. \A q \in Users \ {r} : hold'[q] = hold[q] \/ q = o
          BY <1>1, <4>1
      <4>3. at[r].function # "delete"
          BY <3>2
      <4>4. QED
          BY <3>2, <4>2, <4>3
    <3>3. CASE at[r].function \notin {"copy", "move"}
        BY <1>1, <1>2, <1>15, <3>3 DEF Settle
    <3>4. QED
        BY <3>1, <3>2, <3>3
  <2>5. at[r].function = "move" /\ o # r => o \in exists /\ at[o] = Nothing
      BY <1>2 DEF UsersSound, UserSound
  <2>6. UserSound(r)'
      BY <1>2, <2>1, <2>2, <2>3, <2>4, NothingType DEF UserSound
  <2>7. \A q \in Users \ {r} :
            hold'[q] = hold[q] \/ (q \in exists' /\ at[q] = Nothing /\ q # Creator)
    <3> HIDE DEF o
    <3>1. TAKE q \in Users \ {r}
    <3>2. CASE q = o /\ at[r].function = "move"
        BY <1>2, <2>1, <2>5, <3>2
    <3>3. QED
        BY <2>4, <3>2
  <2> HIDE DEF o
  <2>8. QED
      BY <1>2, <2>1, <2>2, <2>3, <2>6, <2>7, SoundAtStep
<1>16. ASSUME NEW u \in Users, DestroyObject(u) \/ StoreUnused(u) PROVE UsersSound'
  <2>1. PICK pc \in {"store", "settle"} :
            /\ at[u].pc \in {"destroy", "store"}
            /\ pc = "store" => at[u].pc = "destroy"
            /\ at' = [at EXCEPT ![u].pc = pc]
            /\ hold' = hold /\ exists' = exists
      BY <1>16 DEF DestroyObject, StoreUnused
  <2>2. UserSound(u) /\ at[u] # Nothing
      BY <2>1, NothingType DEF UsersSound
  <2>3. /\ at'[u].pc = pc /\ at'[u].from = at[u].from
        /\ at'[u].function = at[u].function
        /\ \A q \in Users \ {u} : at'[q] = at[q]
      BY <1>1, <2>1 DEF Steps
  <2>4. at[u].from # NoReference /\ at[u].from # u => at'[at[u].from] = Nothing
    <3>1. at[u].from # NoReference => at[u].from \in Users
        BY <1>1, <2>2, PoolNames DEF UserSound
    <3>2. QED
        BY <2>2, <2>3, <3>1 DEF UserSound
  <2>5. UserSound(u)'
      BY <2>1, <2>2, <2>3, <2>4 DEF UserSound
  <2>6. QED
      BY <2>1, <2>2, <2>3, <2>5, SoundAtStep
<1>17. CASE UNCHANGED poolVars
    BY <1>17 DEF UsersSound, UserSound, poolVars
<1>18. QED
    BY <1>6, <1>7, <1>8, <1>9, <1>10, <1>11, <1>12, <1>13, <1>14, <1>15, <1>16, <1>17
       DEF PoolNext, Creating, Referring


-----------------------------------------------------------------------------
(* The pool: what a step does to the owners of a buffer.                   *)

\* A buffer is given to create(), or gets one more, one fewer or another owner.
LEMMA KeptByOne ==
    ASSUME NEW b, NEW objects, NEW u, b \notin objects, u \notin References
    PROVE  KeptBy(1, b, objects, {u}, {}, {})
<1>1. IsFiniteSet({u}) /\ Cardinality({u}) = 1
    BY FS_Singleton
<1>2. {u} \cap References = {}
    OBVIOUS
<1>3. QED
    BY <1>1, <1>2 DEF KeptBy, Unused

LEMMA KeptByMore ==
    ASSUME NEW n, NEW b, NEW objects, NEW counted, NEW ending, NEW storing, NEW u,
           KeptBy(n, b, objects, counted, ending, storing),
           counted \cap References # {}, u \notin counted
    PROVE  KeptBy(n + 1, b, objects, counted \cup {u}, ending, storing)
<1>1. IsFiniteSet(counted) /\ counted # {}
    BY DEF KeptBy
<1>2. /\ IsFiniteSet(counted \cup {u})
      /\ Cardinality(counted \cup {u}) = Cardinality(counted) + 1
    BY <1>1, FS_AddElement
<1>3. n = Cardinality(counted) /\ ending = {} /\ b \in objects
    BY <1>1 DEF KeptBy
<1>4. Cardinality(counted) \in Nat
    BY <1>1, FS_CardinalityType
<1>5. n + 1 = Cardinality(counted \cup {u}) /\ n + 1 # Unused
    BY <1>2, <1>3, <1>4 DEF Unused
<1>6. storing = {} /\ counted \cup {u} # {}
    BY <1>3 DEF KeptBy
<1>7. QED
    BY <1>2, <1>3, <1>5, <1>6, Zenon DEF KeptBy

\* The last one is to close the buffer.
LEMMA KeptByFewer ==
    ASSUME NEW n, NEW b, NEW objects, NEW counted, NEW ending, NEW storing, NEW u,
           KeptBy(n, b, objects, counted, ending, storing), storing \subseteq ending,
           u \in counted
    PROVE  KeptBy(n - 1, b, objects, counted \ {u},
                  ending \cup (IF n = 1 THEN {u} ELSE {}), storing)
<1> DEFINE added == IF n = 1 THEN {u} ELSE {}
<1>1. IsFiniteSet(counted) /\ counted # {}
    BY DEF KeptBy
<1>2. /\ IsFiniteSet(counted \ {u})
      /\ Cardinality(counted \ {u}) = Cardinality(counted) - 1
    BY <1>1, FS_RemoveElement
<1>3. n = Cardinality(counted) /\ ending = {}
    BY <1>1 DEF KeptBy
<1>4. storing = {}
    BY <1>3
<1>5. Cardinality(counted) \in Nat /\ (Cardinality(counted) = 0 <=> counted = {})
    BY <1>1, FS_CardinalityType, FS_EmptySet
<1>6. n - 1 = Cardinality(counted \ {u}) /\ n - 1 # Unused
    BY <1>1, <1>2, <1>3, <1>5 DEF Unused
<1>7. counted \ {u} = {} <=> n = 1
  <2>1. counted \ {u} = {} <=> Cardinality(counted \ {u}) = 0
      BY <1>2, FS_EmptySet
  <2>2. QED
      BY <1>2, <1>3, <1>5, <2>1
<1>8. ending \cup added = IF counted \ {u} = {} THEN {u} ELSE {}
    BY <1>3, <1>7
<1>9. (counted \ {u}) \cap References # {} => b \in objects
    BY DEF KeptBy
<1>10. counted \ {u} = {} => n - 1 = 0
    BY <1>7
<1>11. KeptBy(n - 1, b, objects, counted \ {u},
              IF counted \ {u} = {} THEN {u} ELSE {}, storing)
    BY <1>2, <1>4, <1>6, <1>9, <1>10, Zenon DEF KeptBy
<1>12. QED
    BY <1>8, <1>11

LEMMA KeptByOther ==
    ASSUME NEW n, NEW b, NEW objects, NEW counted, NEW ending, NEW storing,
           NEW u, NEW v, NEW more,
           KeptBy(n, b, objects, counted, ending, storing), storing \subseteq ending,
           u \in counted, v \notin counted,
           more = objects \/ more = objects \cup {b},
           b \in more
    PROVE  KeptBy(n, b, more, (counted \ {u}) \cup {v}, ending, storing)
<1>1. IsFiniteSet(counted) /\ counted # {}
    BY DEF KeptBy
<1>2. /\ IsFiniteSet(counted \ {u})
      /\ Cardinality(counted \ {u}) = Cardinality(counted) - 1
    BY <1>1, FS_RemoveElement
<1>3. /\ IsFiniteSet((counted \ {u}) \cup {v})
      /\ Cardinality((counted \ {u}) \cup {v}) = Cardinality(counted \ {u}) + 1
    BY <1>2, FS_AddElement
<1>4. n = Cardinality(counted) /\ ending = {} /\ storing = {}
    BY <1>1 DEF KeptBy
<1>5. Cardinality(counted) \in Nat
    BY <1>1, FS_CardinalityType
<1>6. n = Cardinality((counted \ {u}) \cup {v}) /\ n # Unused
    BY <1>2, <1>3, <1>4, <1>5 DEF Unused
<1>7. (counted \ {u}) \cup {v} # {}
    OBVIOUS
<1>8. QED
    BY <1>3, <1>4, <1>6, <1>7, Zenon DEF KeptBy

LEMMA PoolInitKept == PoolInit => Kept
<1> SUFFICES ASSUME PoolInit, NEW b \in PoolBuffers
             PROVE  KeptBy(count[b], b, object, Counted(b), Closing(b), Storing(b))
    BY DEF Kept
<1>1. Counted(b) = {} /\ Closing(b) = {} /\ Storing(b) = {}
    BY PoolIndices DEF PoolInit, Counted, Closing, Storing
<1>2. count[b] = Unused /\ object = {}
    BY DEF PoolInit
<1>3. QED
    BY <1>1, <1>2, FS_EmptySet DEF KeptBy

LEMMA KeptIsEnough == Kept => BuffersAreOwned
<1> SUFFICES ASSUME Kept, NEW b \in PoolBuffers
             PROVE  /\ Counted(b) # {} => count[b] = Cardinality(Counted(b)) /\ Closing(b) = {}
                    /\ Counted(b) \cap References # {} => b \in object
                    /\ Counted(b) = {} =>
                          /\ Cardinality(Closing(b)) = (IF count[b] = 0 THEN 1 ELSE 0)
                          /\ count[b] \in {0, Unused}
                    /\ count[b] = Unused => b \notin object
    BY Zenon DEF BuffersAreOwned, Closing
<1>1. KeptBy(count[b], b, object, Counted(b), Closing(b), Storing(b))
    BY DEF Kept
<1>2. \A u : Cardinality({u}) = 1
    BY FS_Singleton
<1>3. Cardinality({}) = 0
    BY FS_EmptySet
<1>4. Unused # 0
    BY DEF Unused
<1>5. Counted(b) = {} => /\ Cardinality(Closing(b)) = (IF count[b] = 0 THEN 1 ELSE 0)
                         /\ count[b] \in {0, Unused}
  <2> SUFFICES ASSUME Counted(b) = {}
               PROVE  /\ Cardinality(Closing(b)) = (IF count[b] = 0 THEN 1 ELSE 0)
                      /\ count[b] \in {0, Unused}
      OBVIOUS
  <2>1. CASE count[b] = 0
      BY <1>1, <1>2, <1>4, <2>1 DEF KeptBy
  <2>2. CASE count[b] # 0
      BY <1>1, <1>3, <2>2 DEF KeptBy
  <2>3. QED
      BY <2>1, <2>2
<1>6. QED
    BY <1>1, <1>5 DEF KeptBy


\* Users other than m keep what they count for; m does before and after or not.
LEMMA SameOwners ==
    ASSUME NEW m \in Users, NEW b \in PoolBuffers,
           \A q \in Users \ {m} : at'[q].pc = at[q].pc /\ hold'[q] = hold[q],
           hold'[m] = b <=> hold[m] = b,
           hold[m] = b => at'[m].pc = at[m].pc
                          \/ {at'[m].pc, at[m].pc} \cap {"destroy", "store", "settle"} = {}
    PROVE  Counted(b)' = Counted(b) /\ Closing(b)' = Closing(b) /\ Storing(b)' = Storing(b)
BY DEF Counted, Closing, Storing

LEMMA BeginKept ==
    ASSUME PoolTypes, Kept, NEW u \in Users, NEW function, NEW from,
           at[u].pc \in {"idle", "emplace"},
           \/ BeginRelease(u, function, from) /\ hold[u] \in PoolBuffers
           \/ BeginReset(u, function, from)
    PROVE  Kept'
<1> SUFFICES ASSUME NEW b \in PoolBuffers
             PROVE  KeptBy(count'[b], b, object', Counted(b)', Closing(b)', Storing(b)')
    BY DEF Kept
<1>1. KeptBy(count[b], b, object, Counted(b), Closing(b), Storing(b))
    BY DEF Kept
<1>2. PICK pc \in {"destroy", "settle"} :
          /\ at' = [at EXCEPT ![u] = Step(pc, function, from)]
          /\ IF hold[u] # NoBuffer
             THEN /\ pc = (IF count[hold[u]] = 1 THEN "destroy" ELSE "settle")
                  /\ count' = [count EXCEPT ![hold[u]] = @ - 1]
             ELSE pc = "settle" /\ count' = count
          /\ UNCHANGED <<object, hold>>
    BY PoolIndices DEF BeginRelease, BeginReset, Decreased
<1>3. Step(pc, function, from).pc = pc
    BY DEF Step
<1>4. at'[u].pc = pc /\ \A q \in Users \ {u} : at'[q] = at[q]
    BY <1>2, <1>3 DEF PoolTypes
<1>5. CASE hold[u] = b
  <2>1. hold[u] # NoBuffer
      BY <1>5, PoolIndices
  <2>2. u \in Counted(b) /\ Counted(b)' = Counted(b) \ {u}
      BY <1>2, <1>4, <1>5 DEF Counted
  <2>3. Storing(b)' = Storing(b) /\ Storing(b) \subseteq Closing(b)
      BY <1>2, <1>4, <1>5 DEF Storing, Closing
  <2>4. Closing(b)' = Closing(b) \cup (IF count[b] = 1 THEN {u} ELSE {})
    <3>1. CASE count[b] = 1
        BY <1>2, <1>4, <1>5, <2>1, <3>1 DEF Closing
    <3>2. CASE count[b] # 1
        BY <1>2, <1>4, <1>5, <2>1, <3>2 DEF Closing
    <3>3. QED
        BY <3>1, <3>2
  <2>5. count'[b] = count[b] - 1
      BY <1>2, <1>5, <2>1 DEF PoolTypes
  <2>6. KeptBy(count[b] - 1, b, object, Counted(b) \ {u},
               Closing(b) \cup (IF count[b] = 1 THEN {u} ELSE {}), Storing(b))
      BY <1>1, <2>2, <2>3, KeptByFewer
  <2>7. QED
      BY <1>2, <2>2, <2>3, <2>4, <2>5, <2>6
<1>6. CASE hold[u] # b
  <2>1. Counted(b)' = Counted(b) /\ Closing(b)' = Closing(b) /\ Storing(b)' = Storing(b)
      BY <1>2, <1>4, <1>6, SameOwners
  <2>2. count'[b] = count[b]
      BY <1>2, <1>6 DEF PoolTypes
  <2>3. QED
      BY <1>1, <1>2, <2>1, <2>2
<1>7. QED
    BY <1>5, <1>6

LEMMA CreatingKept ==
    ASSUME PoolTypes, UsersSound, Kept, Creating
    PROVE  Kept'
<1> USE DEF creation
<1>1. /\ count \in [PoolBuffers -> Int]
      /\ hold \in [Users -> PoolBuffers \cup {NoBuffer}]
      /\ at \in [Users -> Steps]
      /\ Creator \in Users /\ Creator \notin References
    BY PoolNames DEF PoolTypes
<1>2. UserSound(Creator)
    BY <1>1 DEF UsersSound
<1>3. CASE EmplaceThrows
  <2>1. at[Creator].pc = "emplace" /\ hold[Creator] \in PoolBuffers
      BY <1>2, <1>3 DEF EmplaceThrows, UserSound
  <2>2. QED
      BY <1>1, <1>3, <2>1, BeginKept DEF EmplaceThrows
<1>4. CASE ~EmplaceThrows
  <2> SUFFICES ASSUME NEW b \in PoolBuffers
               PROVE  KeptBy(count'[b], b, object', Counted(b)', Closing(b)', Storing(b)')
      BY DEF Kept
  <2>1. KeptBy(count[b], b, object, Counted(b), Closing(b), Storing(b))
      BY DEF Kept
  <2>2. CASE BeginCreate \/ CreateThrew
    <3>1. /\ \A q \in Users \ {Creator} : at'[q] = at[q] /\ hold'[q] = hold[q]
          /\ count' = count /\ object' = object
        BY <1>1, <2>2 DEF BeginCreate, CreateThrew
    <3>2. Counted(b)' = Counted(b) /\ Closing(b)' = Closing(b) /\ Storing(b)' = Storing(b)
      <4>1. CASE BeginCreate
        <5>1. hold[Creator] = NoBuffer /\ hold' = hold
            BY <1>2, <4>1, NothingType DEF BeginCreate, UserSound
        <5>2. QED
            BY <1>1, <3>1, <5>1, PoolIndices, SameOwners
      <4>2. CASE CreateThrew
        <5>1. /\ hold'[Creator] = NoBuffer
              /\ hold[Creator] = b => at[Creator].pc = "settle"
            BY <1>1, <1>2, <4>2, PoolIndices DEF CreateThrew, UserSound
        <5>2. QED
            BY <3>1, <5>1, PoolIndices DEF Counted, Closing, Storing
      <4>3. QED
          BY <2>2, <4>1, <4>2
    <3>3. QED
        BY <2>1, <3>1, <3>2
  <2>3. CASE TryBuffer /\ count[next] = Unused
    <3>1. /\ count' = [count EXCEPT ![next] = 1] /\ object' = object
          /\ hold' = [hold EXCEPT ![Creator] = next]
          /\ at' = [at EXCEPT ![Creator].pc = "emplace"]
          /\ at[Creator].pc = "loop"
        BY <2>3 DEF TryBuffer
    <3>2. /\ hold'[Creator] = next /\ at'[Creator].pc = "emplace"
          /\ hold[Creator] = NoBuffer
          /\ \A q \in Users \ {Creator} : at'[q] = at[q] /\ hold'[q] = hold[q]
        BY <1>1, <1>2, <3>1 DEF UserSound, Steps
    <3>3. CASE b = next
      <4>1. Counted(b) = {} /\ Closing(b) = {} /\ b \notin object
        <5>1. Cardinality(Counted(b)) \in Nat \/ ~IsFiniteSet(Counted(b))
            BY FS_CardinalityType
        <5>2. Counted(b) = {}
            BY <2>1, <2>3, <3>3, <5>1 DEF KeptBy, Unused
        <5>3. QED
            BY <2>1, <2>3, <3>3, <5>2 DEF KeptBy, Unused
      <4>2. Counted(b)' = {Creator} /\ Closing(b)' = {} /\ Storing(b)' = {}
          BY <1>1, <3>2, <3>3, <4>1 DEF Counted, Closing, Storing
      <4>3. count'[b] = 1
          BY <1>1, <3>1, <3>3
      <4>4. KeptBy(1, b, object, {Creator}, {}, {})
          BY <1>1, <4>1, KeptByOne
      <4>5. QED
          BY <3>1, <4>2, <4>3, <4>4
    <3>4. CASE b # next
      <4>1. Counted(b)' = Counted(b) /\ Closing(b)' = Closing(b) /\ Storing(b)' = Storing(b)
          BY <1>1, <3>2, <3>4, PoolIndices, SameOwners
      <4>2. count'[b] = count[b]
          BY <1>1, <3>1, <3>4
      <4>3. QED
          BY <2>1, <3>1, <4>1, <4>2
    <3>5. QED
        BY <3>3, <3>4
  <2>4. CASE TryBuffer /\ count[next] # Unused
    <3>1. PICK pc \in {"threw", "loop"} :
              /\ count' = count /\ object' = object /\ hold' = hold
              /\ at' = [at EXCEPT ![Creator].pc = pc]
              /\ at[Creator].pc = "loop"
        BY <2>4 DEF TryBuffer
    <3>2. /\ at'[Creator].pc = pc
          /\ \A q \in Users \ {Creator} : at'[q] = at[q]
        BY <1>1, <3>1 DEF Steps
    <3>3. hold[Creator] = NoBuffer
        BY <1>2, <3>1 DEF UserSound
    <3>4. Counted(b)' = Counted(b) /\ Closing(b)' = Closing(b) /\ Storing(b)' = Storing(b)
        BY <1>1, <3>1, <3>2, <3>3, PoolIndices, SameOwners
    <3>5. QED
        BY <2>1, <3>1, <3>4
  <2>5. ASSUME NEW r \in References, Emplace(r)
        PROVE  KeptBy(count'[b], b, object', Counted(b)', Closing(b)', Storing(b)')
    <3>1. /\ at[Creator].pc = "emplace" /\ r \notin exists
          /\ object' = object \cup {hold[Creator]} /\ count' = count
          /\ hold' = [hold EXCEPT ![r] = hold[Creator], ![Creator] = NoBuffer]
          /\ at' = [at EXCEPT ![Creator] = Nothing]
        BY <2>5 DEF Emplace
    <3>2. r \in Users /\ r # Creator /\ at[r] = Nothing /\ hold[r] = NoBuffer
        BY <1>1, <3>1, PoolNames DEF UsersSound, UserSound
    <3>3. /\ hold'[r] = hold[Creator] /\ hold'[Creator] = NoBuffer
          /\ \A q \in Users \ {Creator, r} : hold'[q] = hold[q]
          /\ \A q \in Users \ {Creator} : at'[q] = at[q]
        BY <1>1, <3>1, <3>2
    <3>4. Closing(b)' = Closing(b) /\ Storing(b)' = Storing(b) /\ Storing(b) \subseteq Closing(b)
      <4>1. at[r].pc = "idle" /\ at'[r].pc = "idle"
          BY <3>2, <3>3, NothingType
      <4>2. \A q \in Users : hold[q] = b /\ at[q].pc \in {"destroy", "store"}
                             => q \notin {Creator, r}
          BY <3>1, <4>1
      <4>3. \A q \in Users : hold'[q] = b /\ at'[q].pc \in {"destroy", "store"}
                             => q \notin {Creator, r}
          BY <3>3, <4>1, PoolIndices
      <4>4. QED
          BY <3>3, <4>2, <4>3 DEF Closing, Storing
    <3>5. CASE b = hold[Creator]
      <4>1. Creator \in Counted(b) /\ r \notin Counted(b)
          BY <1>1, <3>1, <3>2, <3>5, PoolIndices DEF Counted
      <4>2. Counted(b)' = (Counted(b) \ {Creator}) \cup {r}
          BY <1>1, <3>1, <3>2, <3>3, <3>5, PoolIndices, NothingType DEF Counted
      <4>3. object' = object \cup {b}
          BY <3>1, <3>5
      <4>4. KeptBy(count[b], b, object', (Counted(b) \ {Creator}) \cup {r},
                   Closing(b), Storing(b))
          BY <2>1, <3>4, <4>1, <4>3, KeptByOther
      <4>5. QED
          BY <3>1, <3>4, <4>2, <4>4
    <3>6. CASE b # hold[Creator]
      <4>1. Counted(b)' = Counted(b)
          BY <3>2, <3>3, <3>6, PoolIndices DEF Counted
      <4>2. b \in object' <=> b \in object
          BY <3>1, <3>6
      <4>3. QED
          BY <2>1, <3>1, <3>4, <4>1, <4>2 DEF KeptBy
    <3>7. QED
        BY <3>5, <3>6
  <2>6. QED
      BY <1>4, <2>2, <2>3, <2>4, <2>5 DEF Creating
<1>5. QED
    BY <1>3, <1>4


LEMMA ReferringKept ==
    ASSUME PoolTypes, UsersSound, Kept, Referring
    PROVE  Kept'
<1>1. /\ count \in [PoolBuffers -> Int]
      /\ hold \in [Users -> PoolBuffers \cup {NoBuffer}]
      /\ at \in [Users -> Steps]
      /\ \A r \in References : r \in Users /\ r # Creator
    BY PoolNames DEF PoolTypes
<1>2. \A u \in Users : UserSound(u)
    BY DEF UsersSound
<1>3. ASSUME NEW r \in References, NEW function, NEW from, BeginReset(r, function, from)
      PROVE  Kept'
  <2>1. at[r].pc = "idle"
      BY <1>3, NothingType DEF BeginReset, Alone, Untouched
  <2>2. QED
      BY <1>1, <1>3, <2>1, BeginKept
<1>4. ASSUME NEW b \in PoolBuffers
      PROVE  /\ KeptBy(count[b], b, object, Counted(b), Closing(b), Storing(b))
             /\ Storing(b) \subseteq Closing(b)
             /\ Counted(b) \cap References # {} => b \in object
    BY DEF Kept, KeptBy, Storing, Closing
\* Reference r, which counts for nothing, takes what the idle reference o holds.
<1>5. ASSUME NEW r \in References, NEW o \in References, r # o,
             at[o] = Nothing,
             hold[r] = NoBuffer \/ at[r].pc = "settle",
             at' \in {at, [at EXCEPT ![r] = Nothing]}, at'[r].pc = "idle",
             object' = object,
             \/ /\ hold' = [hold EXCEPT ![r] = hold[o]]
                /\ count' = [b \in PoolBuffers |-> count[b] + IF b = hold[o] THEN 1 ELSE 0]
             \/ /\ hold'[r] = hold[o] /\ hold'[o] = NoBuffer
                /\ \A q \in Users \ {r, o} : hold'[q] = hold[q]
                /\ count' = count
      PROVE  Kept'
  <2> SUFFICES ASSUME NEW b \in PoolBuffers
               PROVE  KeptBy(count'[b], b, object', Counted(b)', Closing(b)', Storing(b)')
      BY DEF Kept
  <2>1. /\ r \in Users /\ o \in Users
        /\ \A q \in Users \ {r} : at'[q] = at[q]
        /\ at[o].pc = "idle" /\ at'[o].pc = "idle" /\ hold'[r] = hold[o]
    <3>1. r \in Users /\ o \in Users
        BY <1>1
    <3>2. \A q \in Users \ {r} : at'[q] = at[q]
        BY <1>1, <1>5
    <3>3. hold'[r] = hold[o]
        BY <1>1, <1>5, <3>1
    <3>4. QED
        BY <1>5, <3>1, <3>2, <3>3, NothingType
  <2>2. /\ hold'[o] \in {hold[o], NoBuffer}
        /\ \A q \in Users \ {r, o} : hold'[q] = hold[q]
      BY <1>1, <1>5, <2>1
  <2>3. r \notin Counted(b) /\ r \notin Closing(b)
      BY <1>5, PoolIndices DEF Counted, Closing
  <2>4. Closing(b)' = Closing(b) /\ Storing(b)' = Storing(b)
    <3>1. \A q \in Users : hold[q] = b /\ at[q].pc \in {"destroy", "store"}
                           => q \notin {o, r}
        BY <2>1, <2>3 DEF Closing
    <3>2. \A q \in Users : hold'[q] = b /\ at'[q].pc \in {"destroy", "store"}
                           => q \notin {o, r}
        BY <1>5, <2>1
    <3>3. QED
        BY <2>1, <2>2, <3>1, <3>2 DEF Closing, Storing
  <2>5. CASE hold[o] # b
    <3>1. Counted(b)' = Counted(b)
        BY <2>1, <2>2, <2>3, <2>5, PoolIndices DEF Counted
    <3>2. count'[b] = count[b]
        BY <1>1, <1>5, <2>5
    <3>3. QED
        BY <1>4, <1>5, <2>4, <3>1, <3>2
  <2>6. CASE hold[o] = b
    <3>1. o \in Counted(b) /\ b \in object
      <4>1. o \in Counted(b)
          BY <2>1, <2>6 DEF Counted
      <4>2. QED
          BY <1>4, <4>1
    <3>2. CASE hold' = [hold EXCEPT ![r] = hold[o]]
               /\ count' = [c \in PoolBuffers |-> count[c] + IF c = hold[o] THEN 1 ELSE 0]
      <4>1. Counted(b)' = Counted(b) \cup {r}
          BY <1>1, <1>5, <2>1, <2>6, <3>2 DEF Counted
      <4>2. count'[b] = count[b] + 1
          BY <1>1, <2>6, <3>2
      <4>3. KeptBy(count[b] + 1, b, object, Counted(b) \cup {r}, Closing(b), Storing(b))
          BY <1>4, <2>3, <3>1, KeptByMore
      <4>4. QED
          BY <1>5, <2>4, <4>1, <4>2, <4>3
    <3>3. CASE hold'[o] = NoBuffer /\ count' = count
      <4>1. Counted(b)' = (Counted(b) \ {o}) \cup {r}
          BY <1>5, <2>1, <2>2, <2>6, <3>3, PoolIndices DEF Counted
      <4>2. KeptBy(count[b], b, object, (Counted(b) \ {o}) \cup {r}, Closing(b), Storing(b))
          BY <1>4, <2>3, <3>1, KeptByOther
      <4>3. QED
          BY <1>5, <2>4, <3>3, <4>1, <4>2
    <3>4. QED
        BY <1>5, <3>2, <3>3
  <2>7. QED
      BY <2>5, <2>6
\* Reference r, which counts for nothing, holds nothing.
<1>6. ASSUME NEW r \in References, at[r].pc = "settle",
             at' = [at EXCEPT ![r] = Nothing],
             hold' = [hold EXCEPT ![r] = NoBuffer],
             object' = object, count' = count
      PROVE  Kept'
  <2> SUFFICES ASSUME NEW b \in PoolBuffers
               PROVE  KeptBy(count'[b], b, object', Counted(b)', Closing(b)', Storing(b)')
      BY DEF Kept
  <2>1. /\ hold'[r] = NoBuffer
        /\ \A q \in Users \ {r} : at'[q] = at[q] /\ hold'[q] = hold[q]
      BY <1>1, <1>6
  <2>2. Counted(b)' = Counted(b) /\ Closing(b)' = Closing(b) /\ Storing(b)' = Storing(b)
      BY <1>6, <2>1, PoolIndices DEF Counted, Closing, Storing
  <2>3. QED
      BY <1>4, <1>6, <2>2
<1>7. ASSUME NEW r \in References, NEW o \in References, CopyReference(r, o) PROVE Kept'
  <2>1. /\ r \notin exists /\ o \in exists /\ at[o] = Nothing
        /\ at' = at /\ object' = object
        /\ hold' = [hold EXCEPT ![r] = hold[o]]
        /\ count' = [b \in PoolBuffers |-> count[b] + IF b = hold[o] THEN 1 ELSE 0]
      BY <1>7 DEF CopyReference, Readable
  <2>2. hold[r] = NoBuffer /\ at[r].pc = "idle"
      BY <1>1, <1>2, <2>1, NothingType DEF UserSound
  <2>3. QED
      BY <1>5, <2>1, <2>2
<1>8. ASSUME NEW r \in References, NEW o \in References, MoveReference(r, o) PROVE Kept'
  <2>1. /\ r \notin exists /\ o \in exists /\ at[o] = Nothing
        /\ at' = at /\ object' = object /\ count' = count
        /\ hold' = [hold EXCEPT ![r] = hold[o], ![o] = NoBuffer]
      BY <1>8 DEF MoveReference, Alone, Untouched
  <2>2. hold[r] = NoBuffer /\ at[r].pc = "idle"
      BY <1>1, <1>2, <2>1, NothingType DEF UserSound
  <2>3. /\ hold'[r] = hold[o] /\ hold'[o] = NoBuffer
        /\ \A q \in Users \ {r, o} : hold'[q] = hold[q]
      BY <1>1, <2>1
  <2>4. QED
      BY <1>5, <2>1, <2>2, <2>3
<1>9. ASSUME NEW r \in References, NEW o \in References, Assign(r, o) PROVE Kept'
    BY <1>3, <1>9 DEF Assign
<1>10. ASSUME NEW r \in References, Settle(r) PROVE Kept'
  <2> DEFINE o == at[r].from
  <2>1. /\ at[r].pc = "settle" /\ at' = [at EXCEPT ![r] = Nothing] /\ object' = object
      BY <1>10 DEF Settle
  <2>2. at'[r].pc = "idle"
      BY <1>1, <2>1, NothingType
  <2>3. CASE at[r].function = "copy"
    <3>1. /\ hold' = [hold EXCEPT ![r] = hold[o]]
          /\ count' = [b \in PoolBuffers |-> count[b] + IF b = hold[o] THEN 1 ELSE 0]
        BY <1>10, <2>3 DEF Settle, TakeCopy
    <3>2. o \in References /\ o # r /\ at[o] = Nothing
        BY <1>1, <1>2, <2>3 DEF UserSound, PoolTypes
    <3> HIDE DEF o
    <3>3. QED
        BY <1>5, <2>1, <2>2, <3>1, <3>2
  <2>4. CASE at[r].function = "move"
    <3> DEFINE emptied == [hold EXCEPT ![r] = NoBuffer]
    <3>1. /\ hold' = [emptied EXCEPT ![o] = NoBuffer, ![r] = emptied[o]]
          /\ count' = count
        BY <1>10, <2>4 DEF Settle, TakeMove
    <3>2. o \in References /\ (o = r \/ at[o] = Nothing)
        BY <1>1, <1>2, <2>4 DEF UserSound, PoolTypes
    <3> HIDE DEF o
    <3>3. CASE o = r
      <4>1. hold' = [hold EXCEPT ![r] = NoBuffer]
          BY <1>1, <3>1, <3>3
      <4>2. QED
          BY <1>6, <2>1, <3>1, <4>1
    <3>4. CASE o # r
      <4>1. /\ hold'[r] = hold[o] /\ hold'[o] = NoBuffer
            /\ \A q \in Users \ {r, o} : hold'[q] = hold[q]
          BY <1>1, <3>1, <3>2, <3>4
      <4>2. QED
          BY <1>5, <2>1, <2>2, <3>1, <3>2, <3>4, <4>1
    <3>5. QED
        BY <3>3, <3>4
  <2>5. CASE at[r].function \notin {"copy", "move"}
    <3>1. hold' = [hold EXCEPT ![r] = NoBuffer] /\ count' = count
        BY <1>10, <2>5 DEF Settle
    <3>2. QED
        BY <1>6, <2>1, <3>1
  <2>6. QED
      BY <2>3, <2>4, <2>5
<1>11. QED
    BY <1>3, <1>7, <1>8, <1>9, <1>10 DEF Referring

LEMMA ClosingKept ==
    ASSUME PoolTypes, UsersSound, Kept, NEW u \in Users,
           DestroyObject(u) \/ StoreUnused(u)
    PROVE  Kept'
<1> SUFFICES ASSUME NEW b \in PoolBuffers
             PROVE  KeptBy(count'[b], b, object', Counted(b)', Closing(b)', Storing(b)')
    BY DEF Kept
<1>1. KeptBy(count[b], b, object, Counted(b), Closing(b), Storing(b))
    BY DEF Kept
<1>2. /\ count \in [PoolBuffers -> Int] /\ at \in [Users -> Steps]
      /\ hold[u] \in PoolBuffers
    BY DEF PoolTypes, UsersSound, UserSound, DestroyObject, StoreUnused
<1>3. hold' = hold /\ \A q \in Users \ {u} : at'[q] = at[q]
    BY <1>2 DEF DestroyObject, StoreUnused
<1>4. Counted(b)' = Counted(b)
  <2>1. {at[u].pc, at'[u].pc} \subseteq {"destroy", "store", "settle"}
      BY <1>2 DEF DestroyObject, StoreUnused, Steps
  <2>2. QED
      BY <1>3, <2>1 DEF Counted
<1>5. hold[u] = b => /\ Counted(b) = {} /\ Closing(b) = {u} /\ count[b] = 0
  <2> SUFFICES ASSUME hold[u] = b
               PROVE Counted(b) = {} /\ Closing(b) = {u} /\ count[b] = 0
      OBVIOUS
  <2>1. u \in Closing(b)
      BY DEF Closing, DestroyObject, StoreUnused
  <2>2. QED
      BY <1>1, <2>1 DEF KeptBy
<1>6. CASE hold[u] # b
  <2>1. Closing(b)' = Closing(b) /\ Storing(b)' = Storing(b)
      BY <1>3, <1>6 DEF Closing, Storing
  <2>2. count'[b] = count[b] /\ (b \in object' <=> b \in object)
      BY <1>2, <1>6 DEF DestroyObject, StoreUnused
  <2>3. QED
      BY <1>1, <1>4, <2>1, <2>2 DEF KeptBy
<1>7. CASE hold[u] = b /\ DestroyObject(u)
  <2>1. at'[u].pc = "store" /\ at[u].pc = "destroy"
      BY <1>2, <1>7 DEF DestroyObject, Steps
  <2>2. Closing(b)' = Closing(b)
      BY <1>3, <2>1 DEF Closing
  <2>3. count' = count /\ b \notin object'
      BY <1>7 DEF DestroyObject
  <2>4. QED
      BY <1>4, <1>5, <1>7, <2>2, <2>3, FS_EmptySet DEF KeptBy, Unused
<1>8. CASE hold[u] = b /\ StoreUnused(u)
  <2>1. at'[u].pc = "settle" /\ at[u].pc = "store"
      BY <1>2, <1>8 DEF StoreUnused, Steps
  <2>2. Closing(b)' = {} /\ Storing(b)' = {}
    <3>1. \A q \in Users \ {u} : ~(hold[q] = b /\ at[q].pc \in {"destroy", "store"})
        BY <1>5, <1>8 DEF Closing
    <3>2. QED
        BY <1>3, <2>1, <3>1 DEF Closing, Storing
  <2>3. count'[b] = Unused /\ object' = object
      BY <1>2, <1>8 DEF StoreUnused
  <2>4. b \notin object
    <3>1. u \in Storing(b)
        BY <1>8, <2>1 DEF Storing
    <3>2. QED
        BY <1>1, <3>1 DEF KeptBy
  <2>5. QED
      BY <1>4, <1>5, <1>8, <2>2, <2>3, <2>4, FS_EmptySet DEF KeptBy
<1>9. QED
    BY <1>6, <1>7, <1>8

\* Whatever creations, copies, moves, assignments and destructors of any number
\* of references there are, each access to a count with others in between: an
\* object lives as long as it is referred to, and its buffer is given to no other
\* before it was destroyed (shared_objects.h).
THEOREM PoolIsOwned == PoolSpec => []BuffersAreOwned
<1> DEFINE Inv == PoolTypes /\ UsersSound /\ Kept
<1>1. PoolInit => Inv
    BY PoolInitTypes, PoolInitSound, PoolInitKept
<1>2. Inv /\ [PoolNext]_poolVars => Inv'
  <2>1. Inv /\ [PoolNext]_poolVars => (PoolTypes /\ UsersSound)'
      BY PoolNextTypes, PoolNextSound
  <2>2. Inv /\ PoolNext => Kept'
      BY CreatingKept, ReferringKept, ClosingKept DEF PoolNext
  <2>3. Inv /\ UNCHANGED poolVars => Kept'
      BY DEF Kept, Counted, Closing, Storing, poolVars
  <2>4. QED
      BY <2>1, <2>2, <2>3
<1>3. Inv => BuffersAreOwned
    BY KeptIsEnough
<1>4. QED
    BY <1>1, <1>2, <1>3, PTL DEF PoolSpec

-----------------------------------------------------------------------------
(* The path of a call: recursive functions.                                *)

\* A function whose values come each from the one before.
Successors(g, m, S) == g \in [1..m -> [S -> S]]
Follows(p, g, m, S, a) ==
    p \in [0..m -> S] /\ p[0] = a /\ \A k \in 1..m : p[k] = g[k][p[k - 1]]

\* Such a function exists.
LEMMA Recursion ==
    ASSUME NEW m \in Nat, NEW S, NEW a \in S, NEW g, Successors(g, m, S)
    PROVE  \E p : Follows(p, g, m, S, a)
<1> USE DEF Successors, Follows
<1> DEFINE Begins(p, n) == /\ p \in [0..n -> S] /\ p[0] = a
                           /\ \A k \in 1..n : p[k] = g[k][p[k - 1]]
           Lengths == {n \in Nat : n \in 0..m => \E p : Begins(p, n)}
<1>1. 0 \in Lengths
  <2>1. Begins([k \in 0..0 |-> a], 0)
      OBVIOUS
  <2> HIDE DEF Begins
  <2>2. QED
      BY <2>1
<1>2. ASSUME NEW n \in Lengths PROVE n + 1 \in Lengths
  <2> SUFFICES ASSUME n + 1 \in 0..m PROVE \E p : Begins(p, n + 1)
      OBVIOUS
  <2>1. n \in Nat /\ n + 1 \in 1..m /\ \E p : Begins(p, n)
    <3> HIDE DEF Begins
    <3>1. QED
        OBVIOUS
  <2>2. PICK p : Begins(p, n)
      BY <2>1
  <2> DEFINE q == [k \in 0..n + 1 |-> IF k = n + 1 THEN g[n + 1][p[n]] ELSE p[k]]
  <2>3. p[n] \in S /\ g[n + 1] \in [S -> S]
      BY <2>1, <2>2
  <2>4. g[n + 1][p[n]] \in S
      BY <2>3
  <2>5. q \in [0..n + 1 -> S] /\ q[0] = a
    <3>1. \A k \in 0..n : p[k] \in S
        BY <2>1, <2>2
    <3>2. 0 \in 0..n + 1 /\ 0 # n + 1 /\ p[0] = a
        BY <2>1, <2>2
    <3> HIDE DEF Begins
    <3>3. q \in [0..n + 1 -> S]
        BY <2>1, <2>4, <3>1
    <3>4. QED
        BY <3>2, <3>3
  <2>6. ASSUME NEW k \in 1..n + 1 PROVE q[k] = g[k][q[k - 1]]
    <3>1. CASE k = n + 1
        BY <2>1, <3>1
    <3>2. CASE k # n + 1
      <4>1. k \in 1..n /\ q[k] = p[k] /\ q[k - 1] = p[k - 1]
          BY <2>1, <3>2
      <4>2. p[k] = g[k][p[k - 1]]
          BY <2>2, <4>1
      <4> HIDE DEF q
      <4>3. QED
          BY <4>1, <4>2
    <3>3. QED
        BY <3>1, <3>2
  <2> HIDE DEF q
  <2>7. Begins(q, n + 1)
      BY <2>5, <2>6
  <2> HIDE DEF Begins
  <2>8. QED
      BY <2>7
<1>3. Lengths = Nat
  <2>1. Lengths \in SUBSET Nat
      OBVIOUS
  <2> HIDE DEF Lengths
  <2>2. QED
      BY <1>1, <1>2, <2>1, SetInduction
<1>4. \E p : Begins(p, m)
  <2> HIDE DEF Begins
  <2>1. m \in Lengths /\ m \in 0..m
    <3> HIDE DEF Lengths
    <3>1. QED
        BY <1>3
  <2>2. QED
      BY <2>1
<1>5. QED
    BY <1>4

-----------------------------------------------------------------------------
(* Messages: where an object ends.                                         *)

\* The number of objects that a header announces, as an integer
LEMMA ArityType == ASSUME NEW token \in Tokens PROVE Arity(token) \in Int
BY DEF Tokens, Arity

\* Missing(s, i, k) is computed token by token: one object less, and those of
\* its header more.
LEMMA MissingLaw ==
    ASSUME NEW s \in Seq(Tokens), NEW i \in Nat \ {0}
    PROVE  \A k \in 0..Len(s) :
             /\ Missing(s, i, k) \in Int
             /\ Missing(s, i, k) = IF k < i THEN 1
                                   ELSE Missing(s, i, k - 1) - 1 + Arity(s[k])
<1> DEFINE Next(p, k) == IF k < i THEN 1 ELSE p[k - 1] - 1 + Arity(s[k])
           Solves(p) == p = [k \in 0..Len(s) |-> Next(p, k)]
<1>1. Len(s) \in Nat /\ \A k \in 1..Len(s) : Arity(s[k]) \in Int
    BY ArityType
<1>2. \E p : Solves(p)
  <2> DEFINE g == [k \in 1..Len(s) |-> [x \in Int |-> IF k < i THEN 1 ELSE x - 1 + Arity(s[k])]]
  <2>1. g \in [1..Len(s) -> [Int -> Int]] /\ 1 \in Int
      BY <1>1
  <2>2. Successors(g, Len(s), Int)
      BY <2>1 DEF Successors
  <2>3. PICK p : Follows(p, g, Len(s), Int, 1)
    <3> HIDE DEF g
    <3>1. QED
        BY <1>1, <2>1, <2>2, Recursion
  <2>4. ASSUME NEW k \in 0..Len(s) PROVE p[k] = Next(p, k)
    <3>1. CASE k = 0
        BY <2>3, <3>1 DEF Follows
    <3>2. CASE k # 0
      <4>1. k \in 1..Len(s) /\ k - 1 \in 0..Len(s)
          BY <1>1, <3>2
      <4>11. p[k - 1] \in Int
          BY <2>3, <4>1 DEF Follows
      <4>2. p[k] = g[k][p[k - 1]]
          BY <2>3, <4>1 DEF Follows
      <4>3. QED
          BY <4>1, <4>11, <4>2
    <3>3. QED
        BY <3>1, <3>2
  <2>5. p = [k \in 0..Len(s) |-> p[k]]
      BY <2>3 DEF Follows
  <2> HIDE DEF Next
  <2>6. Solves(p)
      BY <2>4, <2>5
  <2> HIDE DEF Solves
  <2>7. QED
      BY <2>6
<1> DEFINE missing == CHOOSE p : Solves(p)
<1>3. Solves(missing)
  <2> HIDE DEF Solves
  <2>1. QED
      BY <1>2
<1>4. \A k \in 0..Len(s) : Missing(s, i, k) = missing[k]
    BY DEF Missing
<1> HIDE DEF missing
<1>5. \A k \in 0..Len(s) : missing[k] = Next(missing, k)
    BY <1>3
<1> DEFINE Whole == {n \in Nat : n \in 0..Len(s) => missing[n] \in Int}
<1>6. 0 \in Whole
    BY <1>5
<1>7. ASSUME NEW n \in Whole PROVE n + 1 \in Whole
  <2> SUFFICES ASSUME n + 1 \in 0..Len(s) PROVE missing[n + 1] \in Int
      OBVIOUS
  <2>1. missing[n] \in Int /\ n + 1 \in 1..Len(s)
      BY <1>1
  <2>2. missing[n + 1] = Next(missing, n + 1)
      BY <1>5
  <2>3. (n + 1) - 1 = n /\ Arity(s[n + 1]) \in Int
      BY <1>1, <2>1
  <2>4. QED
      BY <2>1, <2>2, <2>3
<1>8. Whole = Nat
  <2>1. Whole \in SUBSET Nat
      OBVIOUS
  <2> HIDE DEF Whole
  <2>2. QED
      BY <1>6, <1>7, <2>1, SetInduction
<1>9. \A k \in 0..Len(s) : missing[k] \in Int
    BY <1>1, <1>8
<1>10. ASSUME NEW k \in 0..Len(s)
       PROVE  Missing(s, i, k) = IF k < i THEN 1
                                 ELSE Missing(s, i, k - 1) - 1 + Arity(s[k])
  <2>1. Missing(s, i, k) = Next(missing, k)
      BY <1>4, <1>5
  <2>2. k >= i => k - 1 \in 0..Len(s)
      BY <1>1
  <2>3. k >= i => Missing(s, i, k - 1) = missing[k - 1]
      BY <1>4, <2>2
  <2>4. k < i \/ k >= i
      OBVIOUS
  <2>5. QED
      BY <2>1, <2>3, <2>4
<1>11. QED
    BY <1>4, <1>9, <1>10
\* An object that is complete ends at the first place where none is missing.
LEMMA EndIsLeast ==
    ASSUME NEW s \in Seq(Tokens), NEW i \in Nat \ {0}, Ends(s, i) # {}
    PROVE  End(s, i) \in Ends(s, i) /\ \A e \in Ends(s, i) : End(s, i) <= e
<1>1. Ends(s, i) \in SUBSET Nat
    BY DEF Ends
<1>2. \E k \in Ends(s, i) : \A e \in Ends(s, i) : k <= e
    BY <1>1, LeastMember
<1>3. QED
    BY <1>2 DEF End

\* The end of the object that begins a sequence.
LEMMA FirstEnd ==
    ASSUME NEW s \in Seq(Tokens), Ends(s, 1) # {}
    PROVE  End(s, 1) \in Ends(s, 1) /\ \A e \in Ends(s, 1) : End(s, 1) <= e
<1>1. 1 \in Nat \ {0}
    OBVIOUS
<1>2. \A i \in Nat \ {0} : Ends(s, i) # {} =>
         End(s, i) \in Ends(s, i) /\ \A e \in Ends(s, i) : End(s, i) <= e
    BY EndIsLeast
<1>3. QED
    BY <1>1, <1>2

\* An object ends where none is missing for the first time.
LEMMA EndsAt ==
    ASSUME NEW s \in Seq(Tokens), NEW i \in Nat \ {0}, NEW k \in i..Len(s),
           Missing(s, i, k) = 0, \A j \in i..(k - 1) : Missing(s, i, j) # 0
    PROVE  k \in Ends(s, i) /\ End(s, i) = k
<1>1. k \in Ends(s, i) /\ k \in Nat
    BY DEF Ends
<1>2. End(s, i) \in Ends(s, i) /\ End(s, i) <= k
    BY <1>1, EndIsLeast
<1>3. End(s, i) \in i..Len(s) /\ Missing(s, i, End(s, i)) = 0
    BY <1>2 DEF Ends
<1>4. QED
    BY <1>1, <1>2, <1>3

\* Objects without elements, one by one.
LEMMA Countdown ==
    ASSUME NEW s \in Seq(Tokens), NEW i \in Nat \ {0}, NEW p \in i..Len(s), NEW n \in Nat,
           p + n <= Len(s), \A j \in p + 1..p + n : Arity(s[j]) = 0
    PROVE  \A j \in 0..n : Missing(s, i, p + j) = Missing(s, i, p) - j
<1> DEFINE v == Missing(s, i, p)
<1>0. v \in Int
    BY MissingLaw
<1> HIDE DEF v
<1> DEFINE Reached == {j \in Nat : j \in 0..n => Missing(s, i, p + j) = v - j}
<1>1. p \in Nat /\ p >= i /\ Len(s) \in Nat
    OBVIOUS
<1>2. 0 \in Reached
  <2>1. p + 0 = p
      BY <1>1
  <2>2. QED
      BY <1>0, <2>1 DEF v
<1>3. ASSUME NEW j \in Reached PROVE j + 1 \in Reached
  <2> SUFFICES ASSUME j + 1 \in 0..n PROVE Missing(s, i, p + (j + 1)) = v - (j + 1)
      OBVIOUS
  <2>1. j \in 0..n /\ Missing(s, i, p + j) = v - j
      OBVIOUS
  <2>2. /\ p + (j + 1) \in 0..Len(s) /\ p + (j + 1) \in p + 1..p + n
        /\ ~(p + (j + 1) < i) /\ (p + (j + 1)) - 1 = p + j
      BY <1>1, <2>1
  <2>3. Arity(s[p + (j + 1)]) = 0
      BY <2>2
  <2>4. Missing(s, i, p + (j + 1)) = Missing(s, i, p + j) - 1 + Arity(s[p + (j + 1)])
      BY <2>2, MissingLaw
  <2>5. QED
      BY <1>0, <2>1, <2>3, <2>4
<1>4. Reached = Nat
  <2>1. Reached \in SUBSET Nat
      OBVIOUS
  <2> HIDE DEF Reached
  <2>2. QED
      BY <1>2, <1>3, <2>1, SetInduction
<1>5. \A j \in 0..n : j \in Reached
  <2> HIDE DEF Reached
  <2>1. QED
      BY <1>4
<1>6. QED
    BY <1>5 DEF v

\* An array of objects without elements, or one such object.
LEMMA ArrayEnd ==
    ASSUME NEW s \in Seq(Tokens), NEW i \in 1..Len(s), NEW n \in Nat,
           Arity(s[i]) = n, i + n <= Len(s),
           \A j \in i + 1..i + n : Arity(s[j]) = 0
    PROVE  i + n \in Ends(s, i) /\ End(s, i) = i + n
<1>1. i \in Nat \ {0} /\ Len(s) \in Nat /\ i - 1 \in 0..Len(s) /\ i \in 0..Len(s)
    OBVIOUS
<1>2. Missing(s, i, i - 1) = 1
    BY <1>1, MissingLaw
<1>3. Missing(s, i, i) = n
    BY <1>1, <1>2, MissingLaw
<1>4. \A j \in 0..n : Missing(s, i, i + j) = n - j
  <2>1. i \in i..Len(s) /\ i + n <= Len(s) /\ \A j \in i + 1..i + n : Arity(s[j]) = 0
      BY <1>1
  <2>2. \A j \in 0..n : Missing(s, i, i + j) = Missing(s, i, i) - j
      BY <1>1, <2>1, Countdown
  <2>3. QED
      BY <1>3, <2>2
<1>5. \A k \in i..i + n : Missing(s, i, k) = n - (k - i)
  <2> TAKE k \in i..i + n
  <2>1. k - i \in 0..n /\ i + (k - i) = k
      BY <1>1
  <2>2. QED
      BY <1>4, <2>1
<1>6. i + n \in i..Len(s) /\ Missing(s, i, i + n) = 0
    BY <1>1, <1>5
<1>7. \A k \in i..(i + n) - 1 : Missing(s, i, k) # 0
    BY <1>1, <1>5
<1>8. QED
    BY <1>1, <1>6, <1>7, EndsAt

\* What is missing depends on the tokens up to there.
LEMMA MissingOfPrefix ==
    ASSUME NEW s \in Seq(Tokens), NEW t \in Seq(Tokens), Len(s) <= Len(t),
           \A k \in 1..Len(s) : s[k] = t[k]
    PROVE  \A k \in 0..Len(s) : Missing(s, 1, k) = Missing(t, 1, k)
<1> DEFINE Same == {k \in Nat : k \in 0..Len(s) => Missing(s, 1, k) = Missing(t, 1, k)}
<1>1. Len(s) \in Nat /\ Len(t) \in Nat
    OBVIOUS
<1>2. 0 \in Same
    BY <1>1, MissingLaw
<1>3. ASSUME NEW k \in Same PROVE k + 1 \in Same
  <2> SUFFICES ASSUME k + 1 \in 0..Len(s) PROVE Missing(s, 1, k + 1) = Missing(t, 1, k + 1)
      OBVIOUS
  <2>1. /\ k \in 0..Len(s) /\ k + 1 \in 1..Len(s) /\ k + 1 \in 0..Len(t)
        /\ ~(k + 1 < 1) /\ (k + 1) - 1 = k
      BY <1>1
  <2>2. Missing(s, 1, k + 1) = Missing(s, 1, k) - 1 + Arity(s[k + 1])
      BY <2>1, MissingLaw
  <2>3. Missing(t, 1, k + 1) = Missing(t, 1, k) - 1 + Arity(t[k + 1])
      BY <2>1, MissingLaw
  <2>4. QED
      BY <2>1, <2>2, <2>3
<1>4. Same = Nat
  <2>1. Same \in SUBSET Nat
      OBVIOUS
  <2> HIDE DEF Same
  <2>2. QED
      BY <1>2, <1>3, <2>1, SetInduction
<1>5. QED
    BY <1>1, <1>4

\* An end that is in a prefix is one of the whole.
LEMMA EndsOfPrefix ==
    ASSUME NEW s \in Seq(Tokens), NEW t \in Seq(Tokens), Len(s) <= Len(t),
           \A k \in 1..Len(s) : s[k] = t[k]
    PROVE  Ends(s, 1) = Ends(t, 1) \cap 1..Len(s)
<1>1. \A k \in 0..Len(s) : Missing(s, 1, k) = Missing(t, 1, k)
    BY MissingOfPrefix
<1>2. Len(s) \in Nat /\ Len(t) \in Nat
    OBVIOUS
<1>3. ASSUME NEW k PROVE k \in Ends(s, 1) <=> k \in Ends(t, 1) /\ k \in 1..Len(s)
    BY <1>1, <1>2 DEF Ends
<1>4. QED
    BY <1>3

-----------------------------------------------------------------------------
(* Messages: what a buffer holds is parsed as the message it begins with.  *)

\* x begins with the tokens of s up to the n-th.
LEMMA Prefix ==
    ASSUME NEW w \in Seq(Tokens), NEW n \in 0..Len(w)
    PROVE  /\ SubSeq(w, 1, n) \in Seq(Tokens) /\ Len(SubSeq(w, 1, n)) = n
           /\ \A k \in 1..n : SubSeq(w, 1, n)[k] = w[k]
OBVIOUS

\* An object that is complete in a part of the buffer ends there as in the whole.
LEMMA PrefixEnds ==
    ASSUME NEW w \in Seq(Tokens), NEW n \in 0..Len(w)
    PROVE  Ends(SubSeq(w, 1, n), 1) = Ends(w, 1) \cap 1..n
<1> DEFINE b == SubSeq(w, 1, n)
<1>1. b \in Seq(Tokens) /\ Len(b) = n /\ \A k \in 1..n : b[k] = w[k]
    BY Prefix
<1>2. Len(b) <= Len(w)
    BY <1>1
<1> HIDE DEF b
<1>3. Ends(b, 1) = Ends(w, 1) \cap 1..Len(b)
    BY <1>1, <1>2, EndsOfPrefix
<1>4. QED
    BY <1>1, <1>3 DEF b

\* The byte that stops the parser is the same for all that hold it.
LEMMA PrefixBroken ==
    ASSUME NEW w \in Seq(Tokens), NEW n \in 0..Len(w)
    PROVE  Broken(SubSeq(w, 1, n)) <=>
             \E k \in 1..n : w[k] = Bad /\ \A e \in Ends(w, 1) : k <= e
<1> DEFINE b == SubSeq(w, 1, n)
<1>1. Len(b) = n /\ \A k \in 1..n : b[k] = w[k]
    BY Prefix
<1>2. Ends(b, 1) = Ends(w, 1) \cap 1..n
    BY PrefixEnds
<1>3. \A e \in Ends(w, 1) : e \in Nat \ {0}
    BY DEF Ends
<1> HIDE DEF b
<1>4. ASSUME NEW k \in 1..n
      PROVE  (\A e \in Ends(b, 1) : k <= e) <=> (\A e \in Ends(w, 1) : k <= e)
  <2>1. \A e \in Ends(w, 1) : e \in 1..n \/ k <= e
      BY <1>3
  <2>2. QED
      BY <1>2, <2>1
<1>5. QED
    BY <1>1, <1>4 DEF Broken, b

\* MessageParser::try_parse() of any part of a whole message that it can parse
\* ends as it does for the message, and takes all of it.
LEMMA ParsePrefix ==
    ASSUME NEW w \in Seq(Tokens), NEW m \in 0..Len(w), NEW n \in 0..Len(w),
           NEW t, NEW b, t = SubSeq(w, 1, m), b = SubSeq(w, 1, n),
           IsMessage(t), Broken(b) \/ Complete(b)
    PROVE  /\ m \in Nat \ {0} /\ try_parse(b) = try_parse(t)
           /\ Broken(b) => ~Succeeded(try_parse(b))
           /\ ~Broken(b) => m \in 1..n /\ End(b, 1) = m
<1> DEFINE E == Ends(w, 1)
           Stops(k) == w[k] = Bad /\ \A e \in E : k <= e
<1>1. t \in Seq(Tokens) /\ Len(t) = m /\ b \in Seq(Tokens) /\ Len(b) = n
    BY Prefix
<1>2. Ends(t, 1) = E \cap 1..m /\ Ends(b, 1) = E \cap 1..n /\ E \in SUBSET Nat
  <2>1. E \in SUBSET Nat
      BY DEF Ends
  <2>2. QED
      BY <2>1, PrefixEnds
<1>3. /\ Broken(t) <=> \E k \in 1..m : Stops(k)
      /\ Broken(b) <=> \E k \in 1..n : Stops(k)
    BY PrefixBroken
<1>4. Broken(t) \/ (m \in E /\ m \in 1..m /\ \A e \in E : m <= e)
  <2> SUFFICES ASSUME ~Broken(t) PROVE m \in E /\ m \in 1..m /\ \A e \in E : m <= e
      OBVIOUS
  <2>1. Ends(t, 1) # {} /\ End(t, 1) = m
      BY <1>1 DEF IsMessage, Complete
  <2>2. End(t, 1) \in Ends(t, 1)
      BY <1>1, <2>1, FirstEnd
  <2>3. m \in E /\ m \in 1..m
      BY <1>2, <2>1, <2>2
  <2>4. \A e \in Ends(t, 1) : m <= e
      BY <1>1, <2>1, FirstEnd
  <2>5. ASSUME NEW e \in E PROVE m <= e
    <3>1. e \in Nat \ {0}
        BY DEF Ends
    <3>2. e \in 1..m \/ m <= e
        BY <3>1
    <3>3. QED
        BY <1>2, <2>4, <3>2
  <2>6. QED
      BY <2>3, <2>5
<1>5. Broken(b) \/ E \cap 1..n # {}
    BY <1>2 DEF Complete
<1> HIDE DEF E
<1>6. Broken(b) <=> Broken(t)
  <2>1. ASSUME Broken(t), ~Broken(b) PROVE FALSE
    <3>1. PICK k \in 1..m : Stops(k)
        BY <1>3, <2>1
    <3>2. k \notin 1..n
        BY <1>3, <2>1, <3>1
    <3>3. PICK e \in E : e \in 1..n
        BY <1>5, <2>1
    <3>4. k <= e
        BY <3>1, <3>3
    <3>5. QED
        BY <3>2, <3>3, <3>4
  <2>2. ASSUME Broken(b), ~Broken(t) PROVE FALSE
    <3>1. PICK k \in 1..n : Stops(k)
        BY <1>3, <2>2
    <3>2. k \notin 1..m
        BY <1>3, <2>2, <3>1
    <3>3. k <= m
        BY <1>4, <2>2, <3>1
    <3>4. QED
        BY <3>2, <3>3
  <2>3. QED
      BY <2>1, <2>2
<1>7. CASE Broken(b)
  <2>1. try_parse(b) = Throws("INVALID_MESSAGE") /\ try_parse(t) = Throws("INVALID_MESSAGE")
      BY <1>6, <1>7 DEF try_parse
  <2>2. ~Succeeded(Throws("INVALID_MESSAGE"))
      BY DEF Succeeded, Throws, Failures, StatusCodes
  <2>3. m # 0
    <3>1. PICK k \in 1..m : Stops(k)
        BY <1>3, <1>6, <1>7
    <3>2. QED
        BY <3>1
  <2>4. QED
      BY <1>7, <2>1, <2>2, <2>3
<1>8. CASE ~Broken(b)
  <2>1. m \in E /\ m \in 1..m /\ \A e \in E : m <= e
      BY <1>4, <1>6, <1>8
  <2>2. PICK e \in E : e \in 1..n
      BY <1>5, <1>8
  <2>3. m \in 1..n
      BY <2>1, <2>2
  <2>4. m \in Ends(b, 1) /\ m \in Ends(t, 1)
      BY <1>2, <2>1, <2>3
  <2>5. End(b, 1) = m /\ End(t, 1) = m
    <3>1. End(b, 1) \in Ends(b, 1) /\ End(b, 1) <= m
        BY <1>1, <2>4, FirstEnd
    <3>2. End(t, 1) \in Ends(t, 1) /\ End(t, 1) <= m
        BY <1>1, <2>4, FirstEnd
    <3>3. m <= End(b, 1) /\ m <= End(t, 1) /\ End(b, 1) \in Nat /\ End(t, 1) \in Nat
        BY <1>2, <2>1, <3>1, <3>2
    <3>4. QED
        BY <3>1, <3>2, <3>3
  <2>6. FirstObject(b) = FirstObject(t)
    <3>1. FirstObject(b) = SubSeq(b, 1, m) /\ FirstObject(t) = SubSeq(t, 1, m)
        BY <2>5 DEF FirstObject
    <3>2. SubSeq(b, 1, m) = SubSeq(w, 1, m) /\ SubSeq(t, 1, m) = SubSeq(w, 1, m)
        BY <2>3
    <3>3. QED
        BY <3>1, <3>2
  <2>7. try_parse(b) = try_parse(t)
      BY <1>6, <1>8, <2>6 DEF try_parse
  <2>8. QED
      BY <1>8, <2>3, <2>5, <2>7
<1>9. QED
    BY <1>7, <1>8

-----------------------------------------------------------------------------
(* Streams of messages, cut anywhere by reads.                             *)

Meanings == {Meaning(t) : t \in Seq(Tokens)}
Meant(t, m) == IsMessage(t) /\ Meaning(t) = m

\* w is the messages of ms after the k-th, and c tells where each ends.
Cuts(w, ms, k, c) ==
    /\ c \in [k..Len(ms) -> 0..Len(w)]
    /\ c[k] = 0 /\ c[Len(ms)] = Len(w)
    /\ \A j \in k + 1..Len(ms) :
          c[j - 1] <= c[j] /\ Meant(SubSeq(w, c[j - 1] + 1, c[j]), ms[j])

IsStream(w, ms, k) ==
    w \in Seq(Tokens) /\ k \in 0..Len(ms) /\ \E c : Cuts(w, ms, k, c)

\* A part of what is on the way is the same when more is put behind it.
LEMMA SubSeqOfConcat ==
    ASSUME NEW w \in Seq(Tokens), NEW t \in Seq(Tokens),
           NEW x \in 0..Len(w), NEW y \in 0..Len(w)
    PROVE  SubSeq(w \o t, x + 1, y) = SubSeq(w, x + 1, y)
OBVIOUS

\* At first nothing is on the way.
LEMMA StreamBegins == ASSUME NEW ms, ms = <<>> PROVE IsStream(<<>>, ms, 0)
<1> DEFINE c == [j \in 0..0 |-> 0]
<1>1. Len(ms) = 0 /\ Len(<<>>) = 0 /\ <<>> \in Seq(Tokens)
    OBVIOUS
<1>2. c \in [0..0 -> 0..0] /\ c[0] = 0
    OBVIOUS
<1> HIDE DEF c
<1>3. Cuts(<<>>, ms, 0, c)
    BY <1>1, <1>2 DEF Cuts
<1>4. QED
    BY <1>1, <1>3 DEF IsStream

\* A message put behind a stream is the last one of it.
LEMMA StreamGrows ==
    ASSUME NEW S, NEW ms \in Seq(S), NEW m \in S, NEW w, NEW k, NEW t,
           IsStream(w, ms, k), Meant(t, m)
    PROVE  IsStream(w \o t, Append(ms, m), k)
<1> DEFINE n == Len(ms)
           more == Append(ms, m)
           all == w \o t
<1>1. /\ w \in Seq(Tokens) /\ t \in Seq(Tokens) /\ n \in Nat /\ k \in 0..n
      /\ Len(w) \in Nat /\ Len(t) \in Nat
    BY DEF IsStream, Meant, IsMessage
<1>2. /\ all \in Seq(Tokens) /\ Len(all) = Len(w) + Len(t)
      /\ Len(more) = n + 1 /\ more[n + 1] = m /\ \A j \in 1..n : more[j] = ms[j]
    BY <1>1
<1>3. PICK c : Cuts(w, ms, k, c)
    BY DEF IsStream
<1> DEFINE d == [j \in k..n + 1 |-> IF j = n + 1 THEN Len(w) + Len(t) ELSE c[j]]
<1>4. c[k] = 0 /\ c[n] = Len(w) /\ \A j \in k..n : c[j] \in 0..Len(w)
    BY <1>3 DEF Cuts
<1>5. /\ d[n + 1] = Len(w) + Len(t) /\ \A j \in k..n : d[j] = c[j]
      /\ d \in [k..n + 1 -> 0..(Len(w) + Len(t))]
    BY <1>1, <1>4
<1> HIDE DEF d
<1>6. d[k] = 0 /\ d[n] = Len(w)
    BY <1>1, <1>4, <1>5
<1>7. SubSeq(all, Len(w) + 1, Len(w) + Len(t)) = t
    BY <1>1
<1> HIDE DEF more
<1>8. ASSUME NEW j \in k + 1..n + 1
      PROVE  d[j - 1] <= d[j] /\ Meant(SubSeq(all, d[j - 1] + 1, d[j]), more[j])
  <2>1. CASE j = n + 1
    <3>1. j - 1 = n
        BY <1>1, <2>1
    <3>2. d[j - 1] = Len(w) /\ d[j] = Len(w) + Len(t) /\ more[j] = m
        BY <1>2, <1>5, <1>6, <2>1, <3>1
    <3>3. d[j - 1] <= d[j]
        BY <1>1, <3>2
    <3> HIDE DEF all
    <3>4. QED
        BY <1>7, <3>2, <3>3
  <2>2. CASE j # n + 1
    <3>1. j \in k + 1..n /\ j \in 1..n /\ j \in k..n /\ j - 1 \in k..n
        BY <1>1, <2>2
    <3>2. d[j] = c[j] /\ d[j - 1] = c[j - 1] /\ c[j] \in 0..Len(w) /\ c[j - 1] \in 0..Len(w)
        BY <1>4, <1>5, <3>1
    <3>3. c[j - 1] <= c[j] /\ Meant(SubSeq(w, c[j - 1] + 1, c[j]), ms[j])
        BY <1>3, <3>1 DEF Cuts
    <3>4. SubSeq(all, c[j - 1] + 1, c[j]) = SubSeq(w, c[j - 1] + 1, c[j])
        BY <1>1, <3>2, SubSeqOfConcat
    <3>5. more[j] = ms[j]
        BY <1>2, <3>1
    <3>6. QED
        BY <3>2, <3>3, <3>4, <3>5
  <2>3. QED
      BY <2>1, <2>2
<1> HIDE DEF all
<1>9. Cuts(all, more, k, d)
    BY <1>2, <1>5, <1>6, <1>8 DEF Cuts
<1>10. k \in 0..Len(more)
    BY <1>1, <1>2
<1>11. IsStream(all, more, k)
    BY <1>2, <1>9, <1>10 DEF IsStream
<1>12. QED
    BY <1>11 DEF all, more

\* Nothing is on the way when every message was taken.
LEMMA StreamEnds ==
    ASSUME NEW S, NEW ms \in Seq(S), NEW k, IsStream(<<>>, ms, k)
    PROVE  k = Len(ms)
<1>1. PICK c : Cuts(<<>>, ms, k, c)
    BY DEF IsStream
<1>2. k \in 0..Len(ms) /\ Len(ms) \in Nat /\ Len(<<>>) = 0
    BY DEF IsStream
<1> SUFFICES ASSUME k # Len(ms) PROVE FALSE
    OBVIOUS
<1>3. k + 1 \in k + 1..Len(ms) /\ k \in k..Len(ms) /\ k + 1 \in k..Len(ms) /\ (k + 1) - 1 = k
    BY <1>2
<1>4. c[k] = 0 /\ c[k + 1] = 0
    BY <1>1, <1>2, <1>3 DEF Cuts
<1>5. IsMessage(SubSeq(<<>>, 0 + 1, 0))
    BY <1>1, <1>3, <1>4 DEF Cuts, Meant
<1>6. SubSeq(<<>>, 0 + 1, 0) = <<>>
    OBVIOUS
<1>7. ~Broken(<<>>) /\ ~Complete(<<>>)
    BY <1>2 DEF Broken, Complete, Ends
<1>8. QED
    BY <1>5, <1>6, <1>7 DEF IsMessage

\* The message at the beginning is what the parser gets from any part of the
\* stream that it can parse, and it takes no more.
LEMMA StreamParsed ==
    ASSUME NEW S, NEW ms \in Seq(S), NEW k, NEW w, NEW n \in 0..Len(w), NEW b,
           IsStream(w, ms, k), b = SubSeq(w, 1, n), Broken(b) \/ Complete(b)
    PROVE  /\ k + 1 \in 1..Len(ms)
           /\ ~Succeeded(try_parse(b)) => ms[k + 1] = Malformed
           /\ Succeeded(try_parse(b)) =>
                 /\ try_parse(b).value = ms[k + 1]
                 /\ End(b, 1) \in 1..n
                 /\ IsStream(SubSeq(w, End(b, 1) + 1, Len(w)), ms, k + 1)
<1>1. PICK c : Cuts(w, ms, k, c)
    BY DEF IsStream
<1>2. w \in Seq(Tokens) /\ k \in 0..Len(ms) /\ Len(ms) \in Nat /\ Len(w) \in Nat
    BY DEF IsStream
<1>3. k # Len(ms)
  <2> SUFFICES ASSUME k = Len(ms) PROVE FALSE
      OBVIOUS
  <2>1. Len(w) = 0
      BY <1>1 DEF Cuts
  <2>2. b \in Seq(Tokens) /\ Len(b) = 0
      BY <1>2, <2>1, Prefix
  <2>3. QED
      BY <2>2 DEF Broken, Complete, Ends
<1>4. k + 1 \in 1..Len(ms) /\ k + 1 \in k + 1..Len(ms) /\ (k + 1) - 1 = k
      /\ k + 1 \in k..Len(ms)
    BY <1>2, <1>3
<1> DEFINE m == c[k + 1]
           t == SubSeq(w, 1, m)
<1>5. m \in 0..Len(w) /\ c[k] = 0
    BY <1>1, <1>4 DEF Cuts
<1>6. IsMessage(t) /\ Meaning(t) = ms[k + 1]
  <2>1. Meant(SubSeq(w, c[k] + 1, m), ms[k + 1])
      BY <1>1, <1>4 DEF Cuts
  <2>2. SubSeq(w, c[k] + 1, m) = t
      BY <1>5
  <2>3. QED
      BY <2>1, <2>2 DEF Meant
<1>7. /\ m \in Nat \ {0} /\ try_parse(b) = try_parse(t)
      /\ Broken(b) => ~Succeeded(try_parse(b))
      /\ ~Broken(b) => m \in 1..n /\ End(b, 1) = m
  <2>1. t = SubSeq(w, 1, m)
      OBVIOUS
  <2>2. w \in Seq(Tokens) /\ m \in 0..Len(w) /\ IsMessage(t)
      BY <1>2, <1>5, <1>6
  <2> HIDE DEF m, t
  <2>3. \A x, y : x = SubSeq(w, 1, m) /\ y = SubSeq(w, 1, n)
                    /\ IsMessage(x) /\ (Broken(y) \/ Complete(y)) =>
           /\ m \in Nat \ {0} /\ try_parse(y) = try_parse(x)
           /\ Broken(y) => ~Succeeded(try_parse(y))
           /\ ~Broken(y) => m \in 1..n /\ End(y, 1) = m
      BY <2>2, ParsePrefix, Zenon
  <2>4. QED
      BY <2>1, <2>2, <2>3
<1>8. ~Succeeded(try_parse(b)) => ms[k + 1] = Malformed
    BY <1>6, <1>7 DEF Meaning
<1>9. ASSUME Succeeded(try_parse(b))
      PROVE  /\ try_parse(b).value = ms[k + 1]
             /\ End(b, 1) \in 1..n
             /\ IsStream(SubSeq(w, End(b, 1) + 1, Len(w)), ms, k + 1)
  <2>1. m \in 1..n /\ End(b, 1) = m /\ try_parse(b).value = ms[k + 1]
      BY <1>6, <1>7, <1>9 DEF Meaning
  <2> DEFINE r == SubSeq(w, m + 1, Len(w))
             d == [j \in k + 1..Len(ms) |-> c[j] - m]
  <2>2. r \in Seq(Tokens) /\ Len(r) = Len(w) - m
    <3> HIDE DEF m
    <3>1. QED
        BY <1>2, <1>5
  <2>3. ASSUME NEW j \in Nat
        PROVE  j \in k + 1..Len(ms) => c[j] \in m..Len(w)
    <3> DEFINE After == {i \in Nat : i \in k + 1..Len(ms) => c[i] \in m..Len(w)}
    <3>1. 0 \in After
        BY <1>2
    <3>2. ASSUME NEW i \in After PROVE i + 1 \in After
      <4> SUFFICES ASSUME i + 1 \in k + 1..Len(ms) PROVE c[i + 1] \in m..Len(w)
          OBVIOUS
      <4>1. i + 1 \in k..Len(ms)
          BY <1>2
      <4>11. c[i + 1] \in 0..Len(w)
          BY <1>1, <4>1 DEF Cuts
      <4>2. CASE i = k
          BY <1>5, <4>11, <4>2
      <4>3. CASE i # k
        <5>1. i \in k + 1..Len(ms) /\ (i + 1) - 1 = i
            BY <1>2, <4>3
        <5>2. c[i] \in m..Len(w) /\ c[i] <= c[i + 1]
            BY <1>1, <5>1 DEF Cuts
        <5>3. QED
            BY <1>5, <4>11, <5>2
      <4>4. QED
          BY <4>2, <4>3
    <3>3. After = Nat
      <4>1. After \in SUBSET Nat
          OBVIOUS
      <4> HIDE DEF After
      <4>2. QED
          BY <3>1, <3>2, <4>1, SetInduction
    <3>4. j \in After
      <4> HIDE DEF After
      <4>1. QED
          BY <3>3
    <3>5. QED
        BY <3>4
  <2>4. \A j \in k + 1..Len(ms) : c[j] \in m..Len(w)
      BY <1>2, <2>3
  <2>5. d \in [k + 1..Len(ms) -> 0..Len(r)] /\ d[k + 1] = 0 /\ d[Len(ms)] = Len(r)
    <3>1. c[Len(ms)] = Len(w) /\ Len(ms) \in k + 1..Len(ms)
        BY <1>1, <1>4 DEF Cuts
    <3>2. m \in Nat /\ c[k + 1] = m
        BY <1>5
    <3> HIDE DEF m, r
    <3>3. QED
        BY <1>2, <1>4, <2>2, <2>4, <3>1, <3>2
  <2>6. ASSUME NEW j \in (k + 1) + 1..Len(ms)
        PROVE  d[j - 1] <= d[j] /\ Meant(SubSeq(r, d[j - 1] + 1, d[j]), ms[j])
    <3>1. j \in k + 1..Len(ms) /\ j - 1 \in k + 1..Len(ms)
        BY <1>2
    <3>2. /\ c[j - 1] \in m..Len(w) /\ c[j] \in m..Len(w)
          /\ d[j - 1] = c[j - 1] - m /\ d[j] = c[j] - m
        BY <2>4, <3>1
    <3>3. c[j - 1] <= c[j] /\ Meant(SubSeq(w, c[j - 1] + 1, c[j]), ms[j])
        BY <1>1, <3>1 DEF Cuts
    <3> DEFINE x == c[j - 1]
               y == c[j]
    <3>4. SubSeq(r, (x - m) + 1, y - m) = SubSeq(w, x + 1, y)
      <4>1. m \in 0..Len(w) /\ x \in m..Len(w) /\ y \in m..Len(w)
          BY <1>5, <3>2
      <4> HIDE DEF m, x, y
      <4>2. QED
          BY <1>2, <4>1
    <3>5. d[j - 1] <= d[j]
      <4>1. m \in Nat /\ x \in Int /\ y \in Int
          BY <1>5, <3>2
      <4> HIDE DEF m, d
      <4>2. QED
          BY <3>2, <3>3, <4>1
    <3> HIDE DEF d, r, m
    <3>6. QED
        BY <3>2, <3>3, <3>4, <3>5
  <2> HIDE DEF r, d
  <2>7. Cuts(r, ms, k + 1, d)
      BY <2>5, <2>6 DEF Cuts
  <2>8. k + 1 \in 0..Len(ms)
      BY <1>4
  <2>9. IsStream(r, ms, k + 1)
      BY <2>2, <2>7, <2>8 DEF IsStream
  <2>10. QED
      BY <2>1, <2>9 DEF r
<1>10. QED
    BY <1>4, <1>8, <1>9

-----------------------------------------------------------------------------
(* Messages: what is serialized is parsed to the same.                     *)

\* An object without elements is one token that the parser takes.
LEMMA ScalarType ==
    ASSUME NEW x \in Scalars
    PROVE  x \in Tokens /\ Arity(x) = 0 /\ x # Bad /\ x.type # "array"
<1>1. x.type # "array" /\ x.type # "bad"
    BY DEF Scalars
<1>2. x \in Tokens
    BY DEF Scalars, Tokens
<1>3. QED
    BY <1>1, <1>2 DEF Arity, Bad, Token

\* The tokens that the serializer writes
LEMMA TokenTypesHere ==
    /\ Nil \in Scalars
    /\ \A n \in Int : Num(n) \in Scalars /\ Str(n) \in Scalars
    /\ \A n \in Nat : Arr(n) \in Tokens /\ Arity(Arr(n)) = n /\ Arr(n) # Bad
    /\ Names \subseteq Scalars
BY DEF Nil, Num, Str, Arr, Bad, Token, Scalars, Tokens, TokenTypes, Arity, Names

\* The elements of an array of objects without elements, but for the last one.
LEMMA ElementLaw ==
    ASSUME NEW s \in Seq(Tokens), NEW m \in Nat, Size(s) = m,
           \A i \in 2..m : End(s, i) = i
    PROVE  \A j \in 1..m : Element(s, j) = SubSeq(s, j + 1, End(s, j + 1))
<1> DEFINE From(f, i) == IF i = 1 THEN 2 ELSE End(s, f[i - 1]) + 1
           Solves(f) == f = [i \in 1..m |-> From(f, i)]
           start == CHOOSE f : Solves(f)
<1>1. \E f : Solves(f)
  <2> DEFINE f == [i \in 1..m |-> i + 1]
  <2>1. ASSUME NEW i \in 1..m PROVE f[i] = From(f, i)
    <3>1. CASE i = 1
        BY <3>1
    <3>2. CASE i # 1
      <4>1. i - 1 \in 1..m /\ f[i - 1] = i /\ i \in 2..m /\ f[i] = i + 1
          BY <3>2
      <4>2. End(s, i) = i
          BY <4>1
      <4> HIDE DEF f
      <4>3. QED
          BY <3>2, <4>1, <4>2
    <3>3. QED
        BY <3>1, <3>2
  <2>2. f = [i \in 1..m |-> f[i]]
      OBVIOUS
  <2> HIDE DEF f, From
  <2>3. Solves(f)
      BY <2>1, <2>2
  <2> HIDE DEF Solves
  <2>4. QED
      BY <2>3
<1>2. Solves(start)
  <2> HIDE DEF Solves
  <2>1. QED
      BY <1>1
<1>3. \A j \in 1..m : Element(s, j) = SubSeq(s, start[j], End(s, start[j]))
    BY DEF Element
<1> HIDE DEF start
<1>4. \A i \in 1..m : start[i] = From(start, i)
    BY <1>2
<1> DEFINE Placed == {i \in Nat : i \in 1..m => start[i] = i + 1}
<1>5. 0 \in Placed
    OBVIOUS
<1>6. ASSUME NEW i \in Placed PROVE i + 1 \in Placed
  <2> SUFFICES ASSUME i + 1 \in 1..m PROVE start[i + 1] = (i + 1) + 1
      OBVIOUS
  <2>1. start[i + 1] = From(start, i + 1)
      BY <1>4
  <2>2. CASE i = 0
      BY <2>1, <2>2
  <2>3. CASE i # 0
    <3>1. i \in 1..m /\ start[i] = i + 1 /\ i + 1 \in 2..m /\ (i + 1) - 1 = i /\ i + 1 # 1
        BY <2>3
    <3>2. End(s, i + 1) = i + 1
        BY <3>1
    <3>3. QED
        BY <2>1, <3>1, <3>2
  <2>4. QED
      BY <2>2, <2>3
<1>7. Placed = Nat
  <2>1. Placed \in SUBSET Nat
      OBVIOUS
  <2> HIDE DEF Placed
  <2>2. QED
      BY <1>5, <1>6, <2>1, SetInduction
<1>8. \A j \in 1..m : start[j] = j + 1
  <2>1. \A j \in 1..m : j \in Placed
    <3> HIDE DEF Placed
    <3>1. QED
        BY <1>7
  <2>2. QED
      BY <2>1
<1>9. QED
    BY <1>3, <1>8

\* An object of one token ends where it begins.
LEMMA OneToken ==
    ASSUME NEW s \in Seq(Tokens), NEW k \in 1..Len(s)
    PROVE  SubSeq(s, k, k) = <<s[k]>>
<1> DEFINE x == SubSeq(s, k, k)
           y == <<s[k]>>
<1>1. Len(x) = 1 /\ x[1] = s[k] /\ x \in Seq(Tokens)
    OBVIOUS
<1>2. y \in Seq(Tokens) /\ Len(y) = 1 /\ y[1] = s[k]
    OBVIOUS
<1> HIDE DEF x, y
<1>3. x = y
    BY <1>1, <1>2
<1>4. QED
    BY <1>3 DEF x, y

\* A message is an array of which only the last element may be one.
Shaped(s, q, n) ==
    /\ s \in Seq(Tokens) /\ q \in {3, 4} /\ n \in Nat /\ Len(s) = q + 1 + n
    /\ s[1] = Arr(q) /\ s[q + 1] # Bad /\ Arity(s[q + 1]) = n
    /\ \A k \in 2..Len(s) : k # q + 1 => s[k] \in Scalars

\* An array whose last element alone is an array is a whole message, and its
\* elements are where they were written.
LEMMA ShapeIsWhole ==
    ASSUME NEW s, NEW q, NEW n, Shaped(s, q, n)
    PROVE  /\ IsMessage(s) /\ ~Broken(s) /\ FirstObject(s) = s
           /\ IsArray(s) /\ Size(s) = q
           /\ \A j \in 1..q - 1 : Element(s, j) = <<s[j + 1]>>
           /\ Element(s, q) = SubSeq(s, q + 1, Len(s))
<1>1. s \in Seq(Tokens) /\ q \in Nat /\ q >= 3 /\ n \in Nat /\ Len(s) = q + 1 + n
    BY DEF Shaped
<1>2. s[1] = Arr(q) /\ s[q + 1] # Bad /\ Arity(s[1]) = q /\ Arity(s[q + 1]) = n
    BY <1>1, TokenTypesHere DEF Shaped
<1>3. \A k \in 2..Len(s) : k # q + 1 => s[k] \in Scalars
    BY DEF Shaped
<1>4. \A k \in 2..Len(s) : k # q + 1 => Arity(s[k]) = 0 /\ s[k] # Bad
    BY <1>3, ScalarType
<1>5. \A k \in 1..Len(s) : s[k] # Bad
  <2> TAKE k \in 1..Len(s)
  <2>1. k = 1 \/ k = q + 1 \/ (k \in 2..Len(s) /\ k # q + 1)
      BY <1>1
  <2>2. s[1] # Bad
      BY <1>1, <1>2, TokenTypesHere
  <2>3. QED
      BY <1>2, <1>4, <2>1, <2>2
<1>6. ~Broken(s)
    BY <1>5 DEF Broken
<1>7. Missing(s, 1, 1) = q
  <2>1. 1 \in Nat \ {0} /\ 0 \in 0..Len(s) /\ 1 \in 0..Len(s)
      BY <1>1
  <2> DEFINE i == 1
  <2> HIDE DEF i
  <2>11. \A k \in 0..Len(s) : Missing(s, i, k) =
            IF k < i THEN 1 ELSE Missing(s, i, k - 1) - 1 + Arity(s[k])
      BY <1>1, <2>1, MissingLaw DEF i
  <2>2. Missing(s, 1, 0) = 1
      BY <2>1, <2>11 DEF i
  <2>3. Missing(s, 1, 1) = Missing(s, 1, 0) - 1 + Arity(s[1])
      BY <2>1, <2>11 DEF i
  <2>4. QED
      BY <1>1, <1>2, <2>2, <2>3
<1>8. \A j \in 0..q - 1 : Missing(s, 1, 1 + j) = q - j
  <2>1. 1 \in Nat \ {0} /\ 1 \in 1..Len(s) /\ q - 1 \in Nat /\ 1 + (q - 1) <= Len(s) /\ q \in Int
      BY <1>1
  <2>2. \A j \in 1 + 1..1 + (q - 1) : Arity(s[j]) = 0
      BY <1>1, <1>4
  <2>3. QED
      BY <1>1, <1>7, <2>1, <2>2, Countdown
<1>9. Missing(s, 1, q + 1) = n
  <2>1. Missing(s, 1, q) = 1
    <3>1. q - 1 \in 0..q - 1 /\ 1 + (q - 1) = q
        BY <1>1
    <3>2. QED
        BY <1>1, <1>8, <3>1
  <2>2. 1 \in Nat \ {0} /\ q + 1 \in 0..Len(s) /\ (q + 1) - 1 = q /\ ~(q + 1 < 1)
      BY <1>1
  <2>3. Missing(s, 1, q + 1) = Missing(s, 1, (q + 1) - 1) - 1 + Arity(s[q + 1])
      BY <1>1, <2>2, MissingLaw
  <2>4. QED
      BY <1>1, <1>2, <2>1, <2>2, <2>3
<1>10. \A j \in 0..n : Missing(s, 1, (q + 1) + j) = n - j
  <2>1. 1 \in Nat \ {0} /\ q + 1 \in 1..Len(s) /\ (q + 1) + n <= Len(s) /\ n \in Int
      BY <1>1
  <2>2. \A j \in (q + 1) + 1..(q + 1) + n : Arity(s[j]) = 0
      BY <1>1, <1>4
  <2>3. QED
      BY <1>1, <1>9, <2>1, <2>2, Countdown
<1>11. Len(s) \in Ends(s, 1) /\ End(s, 1) = Len(s)
  <2>1. Missing(s, 1, Len(s)) = 0
    <3>1. n \in 0..n /\ (q + 1) + n = Len(s)
        BY <1>1
    <3>2. QED
        BY <1>1, <1>10, <3>1
  <2>2. ASSUME NEW k \in 1..(Len(s) - 1) PROVE Missing(s, 1, k) # 0
    <3>1. CASE k <= q
      <4>1. k - 1 \in 0..q - 1 /\ 1 + (k - 1) = k /\ q - (k - 1) # 0
          BY <1>1, <3>1
      <4>2. QED
          BY <1>8, <4>1
    <3>2. CASE ~(k <= q)
      <4>1. k - (q + 1) \in 0..n /\ (q + 1) + (k - (q + 1)) = k /\ n - (k - (q + 1)) # 0
          BY <1>1, <3>2
      <4>2. QED
          BY <1>10, <4>1
    <3>3. QED
        BY <3>1, <3>2
  <2>3. 1 \in Nat \ {0} /\ Len(s) \in 1..Len(s)
      BY <1>1
  <2>4. QED
      BY <1>1, <2>1, <2>2, <2>3, EndsAt
<1>12. IsMessage(s)
    BY <1>1, <1>11 DEF IsMessage, Complete
<1>13. FirstObject(s) = s
    BY <1>1, <1>11 DEF FirstObject
<1>14. IsArray(s) /\ Size(s) = q
    BY <1>2 DEF IsArray, Size, Arr, Token
<1>15. \A i \in 2..q : End(s, i) = i
  <2> TAKE i \in 2..q
  <2>1. i \in 1..Len(s) /\ i \in 2..Len(s) /\ i # q + 1 /\ i + 0 = i /\ i + 0 <= Len(s) /\ 0 \in Nat
        /\ \A j \in i + 1..i + 0 : Arity(s[j]) = 0
      BY <1>1
  <2>2. Arity(s[i]) = 0
      BY <1>4, <2>1
  <2>3. End(s, i) = i + 0
      BY <1>1, <2>1, <2>2, ArrayEnd
  <2>4. QED
      BY <2>1, <2>3
<1>16. \A j \in 1..q : Element(s, j) = SubSeq(s, j + 1, End(s, j + 1))
    BY <1>1, <1>14, <1>15, ElementLaw
<1>17. End(s, q + 1) = Len(s)
  <2>1. q + 1 \in 1..Len(s) /\ (q + 1) + n <= Len(s) /\ (q + 1) + n = Len(s)
        /\ \A j \in (q + 1) + 1..(q + 1) + n : Arity(s[j]) = 0
      BY <1>1, <1>4
  <2>2. End(s, q + 1) = (q + 1) + n
      BY <1>1, <1>2, <2>1, ArrayEnd
  <2>3. QED
      BY <2>1, <2>2
<1>18. ASSUME NEW j \in 1..q - 1 PROVE Element(s, j) = <<s[j + 1]>>
  <2>1. j \in 1..q /\ j + 1 \in 2..q /\ j + 1 \in 1..Len(s)
      BY <1>1
  <2>2. Element(s, j) = SubSeq(s, j + 1, j + 1)
      BY <1>15, <1>16, <2>1
  <2>3. QED
      BY <1>1, <2>1, <2>2, OneToken
<1>19. Element(s, q) = SubSeq(s, q + 1, Len(s))
    BY <1>1, <1>16, <1>17
<1>20. QED
    BY <1>6, <1>12, <1>13, <1>14, <1>18, <1>19

\* A function returns or throws.
LEMMA Endings ==
    /\ \A v : Succeeded(Returns(v)) /\ Returns(v).value = v
    /\ ~Succeeded(Throws("INVALID_MESSAGE")) /\ ~Succeeded(Throws("TYPE_ERROR"))
    /\ Throws("INVALID_MESSAGE").code = "INVALID_MESSAGE"
    /\ Throws("TYPE_ERROR").code = "TYPE_ERROR"
BY DEF Succeeded, Returns, Throws, Failures, StatusCodes

\* object.as<T>() fails only for a type that T does not take.
LEMMA AsSucceeds ==
    ASSUME NEW o, NEW type
    PROVE  /\ Succeeded(As(o, type)) <=> Converts(o[1], type)
           /\ Converts(o[1], type) => As(o, type).value = Converted(o[1], type)
BY Endings DEF As

\* An object of the type of T is taken as it is.
LEMMA OwnType ==
    /\ \A x, type : x.type = type => Converts(x, type)
    /\ \A name \in Names : Converted(name, "str") = name
<1>1. ASSUME NEW x, NEW type, x.type = type PROVE Converts(x, type)
    BY <1>1 DEF Converts, Accepted
<1>2. ASSUME NEW name \in Names PROVE Converted(name, "str") = name
    BY <1>2 DEF Converted, Token, Names
<1>3. QED
    BY <1>1, <1>2

\* What T takes of an object without elements is one again.
LEMMA ConvertedType ==
    ASSUME NEW x \in Scalars, NEW type \in TokenTypes, Converts(x, type)
    PROVE  Converted(x, type) \in Scalars
<1>1. x.type \in TokenTypes \ {"array", "bad"} /\ x.n \in Int
    BY DEF Scalars
<1>2. type \notin {"array", "bad"}
    BY <1>1 DEF Converts, Accepted
<1>3. QED
    BY <1>1, <1>2 DEF Converted, Token, Scalars

\* Tokens put behind tokens
LEMMA ConcatLaw ==
    ASSUME NEW x \in Seq(Tokens), NEW y \in Seq(Tokens)
    PROVE  /\ x \o y \in Seq(Tokens) /\ Len(x \o y) = Len(x) + Len(y)
           /\ \A i \in 1..Len(x) : (x \o y)[i] = x[i]
           /\ \A i \in 1..Len(y) : (x \o y)[Len(x) + i] = y[i]
OBVIOUS

\* The array of parameters is parsed element by element.
LEMMA FlatShape ==
    ASSUME NEW a \in Seq(Scalars)
    PROVE  /\ Flat(a) \in Seq(Tokens) /\ Len(Flat(a)) = 1 + Len(a)
           /\ Flat(a)[1] = Arr(Len(a)) /\ \A j \in 1..Len(a) : Flat(a)[j + 1] = a[j]
           /\ IsArray(Flat(a)) /\ Size(Flat(a)) = Len(a) /\ Tail(Flat(a)) = a
           /\ \A j \in 1..Len(a) : Element(Flat(a), j) = <<a[j]>>
<1> DEFINE h == <<Arr(Len(a))>>
           P == Flat(a)
<1>1. Len(a) \in Nat /\ a \in Seq(Tokens) /\ Arr(Len(a)) \in Tokens
  <2>1. Scalars \subseteq Tokens
      BY ScalarType
  <2>2. QED
      BY <2>1, TokenTypesHere
<1>2. h \in Seq(Tokens) /\ Len(h) = 1 /\ h[1] = Arr(Len(a)) /\ P = h \o a
    BY <1>1 DEF Flat
<1> HIDE DEF h, P
<1> DEFINE c == h \o a
<1>20. h \in Seq(Tokens) /\ Len(h) = 1
    BY <1>2
<1>21. /\ c \in Seq(Tokens) /\ Len(c) = 1 + Len(a) /\ c[1] = h[1]
       /\ \A j \in 1..Len(a) : c[j + 1] = a[j]
  <2>1. /\ c \in Seq(Tokens) /\ Len(c) = Len(h) + Len(a)
        /\ \A i \in 1..Len(h) : c[i] = h[i]
        /\ \A i \in 1..Len(a) : c[Len(h) + i] = a[i]
    <3>1. a \in Seq(Tokens) /\ h \in Seq(Tokens)
        BY <1>1, <1>20
    <3>2. QED
        BY <3>1, ConcatLaw
  <2> HIDE DEF c
  <2>2. \A j \in 1..Len(a) : 1 + j = j + 1
      BY <1>1
  <2>3. QED
      BY <1>20, <2>1, <2>2
<1>22. P = c
    BY <1>2
<1> HIDE DEF c
<1>3. P \in Seq(Tokens) /\ Len(P) = 1 + Len(a)
    BY <1>21, <1>22
<1>4. P[1] = Arr(Len(a)) /\ \A j \in 1..Len(a) : P[j + 1] = a[j]
    BY <1>2, <1>21, <1>22
<1>5. IsArray(P) /\ Size(P) = Len(a)
    BY <1>4 DEF IsArray, Size, Arr, Token
<1>6. Tail(P) = a
  <2> DEFINE u == Tail(P)
  <2>1. u \in Seq(Tokens) /\ Len(u) = Len(a) /\ \A j \in 1..Len(a) : u[j] = P[j + 1]
      BY <1>1, <1>3
  <2> HIDE DEF u
  <2>2. u = a
      BY <1>1, <1>4, <2>1
  <2>3. QED
      BY <2>2 DEF u
<1>7. \A j \in 1..Len(a) : End(P, j + 1) = j + 1
  <2> TAKE j \in 1..Len(a)
  <2>1. P[j + 1] = a[j] /\ a[j] \in Scalars
      BY <1>4
  <2>2. Arity(P[j + 1]) = 0
      BY <2>1, ScalarType
  <2>3. /\ j + 1 \in 1..Len(P) /\ (j + 1) + 0 <= Len(P) /\ (j + 1) + 0 = j + 1
        /\ \A i \in (j + 1) + 1..(j + 1) + 0 : Arity(P[i]) = 0
      BY <1>1, <1>3
  <2>4. End(P, j + 1) = (j + 1) + 0
      BY <1>3, <2>2, <2>3, ArrayEnd
  <2>5. QED
      BY <2>3, <2>4
<1>8. \A i \in 2..Len(a) : End(P, i) = i
  <2> TAKE i \in 2..Len(a)
  <2>1. i - 1 \in 1..Len(a) /\ (i - 1) + 1 = i
      BY <1>1
  <2>2. QED
      BY <1>7, <2>1
<1>9. \A j \in 1..Len(a) : Element(P, j) = SubSeq(P, j + 1, End(P, j + 1))
    BY <1>1, <1>3, <1>5, <1>8, ElementLaw
<1>10. ASSUME NEW j \in 1..Len(a) PROVE Element(P, j) = <<a[j]>>
  <2>0. j + 1 \in 1..Len(P)
      BY <1>1, <1>3
  <2>1. Element(P, j) = SubSeq(P, j + 1, j + 1) /\ P[j + 1] = a[j]
      BY <1>4, <1>7, <1>9
  <2>2. SubSeq(P, j + 1, j + 1) = <<P[j + 1]>>
      BY <1>3, <2>0, OneToken
  <2>3. QED
      BY <2>1, <2>2
<1>11. QED
    BY <1>3, <1>4, <1>5, <1>6, <1>10 DEF P

\* What comes before the parameters in a message, and the parameters
LEMMA TailOfMessage ==
    ASSUME NEW a \in Seq(Scalars), NEW h \in Seq(Tokens), NEW q \in {3, 4}, NEW t,
           Len(h) = q + 1, h[1] = Arr(q), h[q + 1] = Arr(Len(a)),
           \A k \in 2..q : h[k] \in Scalars, t = h \o a
    PROVE  Shaped(t, q, Len(a)) /\ SubSeq(t, q + 1, Len(t)) = Flat(a)
           /\ \A k \in 1..q : t[k] = h[k]
<1>1. Len(a) \in Nat /\ a \in Seq(Tokens) /\ q \in Nat
  <2>1. Scalars \subseteq Tokens
      BY ScalarType
  <2>2. QED
      BY <2>1
<1>2. t \in Seq(Tokens) /\ Len(t) = q + 1 + Len(a)
    BY <1>1
<1>3. \A k \in 1..q + 1 : t[k] = h[k]
    BY <1>1
<1>4. \A j \in 1..Len(a) : t[(q + 1) + j] = a[j]
    BY <1>1
<1>5. t[1] = Arr(q) /\ t[q + 1] = Arr(Len(a))
  <2>1. 1 \in 1..q + 1 /\ q + 1 \in 1..q + 1
      BY <1>1
  <2>2. QED
      BY <1>3, <2>1
<1>6. t[q + 1] # Bad /\ Arity(t[q + 1]) = Len(a)
    BY <1>1, <1>5, TokenTypesHere
<1>7. ASSUME NEW k \in 2..Len(t), k # q + 1 PROVE t[k] \in Scalars
  <2>1. CASE k <= q
    <3>1. k \in 1..q + 1 /\ k \in 2..q
        BY <1>1, <2>1
    <3>2. QED
        BY <1>3, <3>1
  <2>2. CASE ~(k <= q)
    <3>1. k - (q + 1) \in 1..Len(a) /\ (q + 1) + (k - (q + 1)) = k
        BY <1>1, <1>2, <1>7, <2>2
    <3>2. a[k - (q + 1)] \in Scalars
        BY <3>1
    <3>3. QED
        BY <1>4, <3>1, <3>2
  <2>3. QED
      BY <2>1, <2>2
<1>8. Shaped(t, q, Len(a))
    BY <1>1, <1>2, <1>5, <1>6, <1>7 DEF Shaped
<1>9. SubSeq(t, q + 1, Len(t)) = Flat(a)
  <2> DEFINE u == SubSeq(t, q + 1, Len(t))
             P == Flat(a)
  <2>1. u \in Seq(Tokens) /\ Len(u) = 1 + Len(a) /\ \A j \in 1..1 + Len(a) : u[j] = t[q + j]
    <3>1. /\ q + 1 \in Nat \ {0} /\ Len(t) \in Nat /\ q + 1 <= Len(t)
          /\ Len(t) - (q + 1) + 1 = 1 + Len(a)
        BY <1>1, <1>2
    <3>2. u \in Seq(Tokens) /\ Len(u) = Len(t) - (q + 1) + 1
        BY <1>2, <3>1
    <3>3. \A j \in 1..Len(t) - (q + 1) + 1 : u[j] = t[((q + 1) + j) - 1]
      <4> DEFINE m == q + 1
      <4>1. m \in Nat \ {0} /\ u = SubSeq(t, m, Len(t))
          BY <3>1
      <4> HIDE DEF m, u
      <4>2. \A j \in 1..Len(t) - m + 1 : u[j] = t[(m + j) - 1]
          BY <1>2, <4>1
      <4>3. QED
          BY <4>2 DEF m
    <3>4. \A j \in 1..1 + Len(a) : ((q + 1) + j) - 1 = q + j
        BY <1>1
    <3> HIDE DEF u
    <3>5. QED
        BY <3>1, <3>2, <3>3, <3>4
  <2>2. P \in Seq(Tokens) /\ Len(P) = 1 + Len(a) /\ P[1] = Arr(Len(a))
        /\ \A j \in 1..Len(a) : P[j + 1] = a[j]
      BY FlatShape
  <2> HIDE DEF u, P
  <2>3. ASSUME NEW j \in 1..1 + Len(a) PROVE u[j] = P[j]
    <3>1. CASE j = 1
        BY <1>5, <2>1, <2>2, <3>1
    <3>2. CASE j # 1
      <4>1. j - 1 \in 1..Len(a) /\ (j - 1) + 1 = j /\ (q + 1) + (j - 1) = q + j
          BY <1>1, <3>2
      <4>2. P[(j - 1) + 1] = a[j - 1] /\ t[(q + 1) + (j - 1)] = a[j - 1]
          BY <1>4, <2>2, <4>1
      <4>3. QED
          BY <2>1, <4>1, <4>2
    <3>3. QED
        BY <3>1, <3>2
  <2>4. u = P
      BY <1>1, <2>1, <2>2, <2>3
  <2>5. QED
      BY <2>4 DEF u, P
<1>10. \A k \in 1..q : k \in 1..q + 1
    BY <1>1
<1>11. QED
    BY <1>3, <1>8, <1>9, <1>10

\* What serialize_request() writes is parsed as that request.
LEMMA RequestIsParsed ==
    ASSUME NEW name \in Names, NEW id \in 0..(NumIDs - 1), NEW a \in Seq(Scalars)
    PROVE  Meant(serialize_request(name, id, a), ParsedRequest(id, name, Flat(a)))
<1> DEFINE h == <<Arr(4), Num(REQUEST), Num(id), name, Arr(Len(a))>>
           t == serialize_request(name, id, a)
<1>1. /\ Arr(4) \in Tokens /\ Num(REQUEST) \in Scalars /\ Num(id) \in Scalars
      /\ name \in Scalars /\ Arr(Len(a)) \in Tokens
    BY BoundsAssumption, TokenTypesHere DEF REQUEST
<1>2. Scalars \subseteq Tokens
    BY ScalarType
<1>3. h \in Seq(Tokens) /\ Len(h) = 4 + 1 /\ h[1] = Arr(4) /\ h[4 + 1] = Arr(Len(a))
      /\ h[2] = Num(REQUEST) /\ h[3] = Num(id) /\ h[4] = name
    BY <1>1, <1>2
<1>4. t = h \o a
    BY DEF serialize_request
<1>5. \A k \in 2..4 : h[k] \in Scalars
  <2> HIDE DEF h
  <2>1. \A k \in 2..4 : k = 2 \/ k = 3 \/ k = 4
      OBVIOUS
  <2>2. QED
      BY <1>1, <1>3, <2>1
<1> HIDE DEF h, t
<1>6. /\ Shaped(t, 4, Len(a)) /\ SubSeq(t, 4 + 1, Len(t)) = Flat(a)
      /\ \A k \in 1..4 : t[k] = h[k]
    BY <1>3, <1>4, <1>5, TailOfMessage
<1>7. /\ IsMessage(t) /\ ~Broken(t) /\ FirstObject(t) = t
      /\ IsArray(t) /\ Size(t) = 4 /\ Element(t, 4) = Flat(a)
      /\ \A j \in 1..4 - 1 : Element(t, j) = <<t[j + 1]>>
    BY <1>6, ShapeIsWhole
<1>8. /\ Element(t, 1)[1] = Num(REQUEST) /\ Element(t, 2)[1] = Num(id)
      /\ Element(t, 3)[1] = name
    BY <1>3, <1>6, <1>7
<1>9. Num(REQUEST).n = REQUEST /\ Num(id).n = id /\ Num(REQUEST).type = "int"
      /\ Num(id).type = "int" /\ name.type = "str"
    BY DEF Num, Token, Names
<1>10. /\ ValidType(Element(t, 1)) /\ ValidID(Element(t, 2)) /\ ValidName(Element(t, 3))
       /\ IsArray(Element(t, 4))
  <2>1. IsArray(Flat(a))
      BY FlatShape
  <2>2. REQUEST \in REQUEST..NOTIFICATION
      BY DEF REQUEST, NOTIFICATION
  <2>3. QED
      BY <1>7, <1>8, <1>9, <2>1, <2>2, AsSucceeds, OwnType DEF ValidType, ValidID, ValidName
<1>11. ParseObject(t) = ParseRequest(t)
  <2>1. ~(Size(t) < 3)
      BY <1>7
  <2>2. QED
      BY <1>7, <1>8, <1>9, <1>10, <2>1 DEF ParseObject, REQUEST, RESPONSE, NOTIFICATION
<1>12. ParseRequest(t) = Returns(ParsedRequest(id, name, Flat(a)))
  <2>1. Name(Element(t, 3)) = name
      BY <1>8, <1>9, AsSucceeds, OwnType DEF Name
  <2>2. QED
      BY <1>7, <1>8, <1>9, <1>10, <2>1 DEF ParseRequest
<1>13. try_parse(t) = Returns(ParsedRequest(id, name, Flat(a)))
    BY <1>7, <1>11, <1>12 DEF try_parse
<1>14. Meaning(t) = ParsedRequest(id, name, Flat(a))
    BY <1>13, Endings DEF Meaning
<1>15. QED
    BY <1>7, <1>14 DEF Meant, t

\* What serialize_notification() writes is parsed as that notification.
LEMMA NotificationIsParsed ==
    ASSUME NEW name \in Names, NEW a \in Seq(Scalars)
    PROVE  Meant(serialize_notification(name, a), ParsedNotification(name, Flat(a)))
<1> DEFINE h == <<Arr(3), Num(NOTIFICATION), name, Arr(Len(a))>>
           t == serialize_notification(name, a)
<1>1. /\ Arr(3) \in Tokens /\ Num(NOTIFICATION) \in Scalars
      /\ name \in Scalars /\ Arr(Len(a)) \in Tokens
    BY TokenTypesHere DEF NOTIFICATION
<1>2. Scalars \subseteq Tokens
    BY ScalarType
<1>3. h \in Seq(Tokens) /\ Len(h) = 3 + 1 /\ h[1] = Arr(3) /\ h[3 + 1] = Arr(Len(a))
      /\ h[2] = Num(NOTIFICATION) /\ h[3] = name
    BY <1>1, <1>2
<1>4. t = h \o a
    BY DEF serialize_notification
<1>5. \A k \in 2..3 : h[k] \in Scalars
  <2> HIDE DEF h
  <2>1. \A k \in 2..3 : k = 2 \/ k = 3
      OBVIOUS
  <2>2. QED
      BY <1>1, <1>3, <2>1
<1> HIDE DEF h, t
<1>6. /\ Shaped(t, 3, Len(a)) /\ SubSeq(t, 3 + 1, Len(t)) = Flat(a)
      /\ \A k \in 1..3 : t[k] = h[k]
    BY <1>3, <1>4, <1>5, TailOfMessage
<1>7. /\ IsMessage(t) /\ ~Broken(t) /\ FirstObject(t) = t
      /\ IsArray(t) /\ Size(t) = 3 /\ Element(t, 3) = Flat(a)
      /\ \A j \in 1..3 - 1 : Element(t, j) = <<t[j + 1]>>
    BY <1>6, ShapeIsWhole
<1>8. Element(t, 1)[1] = Num(NOTIFICATION) /\ Element(t, 2)[1] = name
    BY <1>3, <1>6, <1>7
<1>9. Num(NOTIFICATION).n = NOTIFICATION /\ Num(NOTIFICATION).type = "int" /\ name.type = "str"
    BY DEF Num, Token, Names
<1>10. ValidType(Element(t, 1)) /\ ValidName(Element(t, 2)) /\ IsArray(Element(t, 3))
  <2>1. IsArray(Flat(a))
      BY FlatShape
  <2>2. NOTIFICATION \in REQUEST..NOTIFICATION
      BY DEF REQUEST, NOTIFICATION
  <2>3. QED
      BY <1>7, <1>8, <1>9, <2>1, <2>2, AsSucceeds, OwnType DEF ValidType, ValidName
<1>11. ParseObject(t) = ParseNotification(t)
  <2>1. ~(Size(t) < 3)
      BY <1>7
  <2>2. QED
      BY <1>7, <1>8, <1>9, <1>10, <2>1 DEF ParseObject, REQUEST, RESPONSE, NOTIFICATION
<1>12. ParseNotification(t) = Returns(ParsedNotification(name, Flat(a)))
  <2>1. Name(Element(t, 2)) = name
      BY <1>8, <1>9, AsSucceeds, OwnType DEF Name
  <2>2. QED
      BY <1>7, <1>8, <1>10, <2>1 DEF ParseNotification
<1>13. try_parse(t) = Returns(ParsedNotification(name, Flat(a)))
    BY <1>7, <1>11, <1>12 DEF try_parse
<1>14. Meaning(t) = ParsedNotification(name, Flat(a))
    BY <1>13, Endings DEF Meaning
<1>15. QED
    BY <1>7, <1>14 DEF Meant, t

\* An error that carries nil comes back as a result of nil.
LEMMA ResponseIsParsed ==
    ASSUME NEW id \in 0..(NumIDs - 1), NEW x \in Scalars
    PROVE  /\ Meant(serialize_successful_response(id, x),
                    ParsedResponse(id, CallResult(FALSE, <<x>>)))
           /\ Meant(serialize_error_response(id, x),
                    ParsedResponse(id, CallResult(x # Nil, <<x>>)))
<1>1. /\ Arr(4) \in Tokens /\ Num(RESPONSE) \in Scalars /\ Num(id) \in Scalars
      /\ Nil \in Scalars /\ Scalars \subseteq Tokens
    BY BoundsAssumption, TokenTypesHere, ScalarType DEF RESPONSE
<1>2. ASSUME NEW e \in Scalars, NEW r \in Scalars
      PROVE  Meant(<<Arr(4), Num(RESPONSE), Num(id), e, r>>,
                   ParsedResponse(id, IF e # Nil THEN CallResult(TRUE, <<e>>)
                                                 ELSE CallResult(FALSE, <<r>>)))
  <2> DEFINE t == <<Arr(4), Num(RESPONSE), Num(id), e, r>>
             result_ == IF e # Nil THEN CallResult(TRUE, <<e>>) ELSE CallResult(FALSE, <<r>>)
  <2>1. t \in Seq(Tokens) /\ Len(t) = 4 + 1 + 0 /\ t[1] = Arr(4) /\ t[2] = Num(RESPONSE)
        /\ t[3] = Num(id) /\ t[4] = e /\ t[5] = r
      BY <1>1, <1>2
  <2> HIDE DEF t
  <2>2. r # Bad /\ Arity(r) = 0
      BY <1>2, ScalarType
  <2>3. \A k \in 2..Len(t) : k # 4 + 1 => t[k] \in Scalars
    <3>1. \A k \in 2..Len(t) : k # 4 + 1 => k = 2 \/ k = 3 \/ k = 4
        BY <2>1
    <3>2. QED
        BY <1>1, <1>2, <2>1, <3>1
  <2>4. Shaped(t, 4, 0)
      BY <2>1, <2>2, <2>3 DEF Shaped
  <2>5. /\ IsMessage(t) /\ ~Broken(t) /\ FirstObject(t) = t
        /\ IsArray(t) /\ Size(t) = 4 /\ Element(t, 4) = SubSeq(t, 4 + 1, Len(t))
        /\ \A j \in 1..4 - 1 : Element(t, j) = <<t[j + 1]>>
      BY <2>4, ShapeIsWhole
  <2>6. Element(t, 4) = <<r>>
    <3>1. 5 \in 1..Len(t) /\ Element(t, 4) = SubSeq(t, 5, 5)
        BY <2>1, <2>5
    <3>2. SubSeq(t, 5, 5) = <<t[5]>>
        BY <2>1, <3>1, OneToken
    <3>3. QED
        BY <2>1, <3>1, <3>2
  <2>7. /\ Element(t, 1)[1] = Num(RESPONSE) /\ Element(t, 2)[1] = Num(id)
        /\ Element(t, 3) = <<e>> /\ Element(t, 3)[1] = e
      BY <2>1, <2>5
  <2>8. Num(RESPONSE).n = RESPONSE /\ Num(id).n = id /\ Num(RESPONSE).type = "int"
        /\ Num(id).type = "int"
      BY DEF Num, Token
  <2>9. ValidType(Element(t, 1)) /\ ValidID(Element(t, 2))
    <3>1. RESPONSE \in REQUEST..NOTIFICATION
        BY DEF REQUEST, RESPONSE, NOTIFICATION
    <3>2. QED
        BY <2>7, <2>8, <3>1, AsSucceeds, OwnType DEF ValidType, ValidID
  <2>10. ParseObject(t) = ParseResponse(t)
    <3>1. ~(Size(t) < 3)
        BY <2>5
    <3>2. QED
        BY <2>5, <2>7, <2>8, <2>9, <3>1 DEF ParseObject, REQUEST, RESPONSE, NOTIFICATION
  <2>11. ResultOf(t) = result_
      BY <2>6, <2>7 DEF ResultOf
  <2> HIDE DEF result_
  <2>12. ParseResponse(t) = Returns(ParsedResponse(id, result_))
      BY <2>5, <2>7, <2>8, <2>9, <2>11 DEF ParseResponse
  <2>13. try_parse(t) = Returns(ParsedResponse(id, result_))
      BY <2>5, <2>10, <2>12 DEF try_parse
  <2>14. Meaning(t) = ParsedResponse(id, result_)
      BY <2>13, Endings DEF Meaning
  <2>15. QED
      BY <2>5, <2>14 DEF Meant, t, result_
<1>3. Meant(serialize_successful_response(id, x), ParsedResponse(id, CallResult(FALSE, <<x>>)))
    BY <1>1, <1>2 DEF serialize_successful_response
<1>4. Meant(serialize_error_response(id, x), ParsedResponse(id, CallResult(x # Nil, <<x>>)))
  <2>1. CASE x # Nil
    <3>1. CallResult(x # Nil, <<x>>) = CallResult(TRUE, <<x>>)
        BY <2>1
    <3>2. QED
        BY <1>1, <1>2, <2>1, <3>1 DEF serialize_error_response
  <2>2. CASE x = Nil
    <3>1. CallResult(x # Nil, <<x>>) = CallResult(FALSE, <<Nil>>)
        BY <2>2
    <3>2. QED
        BY <1>1, <1>2, <2>2, <3>1 DEF serialize_error_response
  <2>3. QED
      BY <2>1, <2>2
<1>5. QED
    BY <1>3, <1>4

-----------------------------------------------------------------------------
(* Methods: what is executed and answered.                                 *)

\* The parameters are converted if their number and their types are right.
LEMMA ParametersLaw ==
    ASSUME NEW a \in Seq(Scalars), NEW types \in Seq(TokenTypes)
    PROVE  ParametersAs(Flat(a), types) =
             IF Len(a) # Len(types) THEN Throws("INVALID_MESSAGE")
             ELSE IF \E i \in DOMAIN types : ~Converts(a[i], types[i]) THEN Throws("TYPE_ERROR")
             ELSE Returns([i \in DOMAIN a |-> Converted(a[i], types[i])])
<1> DEFINE P == Flat(a)
           Fails(i) == ~Succeeded(As(Element(P, i), types[i]))
           values == [i \in DOMAIN types |-> As(Element(P, i), types[i]).value]
<1>1. Size(P) = Len(a) /\ \A j \in 1..Len(a) : Element(P, j) = <<a[j]>>
    BY FlatShape
<1>2. DOMAIN types = 1..Len(types) /\ DOMAIN a = 1..Len(a)
    OBVIOUS
<1> HIDE DEF P
<1>3. CASE Len(a) # Len(types)
    BY <1>1, <1>3 DEF ParametersAs, P
<1>4. CASE Len(a) = Len(types)
  <2>1. \A i \in DOMAIN types : Element(P, i)[1] = a[i]
      BY <1>1, <1>2, <1>4
  <2>2. ASSUME NEW i \in DOMAIN types
        PROVE  /\ Fails(i) <=> ~Converts(a[i], types[i])
               /\ Converts(a[i], types[i]) =>
                     As(Element(P, i), types[i]).value = Converted(a[i], types[i])
    <3>1. Element(P, i)[1] = a[i]
        BY <2>1
    <3>2. /\ Succeeded(As(Element(P, i), types[i])) <=> Converts(Element(P, i)[1], types[i])
          /\ Converts(Element(P, i)[1], types[i]) =>
                As(Element(P, i), types[i]).value = Converted(Element(P, i)[1], types[i])
        BY AsSucceeds
    <3>3. QED
        BY <3>1, <3>2
  <2>3. ParametersAs(P, types) = IF \E i \in DOMAIN types : Fails(i) THEN Throws("TYPE_ERROR")
                                 ELSE Returns(values)
      BY <1>1, <1>4 DEF ParametersAs
  <2> HIDE DEF Fails
  <2>4. (\E i \in DOMAIN types : Fails(i)) <=> \E i \in DOMAIN types : ~Converts(a[i], types[i])
      BY <2>2
  <2>5. ASSUME \A i \in DOMAIN types : Converts(a[i], types[i])
        PROVE  values = [i \in DOMAIN a |-> Converted(a[i], types[i])]
      BY <1>2, <1>4, <2>2, <2>5
  <2> HIDE DEF values
  <2>6. QED
      BY <1>4, <2>3, <2>4, <2>5 DEF P
<1>5. QED
    BY <1>3, <1>4

\* A method has a name and the types of its parameters.
LEMMA MethodTypes ==
    /\ Len(Appended) \in Nat /\ DOMAIN Appended = 1..Len(Appended)
    /\ \A i \in DOMAIN Appended :
          Appended[i] \in [name : Names, parameters : Seq(TokenTypes), is_void : BOOLEAN]
<1> DEFINE R == [name : Names, parameters : Seq(TokenTypes), is_void : BOOLEAN]
<1>1. Appended \in Seq(R)
    BY MethodsAssumption
<1> HIDE DEF R
<1>2. /\ Len(Appended) \in Nat /\ DOMAIN Appended = 1..Len(Appended)
      /\ \A i \in DOMAIN Appended : Appended[i] \in R
    BY <1>1
<1>3. QED
    BY <1>2 DEF R

\* The method that is found is the first one of its name that was appended.
LEMMA MethodIsFirst ==
    ASSUME NEW name
    PROVE  /\ Known(name) <=> Named(name) # {}
           /\ Known(name) => /\ Appended[get(name).value] = MethodOf(name)
                             /\ Succeeded(get(name)) /\ get(name).value \in DOMAIN Appended
                             /\ MethodOf(name).name = name
           /\ ~Known(name) => ~Succeeded(get(name))
<1>1. Named(name) \in SUBSET Nat /\ Named(name) \subseteq DOMAIN Appended
    BY MethodTypes DEF Named
<1>2. CASE Named(name) = {}
  <2>1. ~Known(name)
      BY <1>2 DEF Known, Named
  <2>2. get(name) = Throws("INVALID_MESSAGE")
      BY <2>1 DEF get
  <2>3. QED
      BY <1>2, <2>1, <2>2, Endings
<1>3. CASE Named(name) # {}
  <2> DEFINE First(i) == \A j \in Named(name) : i <= j
             Found(i) == Appended[i].name = name /\ Registered(i)
             f == CHOOSE i \in Named(name) : First(i)
             g == CHOOSE i \in DOMAIN Appended : Found(i)
  <2>1. \E i \in Named(name) : First(i)
      BY <1>1, <1>3, LeastMember
  <2>2. f \in Named(name) /\ First(f)
    <3> HIDE DEF First
    <3>1. QED
        BY <2>1
  <2> HIDE DEF f
  <2>3. f \in DOMAIN Appended /\ Appended[f].name = name /\ f \in Nat
      BY <1>1, <2>2 DEF Named
  <2>4. Registered(f)
    <3> SUFFICES ASSUME NEW j \in 1..(f - 1), Appended[j].name = Appended[f].name PROVE FALSE
        BY DEF Registered
    <3>1. j \in DOMAIN Appended /\ j < f
        BY <2>3, MethodTypes
    <3>2. j \in Named(name)
        BY <2>3, <3>1 DEF Named
    <3>3. QED
        BY <2>2, <2>3, <3>1, <3>2
  <2>5. Found(f)
      BY <2>3, <2>4
  <2>6. \A i \in DOMAIN Appended : Found(i) => i = f
    <3> SUFFICES ASSUME NEW i \in DOMAIN Appended, Found(i), i # f PROVE FALSE
        OBVIOUS
    <3>1. i \in Named(name) /\ i \in Nat
        BY <1>1 DEF Named
    <3>2. f <= i
        BY <2>2, <3>1
    <3>3. f \in 1..(i - 1)
        BY <2>3, <3>1, <3>2, MethodTypes
    <3>4. QED
        BY <2>3, <3>3 DEF Registered
  <2>7. Known(name)
      BY <2>3, <2>5 DEF Known
  <2>8. g = f
    <3> HIDE DEF Found
    <3>1. QED
        BY <2>3, <2>5, <2>6
  <2>9. get(name) = Returns(g)
      BY <2>7 DEF get
  <2>10. MethodOf(name) = Appended[f]
      BY DEF MethodOf, f
  <2> HIDE DEF g
  <2>11. Succeeded(get(name)) /\ get(name).value = f
      BY <2>8, <2>9, Endings
  <2>12. QED
      BY <1>3, <2>3, <2>7, <2>10, <2>11
<1>4. QED
    BY <1>2, <1>3

\* The parameters suit the method that is found.
LEMMA MethodParameters ==
    ASSUME NEW name, NEW a \in Seq(Scalars), Named(name) # {}
    PROVE  LET p == ParametersAs(Flat(a), MethodOf(name).parameters)
           IN /\ Callable(name, a) => p = Returns(Passed(name, a))
              /\ ~Callable(name, a) =>
                    p = Throws(IF Countable(name, a) THEN "TYPE_ERROR" ELSE "INVALID_MESSAGE")
              /\ Callable(name, a) => Passed(name, a) \in Seq(Scalars)
<1> DEFINE types == MethodOf(name).parameters
<1>1. types \in Seq(TokenTypes)
  <2>1. MethodOf(name) \in [name : Names, parameters : Seq(TokenTypes), is_void : BOOLEAN]
      BY MethodIsFirst, MethodTypes
  <2>2. QED
      BY <2>1
<1>2. DOMAIN types = 1..Len(types) /\ DOMAIN a = 1..Len(a)
    BY <1>1
<1>3. Countable(name, a) <=> Len(a) = Len(types)
    BY DEF Countable
<1>4. Callable(name, a) <=>
         Len(a) = Len(types) /\ ~\E i \in DOMAIN types : ~Converts(a[i], types[i])
  <2>1. Callable(name, a) <=> Len(a) = Len(types) /\ \A i \in DOMAIN a : Converts(a[i], types[i])
      BY <1>3 DEF Callable
  <2> HIDE DEF types
  <2>2. QED
      BY <1>2, <2>1
<1>5. Passed(name, a) = [i \in DOMAIN a |-> Converted(a[i], types[i])]
    BY DEF Passed
<1> HIDE DEF types
<1>6. ParametersAs(Flat(a), types) =
             IF Len(a) # Len(types) THEN Throws("INVALID_MESSAGE")
             ELSE IF \E i \in DOMAIN types : ~Converts(a[i], types[i]) THEN Throws("TYPE_ERROR")
             ELSE Returns([i \in DOMAIN a |-> Converted(a[i], types[i])])
    BY <1>1, ParametersLaw
<1>7. ASSUME Callable(name, a) PROVE Passed(name, a) \in Seq(Scalars)
  <2>1. ASSUME NEW i \in 1..Len(a) PROVE Converted(a[i], types[i]) \in Scalars
    <3>1. Converts(a[i], types[i]) /\ i \in DOMAIN types
        BY <1>2, <1>4, <1>7
    <3>2. a[i] \in Scalars /\ types[i] \in TokenTypes
        BY <1>1, <3>1
    <3>3. QED
        BY <3>1, <3>2, ConvertedType
  <2>2. Passed(name, a) = [i \in 1..Len(a) |-> Converted(a[i], types[i])]
      BY <1>2, <1>5
  <2>3. QED
      BY <2>1, <2>2
<1>8. QED
    BY <1>3, <1>4, <1>5, <1>6, <1>7 DEF types

\* A function of the user runs once if its method takes the arguments.
LEMMA InvokedLaw ==
    ASSUME NEW m, NEW a \in Seq(Scalars), m.parameters = Flat(a)
    PROVE  Len(Invoked(m)) = IF Callable(m.method_name, a) THEN 1 ELSE 0
<1> DEFINE name == m.method_name
           found == get(name)
           p == Arguments(found.value, m)
<1>1. CASE Named(name) = {}
  <2>1. ~Succeeded(found)
      BY <1>1, MethodIsFirst
  <2>2. ~Callable(name, a)
      BY <1>1 DEF Callable, Countable
  <2>3. Invoked(m) = <<>>
      BY <2>1 DEF Invoked
  <2>4. QED
      BY <2>2, <2>3
<1>2. CASE Named(name) # {}
  <2>1. Succeeded(found) /\ Appended[found.value] = MethodOf(name)
      BY <1>2, MethodIsFirst
  <2>2. p = ParametersAs(Flat(a), MethodOf(name).parameters)
      BY <2>1 DEF Arguments
  <2>3. Succeeded(p) <=> Callable(name, a)
      BY <1>2, <2>2, MethodParameters, Endings
  <2>4. Invoked(m) = IF Succeeded(found) /\ Succeeded(p)
                     THEN <<[name |-> name, arguments |-> p.value]>> ELSE <<>>
      BY DEF Invoked
  <2> HIDE DEF p, found
  <2>5. QED
      BY <2>1, <2>3, <2>4
<1>3. QED
    BY <1>1, <1>2

\* What the future of a call gives for the responses that are serialized
LEMMA FutureOfResult ==
    ASSUME NEW x, NEW type
    PROVE  FutureGives(CallResult(FALSE, <<x>>), type) =
             IF type = "void" THEN Gives("returns", Nil)
             ELSE IF Converts(x, type) THEN Gives("returns", Converted(x, type))
             ELSE Gives("TYPE_ERROR", Nil)
<1> DEFINE r == CallResult(FALSE, <<x>>)
<1>1. r.is_error = FALSE /\ r.object = <<x>> /\ r.object[1] = x
    BY DEF CallResult
<1>2. /\ Succeeded(As(r.object, type)) <=> Converts(x, type)
      /\ Converts(x, type) => As(r.object, type).value = Converted(x, type)
  <2>1. /\ Succeeded(As(r.object, type)) <=> Converts(r.object[1], type)
        /\ Converts(r.object[1], type) =>
              As(r.object, type).value = Converted(r.object[1], type)
      BY AsSucceeds
  <2>2. QED
      BY <1>1, <2>1
<1> HIDE DEF r
<1>3. QED
    BY <1>1, <1>2 DEF FutureGives, VoidFutureGives, r

\* The future of a call whose response holds an error throws it.
LEMMA FutureOfError ==
    ASSUME NEW x, NEW type, x # Nil
    PROVE  FutureGives(CallResult(x # Nil, <<x>>), type) = ServerException(x)
<1> DEFINE r == CallResult(x # Nil, <<x>>)
<1>1. r.is_error = TRUE /\ r.object = <<x>> /\ r.object[1] = x
    BY DEF CallResult
<1> HIDE DEF r
<1>2. QED
    BY <1>1 DEF FutureGives, VoidFutureGives, r

\* R is the result of the response t to request id, and a future that gets it
\* gives what the local call does.
Tells(t, id, i, R) ==
    /\ Meant(t, ParsedResponse(id, R)) /\ R # NoResult
    /\ \A type : FutureGives(R, type) = Local(i.name, i.arguments, type)

\* The error of a request reaches the future of the call.
LEMMA ErrorTells ==
    ASSUME NEW id \in 0..(NumIDs - 1), NEW i, NEW x \in Scalars, x # Nil,
           \A type : Local(i.name, i.arguments, type) = ServerException(x)
    PROVE  \E R : Tells(serialize_error_response(id, x), id, i, R)
<1> DEFINE R == CallResult(x # Nil, <<x>>)
<1>1. Meant(serialize_error_response(id, x), ParsedResponse(id, R))
    BY ResponseIsParsed
<1>2. R # NoResult
    BY DEF NoResult, CallResult
<1>3. \A type : FutureGives(R, type) = ServerException(x)
    BY FutureOfError
<1> HIDE DEF R
<1>4. Tells(serialize_error_response(id, x), id, i, R)
    BY <1>1, <1>2, <1>3 DEF Tells
<1>5. QED
    BY <1>4

\* The result of a request reaches the future of the call.
LEMMA ResultTells ==
    ASSUME NEW t, NEW id, NEW i, NEW x,
           Meant(t, ParsedResponse(id, CallResult(FALSE, <<x>>))),
           \A type : Local(i.name, i.arguments, type) =
             IF type = "void" THEN Gives("returns", Nil)
             ELSE IF Converts(x, type) THEN Gives("returns", Converted(x, type))
             ELSE Gives("TYPE_ERROR", Nil)
    PROVE  \E R : Tells(t, id, i, R)
<1> DEFINE R == CallResult(FALSE, <<x>>)
<1>1. R # NoResult
    BY DEF NoResult, CallResult
<1>2. \A type : FutureGives(R, type) =
             IF type = "void" THEN Gives("returns", Nil)
             ELSE IF Converts(x, type) THEN Gives("returns", Converted(x, type))
             ELSE Gives("TYPE_ERROR", Nil)
    BY FutureOfResult
<1>3. Meant(t, ParsedResponse(id, R))
    OBVIOUS
<1> HIDE DEF R
<1>4. Tells(t, id, i, R)
    BY <1>1, <1>2, <1>3 DEF Tells
<1>5. QED
    BY <1>4

\* MethodProcessor::call() answers a request with a response that gives the
\* future what a local call would have given.
LEMMA AnswerTells ==
    ASSUME NEW i \in Invocations, NEW id \in 0..(NumIDs - 1)
    PROVE  \E R : Tells(call(ParsedRequest(id, i.name, Flat(i.arguments))), id, i, R)
<1> DEFINE name == i.name
           a == i.arguments
           request == ParsedRequest(id, name, Flat(a))
           method == MethodOf(name)
           p == ParametersAs(Flat(a), method.parameters)
           outcome == Function(name, Passed(name, a))
<1>1. name \in Names /\ a \in Seq(Scalars)
    BY InvocationsAssumption
<1>2. request.id = id /\ request.method_name = name /\ request.parameters = Flat(a)
    BY DEF ParsedRequest
<1>3. Str(0) \in Scalars /\ Str(0) # Nil /\ Str(1) \in Scalars /\ Str(1) # Nil /\ Nil \in Scalars
  <2>1. Str(0) # Nil /\ Str(1) # Nil
      BY DEF Str, Nil, Token
  <2>2. QED
      BY <2>1, TokenTypesHere
<1>4. What("INVALID_MESSAGE") = Str(0) /\ What("TYPE_ERROR") = Str(1)
    BY DEF What
<1>5. CASE Named(name) = {}
  <2>1. call(request) = serialize_error_response(id, Str(0))
    <3>1. ~Known(name)
        BY <1>5, MethodIsFirst
    <3> HIDE DEF request, name
    <3>2. QED
        BY <1>2, <1>4, <3>1 DEF call
  <2>2. \A type : Local(name, a, type) = ServerException(Str(0))
    <3>1. ~Callable(name, a) /\ ~Countable(name, a)
        BY <1>5 DEF Callable, Countable
    <3>2. QED
        BY <3>1 DEF Local
  <2>3. \E R : Tells(serialize_error_response(id, Str(0)), id, i, R)
      BY <1>3, <2>2, ErrorTells
  <2>4. QED
      BY <2>1, <2>3
<1>6. CASE Named(name) # {}
  <2>1. Known(name) /\ Appended[get(name).value] = method /\ method.name = name
      BY <1>6, MethodIsFirst
  <2>2. method.is_void \in BOOLEAN
      BY <1>6, MethodIsFirst, MethodTypes
  <2>3. call(request) =
          LET response == IF method.is_void THEN CallVoid(method, request)
                                            ELSE CallWithResult(method, request)
          IN IF Succeeded(response) THEN response.value
             ELSE serialize_error_response(id, What(response.code))
    <3> HIDE DEF request, method, name
    <3>1. QED
        BY <1>2, <2>1 DEF call
  <2>4. CASE ~Callable(name, a)
    <3> DEFINE x == IF Countable(name, a) THEN Str(1) ELSE Str(0)
    <3>1. /\ ~Succeeded(p) /\ What(p.code) = x
      <4>1. p = Throws(IF Countable(name, a) THEN "TYPE_ERROR" ELSE "INVALID_MESSAGE")
          BY <1>1, <1>6, <2>4, MethodParameters
      <4> HIDE DEF p, name, a
      <4>2. QED
          BY <1>4, <4>1, Endings
    <3>2. call(request) = serialize_error_response(id, x)
      <4> HIDE DEF request, method, p, x
      <4>1. CallVoid(method, request) = Returns(serialize_error_response(id, x))
          BY <1>2, <3>1 DEF CallVoid, p
      <4>2. CallWithResult(method, request) = p
          BY <1>2, <3>1 DEF CallWithResult, p
      <4>3. QED
          BY <2>2, <2>3, <3>1, <4>1, <4>2, Endings
    <3>3. \A type : Local(name, a, type) = ServerException(x)
        BY <2>4 DEF Local
    <3>4. x \in Scalars /\ x # Nil
        BY <1>3
    <3> HIDE DEF x
    <3>5. \E R : Tells(serialize_error_response(id, x), id, i, R)
        BY <3>3, <3>4, ErrorTells
    <3>6. QED
        BY <3>2, <3>5
  <2>5. CASE Callable(name, a)
    <3>1. Succeeded(p) /\ p.value = Passed(name, a)
      <4>1. p = Returns(Passed(name, a))
          BY <1>1, <1>6, <2>5, MethodParameters
      <4> HIDE DEF p
      <4>2. QED
          BY <4>1, Endings
    <3>2. /\ outcome.ends \in {"returns", "MethodException", "exception"}
          /\ outcome.with \in Scalars
      <4>1. outcome \in [ends : {"returns", "MethodException", "exception"}, with : Scalars]
          BY <2>5, FunctionAssumption
      <4> HIDE DEF outcome
      <4>2. QED
          BY <4>1
    <3> DEFINE x == IF method.is_void /\ outcome.ends = "returns" THEN Nil ELSE outcome.with
    <3>3. x \in Scalars
        BY <1>3, <3>2
    <3>4. call(request) = IF outcome.ends = "returns" THEN serialize_successful_response(id, x)
                          ELSE serialize_error_response(id, x)
      <4>0. Function(method.name, p.value) = outcome
          BY <2>1, <3>1
      <4> HIDE DEF request, method, p, outcome, name, a
      <4>1. method.is_void => CallVoid(method, request) =
              Returns(IF outcome.ends = "returns" THEN serialize_successful_response(id, Nil)
                      ELSE serialize_error_response(id, outcome.with))
          BY <1>2, <3>1, <4>0 DEF CallVoid, p
      <4>2. ~method.is_void => CallWithResult(method, request) =
              Returns(IF outcome.ends = "returns"
                      THEN serialize_successful_response(id, outcome.with)
                      ELSE serialize_error_response(id, outcome.with))
          BY <1>2, <3>1, <4>0 DEF CallWithResult, p
      <4>3. QED
          BY <2>2, <2>3, <4>1, <4>2, Endings
    <3>5. \A type : Local(name, a, type) =
             IF outcome.ends # "returns" /\ x # Nil THEN ServerException(x)
             ELSE IF type = "void" THEN Gives("returns", Nil)
             ELSE IF Converts(x, type) THEN Gives("returns", Converted(x, type))
             ELSE Gives("TYPE_ERROR", Nil)
        BY <2>5 DEF Local
    <3> HIDE DEF x
    <3>6. CASE outcome.ends = "returns"
      <4>1. Meant(serialize_successful_response(id, x),
                  ParsedResponse(id, CallResult(FALSE, <<x>>)))
          BY <3>3, ResponseIsParsed
      <4> HIDE DEF outcome
      <4>2. \E R : Tells(serialize_successful_response(id, x), id, i, R)
          BY <3>5, <3>6, <4>1, ResultTells
      <4>3. QED
          BY <3>4, <3>6, <4>2
    <3>7. CASE outcome.ends # "returns" /\ x # Nil
      <4> HIDE DEF outcome
      <4>1. \E R : Tells(serialize_error_response(id, x), id, i, R)
          BY <3>3, <3>5, <3>7, ErrorTells
      <4>2. QED
          BY <3>4, <3>7, <4>1
    <3>8. CASE outcome.ends # "returns" /\ x = Nil
      <4>1. Meant(serialize_error_response(id, x),
                  ParsedResponse(id, CallResult(FALSE, <<x>>)))
        <5>1. Meant(serialize_error_response(id, x), ParsedResponse(id, CallResult(x # Nil, <<x>>)))
            BY <3>3, ResponseIsParsed
        <5>2. (x # Nil) = FALSE
            BY <3>8
        <5>3. QED
            BY <5>1, <5>2
      <4> HIDE DEF outcome
      <4>2. \E R : Tells(serialize_error_response(id, x), id, i, R)
          BY <3>5, <3>8, <4>1, ResultTells
      <4>3. QED
          BY <3>4, <3>8, <4>2
    <3>9. QED
        BY <3>6, <3>7, <3>8
  <2>6. QED
      BY <2>4, <2>5
<1>7. QED
    BY <1>5, <1>6

-----------------------------------------------------------------------------
(* The path: types, and what each message is.                              *)

Calls == [name : Names, arguments : Seq(Scalars)]

PathTypes ==
    /\ sent \in Seq(Meanings) /\ Len(sent) <= MaxSent
    /\ received \in Seq(Meanings)
    /\ wire \in [Sides -> Seq(Tokens)] /\ buffer \in [Sides -> Seq(Tokens)]
    /\ open \in [Sides -> BOOLEAN]
    /\ tasks \subseteq DOMAIN received
    /\ invoked \in Seq(Calls)

\* The k-th message sent to the server
UsualRequest(m, k) ==
    \E i \in Invocations : m = ParsedRequest(k - 1, i.name, Flat(i.arguments))
UsualNotification(m) ==
    /\ m.type = "NOTIFICATION" /\ m.method_name \in Names
    /\ \E a \in Seq(Scalars) : m.parameters = Flat(a)
Usual(m, k) ==
    UsualRequest(m, k) \/ UsualNotification(m) \/ m.type \in {"RESPONSE", "MALFORMED"}

SentUsual == \A k \in DOMAIN sent : Usual(sent[k], k)
ReceivedUsual ==
    /\ Len(received) <= Len(sent)
    /\ \A k \in DOMAIN received : received[k] = sent[k] /\ received[k].type # "MALFORMED"
    /\ \A k \in tasks : received[k].type # "RESPONSE"

\* What is on the way to a side is the messages that it did not parse yet.
Unparsed(s) == buffer[s] \o wire[s]
ServerStream == IsStream(Unparsed("server"), sent, Len(received))

ClosesRightly ==
    /\ closing => \E i \in DOMAIN received : received[i].type = "RESPONSE"
    /\ ~open["server"] =>
          \/ Len(received) < Len(sent) /\ sent[Len(received) + 1] = Malformed
          \/ \E i \in DOMAIN received : received[i].type = "RESPONSE"

Sound == PathTypes /\ SentUsual /\ ReceivedUsual /\ ServerStream /\ ClosesRightly

\* The bounds as numbers, and the two sides
LEMMA Bounds ==
    /\ NumIDs \in Nat \ {0} /\ MaxSent \in Nat /\ MaxSent <= NumIDs
    /\ ReadBufferSize \in Nat \ {0} /\ "server" \in Sides /\ "client" \in Sides
    /\ \A s \in Sides : s = "server" \/ s = "client"
BY BoundsAssumption DEF Sides

\* Only what is parsed has the type of a message.
LEMMA ParsedType ==
    ASSUME NEW b, Succeeded(try_parse(b))
    PROVE  try_parse(b).value.type \in {"REQUEST", "RESPONSE", "NOTIFICATION"}
<1> DEFINE o == FirstObject(b)
<1>1. try_parse(b) = ParseObject(o)
    BY Endings DEF try_parse
<1> HIDE DEF o
<1>2. ~(~IsArray(o) \/ Size(o) < 3 \/ ~ValidType(Element(o, 1)))
    BY <1>1, Endings DEF ParseObject
<1>3. Element(o, 1)[1].n \in {REQUEST, RESPONSE, NOTIFICATION}
    BY <1>2 DEF ValidType, REQUEST, RESPONSE, NOTIFICATION
<1>4. ParseObject(o) \in {ParseRequest(o), ParseResponse(o), ParseNotification(o)}
    BY <1>2, <1>3 DEF ParseObject, REQUEST, RESPONSE, NOTIFICATION
<1>5. \A id, name, p : ParsedRequest(id, name, p).type = "REQUEST"
    BY DEF ParsedRequest
<1>6. \A id, r : ParsedResponse(id, r).type = "RESPONSE"
    BY DEF ParsedResponse
<1>7. \A name, p : ParsedNotification(name, p).type = "NOTIFICATION"
    BY DEF ParsedNotification
<1>8. CASE ParseObject(o) = ParseRequest(o)
    BY <1>1, <1>5, <1>8, Endings DEF ParseRequest
<1>9. CASE ParseObject(o) = ParseResponse(o)
    BY <1>1, <1>6, <1>9, Endings DEF ParseResponse
<1>10. CASE ParseObject(o) = ParseNotification(o)
    BY <1>1, <1>7, <1>10, Endings DEF ParseNotification
<1>11. QED
    BY <1>4, <1>8, <1>9, <1>10

\* A message is made of tokens.
LEMMA MeantType ==
    ASSUME NEW t, NEW m, Meant(t, m)
    PROVE  t \in Seq(Tokens) /\ m \in Meanings
BY DEF Meant, IsMessage, Meanings

\* What the client sends is meant as it says.
LEMMA SerializedIsMeant ==
    ASSUME NEW i \in Invocations, NEW id \in 0..(NumIDs - 1)
    PROVE  Meant(Serialized(i, id),
                 IF i.is_notification THEN ParsedNotification(i.name, Flat(i.arguments))
                 ELSE ParsedRequest(id, i.name, Flat(i.arguments)))
<1>1. i.name \in Names /\ i.arguments \in Seq(Scalars)
    BY InvocationsAssumption
<1>2. CASE i.is_notification
    BY <1>1, <1>2, NotificationIsParsed DEF Serialized
<1>3. CASE ~i.is_notification
    BY <1>1, <1>3, RequestIsParsed DEF Serialized
<1>4. QED
    BY <1>2, <1>3

\* Every message that the server executes is a request or a notification.
LEMMA ReceivedKinds ==
    ASSUME PathTypes, SentUsual, ReceivedUsual, NEW k \in DOMAIN received
    PROVE  /\ k \in 1..Len(received) /\ k \in DOMAIN sent /\ k - 1 \in 0..(NumIDs - 1)
           /\ received[k].type = "REQUEST" => UsualRequest(received[k], k)
           /\ received[k].type # "REQUEST" /\ received[k].type # "RESPONSE"
              => UsualNotification(received[k])
<1>1. k \in 1..Len(received) /\ k \in 1..Len(sent) /\ k \in DOMAIN sent /\ Len(sent) \in Nat
    BY DEF PathTypes, ReceivedUsual
<1>2. k - 1 \in 0..(NumIDs - 1)
    BY <1>1, Bounds DEF PathTypes
<1>3. Usual(received[k], k) /\ received[k].type # "MALFORMED"
    BY <1>1 DEF SentUsual, ReceivedUsual
<1>4. UsualRequest(received[k], k) => received[k].type = "REQUEST"
    BY DEF UsualRequest, ParsedRequest
<1>5. UsualNotification(received[k]) => received[k].type = "NOTIFICATION"
    BY DEF UsualNotification
<1>6. QED
    BY <1>1, <1>2, <1>3, <1>4, <1>5 DEF Usual

\* A request is answered by one response with its ID.
LEMMA RequestIsAnswered ==
    ASSUME NEW m, NEW k, k - 1 \in 0..(NumIDs - 1), UsualRequest(m, k)
    PROVE  /\ m.type = "REQUEST" /\ m.id = k - 1
           /\ \E i \in Invocations : \E R :
                 /\ m = ParsedRequest(k - 1, i.name, Flat(i.arguments))
                 /\ Tells(call(m), k - 1, i, R)
<1>1. PICK i \in Invocations : m = ParsedRequest(k - 1, i.name, Flat(i.arguments))
    BY DEF UsualRequest
<1>2. m.type = "REQUEST" /\ m.id = k - 1
    BY <1>1 DEF ParsedRequest
<1>3. \E R : Tells(call(m), k - 1, i, R)
    BY <1>1, AnswerTells
<1>4. QED
    BY <1>1, <1>2, <1>3

-----------------------------------------------------------------------------
(* The path: the tokens that a side did not parse yet.                     *)

\* A part of a sequence of tokens
LEMMA PartLaw ==
    ASSUME NEW x \in Seq(Tokens), NEW m \in Nat \ {0}, NEW n \in Nat, m <= n + 1, n <= Len(x)
    PROVE  /\ SubSeq(x, m, n) \in Seq(Tokens) /\ Len(SubSeq(x, m, n)) = (n - m) + 1
           /\ \A i \in 1..(n - m) + 1 : SubSeq(x, m, n)[i] = x[(m + i) - 1]
OBVIOUS

\* Sequences of tokens are the same if they have the same tokens.
LEMMA SameSequence ==
    ASSUME NEW x \in Seq(Tokens), NEW y \in Seq(Tokens), Len(x) = Len(y),
           \A i \in 1..Len(x) : x[i] = y[i]
    PROVE  x = y
OBVIOUS

\* What is sent comes behind what the buffer and the connection hold.
LEMMA SendKeeps ==
    ASSUME NEW b \in Seq(Tokens), NEW w \in Seq(Tokens), NEW t \in Seq(Tokens)
    PROVE  b \o (w \o t) = (b \o w) \o t
<1> DEFINE u == w \o t
           v == b \o w
           x == b \o u
           y == v \o t
<1>1. /\ u \in Seq(Tokens) /\ Len(u) = Len(w) + Len(t)
      /\ \A i \in 1..Len(w) : u[i] = w[i]
      /\ \A i \in 1..Len(t) : u[Len(w) + i] = t[i]
    BY ConcatLaw
<1>2. /\ v \in Seq(Tokens) /\ Len(v) = Len(b) + Len(w)
      /\ \A i \in 1..Len(b) : v[i] = b[i]
      /\ \A i \in 1..Len(w) : v[Len(b) + i] = w[i]
    BY ConcatLaw
<1> HIDE DEF u, v
<1>3. /\ x \in Seq(Tokens) /\ Len(x) = Len(b) + Len(u)
      /\ \A i \in 1..Len(b) : x[i] = b[i]
      /\ \A i \in 1..Len(u) : x[Len(b) + i] = u[i]
    BY <1>1, ConcatLaw
<1>4. /\ y \in Seq(Tokens) /\ Len(y) = Len(v) + Len(t)
      /\ \A i \in 1..Len(v) : y[i] = v[i]
      /\ \A i \in 1..Len(t) : y[Len(v) + i] = t[i]
    BY <1>2, ConcatLaw
<1> HIDE DEF x, y
<1>5. Len(b) \in Nat /\ Len(w) \in Nat /\ Len(t) \in Nat
    OBVIOUS
<1>6. ASSUME NEW i \in 1..Len(x) PROVE x[i] = y[i]
  <2>1. CASE i <= Len(b)
    <3>1. i \in 1..Len(b) /\ i \in 1..Len(v)
        BY <1>1, <1>2, <1>3, <1>5, <2>1
    <3>2. QED
        BY <1>2, <1>3, <1>4, <3>1
  <2>2. CASE ~(i <= Len(b)) /\ i <= Len(b) + Len(w)
    <3> DEFINE j == i - Len(b)
    <3>1. j \in 1..Len(w) /\ j \in 1..Len(u) /\ Len(b) + j = i /\ i \in 1..Len(v)
        BY <1>1, <1>2, <1>5, <2>2
    <3> HIDE DEF j
    <3>2. QED
        BY <1>1, <1>2, <1>3, <1>4, <3>1
  <2>3. CASE ~(i <= Len(b) + Len(w))
    <3> DEFINE j == i - (Len(b) + Len(w))
    <3>1. /\ j \in 1..Len(t) /\ Len(w) + j \in 1..Len(u)
          /\ Len(b) + (Len(w) + j) = i /\ Len(v) + j = i
        BY <1>1, <1>2, <1>3, <1>5, <2>3
    <3> HIDE DEF j
    <3>2. QED
        BY <1>1, <1>3, <1>4, <3>1
  <2>4. QED
      BY <1>3, <1>5, <2>1, <2>2, <2>3
<1>7. Len(x) = Len(y)
    BY <1>1, <1>2, <1>3, <1>4, <1>5
<1>8. x = y
    BY <1>3, <1>4, <1>6, <1>7, SameSequence
<1>9. QED
    BY <1>8 DEF x, y, u, v

\* What a read takes and what it leaves, and what the parser takes and leaves
LEMMA PartsOf ==
    ASSUME NEW w \in Seq(Tokens), NEW n \in 0..Len(w)
    PROVE  SubSeq(w, 1, n) \o SubSeq(w, n + 1, Len(w)) = w
<1> DEFINE b == SubSeq(w, 1, n)
           r == SubSeq(w, n + 1, Len(w))
           x == b \o r
<1>1. n \in Nat /\ Len(w) \in Nat /\ n + 1 \in Nat \ {0} /\ n <= Len(w)
    OBVIOUS
<1>2. b \in Seq(Tokens) /\ Len(b) = n /\ \A i \in 1..n : b[i] = w[i]
    BY Prefix
<1>3. /\ r \in Seq(Tokens) /\ Len(r) = Len(w) - n
      /\ \A i \in 1..Len(w) - n : r[i] = w[n + i]
  <2> DEFINE m == n + 1
             q == Len(w)
  <2>0. m \in Nat \ {0} /\ q \in Nat /\ m <= q + 1 /\ q <= Len(w)
      BY <1>1
  <2>1. /\ r \in Seq(Tokens) /\ Len(r) = (q - m) + 1
        /\ \A i \in 1..(q - m) + 1 : r[i] = w[(m + i) - 1]
    <3>1. r = SubSeq(w, m, q)
        OBVIOUS
    <3> HIDE DEF m, q, r
    <3>2. QED
        BY <2>0, <3>1, PartLaw
  <2> HIDE DEF r
  <2>2. (q - m) + 1 = Len(w) - n /\ \A i \in 1..Len(w) - n : (m + i) - 1 = n + i
      BY <1>1
  <2> HIDE DEF m, q
  <2>3. QED
      BY <2>1, <2>2
<1> HIDE DEF b, r
<1>4. /\ x \in Seq(Tokens) /\ Len(x) = Len(b) + Len(r)
      /\ \A i \in 1..Len(b) : x[i] = b[i]
      /\ \A i \in 1..Len(r) : x[Len(b) + i] = r[i]
    BY <1>2, <1>3, ConcatLaw
<1> HIDE DEF x
<1>5. ASSUME NEW i \in 1..Len(x) PROVE x[i] = w[i]
  <2>1. CASE i <= n
    <3>1. i \in 1..n
        BY <2>1
    <3>2. QED
        BY <1>2, <1>4, <3>1
  <2>2. CASE ~(i <= n)
    <3> DEFINE j == i - n
    <3>1. j \in 1..Len(w) - n /\ n + j = i /\ j \in 1..Len(r) /\ Len(b) + j = i
        BY <1>1, <1>2, <1>3, <1>4, <2>2
    <3> HIDE DEF j
    <3>2. x[Len(b) + j] = r[j]
        BY <1>4, <3>1
    <3>3. r[j] = w[n + j]
        BY <1>3, <3>1
    <3>4. QED
        BY <3>1, <3>2, <3>3
  <2>3. QED
      BY <2>1, <2>2
<1>6. Len(x) = Len(w)
    BY <1>1, <1>2, <1>3, <1>4
<1>7. x = w
    BY <1>4, <1>5, <1>6, SameSequence
<1>8. QED
    BY <1>7 DEF x, b, r

\* A read moves tokens into the buffer and loses none.
LEMMA ReadKeeps ==
    ASSUME NEW b \in Seq(Tokens), NEW w \in Seq(Tokens), NEW n \in 0..Len(w)
    PROVE  (b \o SubSeq(w, 1, n)) \o SubSeq(w, n + 1, Len(w)) = b \o w
<1> DEFINE x == SubSeq(w, 1, n)
           y == SubSeq(w, n + 1, Len(w))
<1>1. x \in Seq(Tokens) /\ y \in Seq(Tokens)
    OBVIOUS
<1>2. x \o y = w
    BY PartsOf
<1> HIDE DEF x, y
<1>3. b \o (x \o y) = (b \o x) \o y
    BY <1>1, SendKeeps
<1>4. QED
    BY <1>2, <1>3 DEF x, y

\* A buffer begins what is not parsed, and without its first object it begins
\* what is left.
LEMMA RestKeeps ==
    ASSUME NEW b \in Seq(Tokens), NEW w \in Seq(Tokens), NEW e \in 0..Len(b)
    PROVE  /\ b \o w \in Seq(Tokens) /\ Len(b) \in 0..Len(b \o w)
           /\ b = SubSeq(b \o w, 1, Len(b))
           /\ SubSeq(b, e + 1, Len(b)) \o w = SubSeq(b \o w, e + 1, Len(b \o w))
<1> DEFINE c == b \o w
           p == SubSeq(b, 1, e)
           r == SubSeq(b, e + 1, Len(b))
           d == r \o w
           f == SubSeq(c, e + 1, Len(c))
<1>1. /\ c \in Seq(Tokens) /\ Len(c) = Len(b) + Len(w)
      /\ \A i \in 1..Len(b) : c[i] = b[i]
    BY ConcatLaw
<1>2. Len(b) \in Nat /\ Len(w) \in Nat /\ Len(b) \in 0..Len(c) /\ e \in 0..Len(c)
    BY <1>1
<1>3. b = SubSeq(c, 1, Len(b))
  <2> DEFINE g == SubSeq(c, 1, Len(b))
  <2> HIDE DEF c
  <2>1. g \in Seq(Tokens) /\ Len(g) = Len(b) /\ \A k \in 1..Len(b) : g[k] = c[k]
      BY <1>1, <1>2, Prefix
  <2> HIDE DEF g
  <2>2. g = b
      BY <1>1, <2>1, SameSequence
  <2>3. QED
      BY <2>2 DEF g
<1>4. c = p \o d
  <2>0. p \in Seq(Tokens) /\ r \in Seq(Tokens)
      OBVIOUS
  <2>1. p \o r = b
      BY PartsOf
  <2> HIDE DEF p, r
  <2>2. QED
      BY <2>0, <2>1, SendKeeps
<1>5. p \in Seq(Tokens) /\ Len(p) = e /\ r \in Seq(Tokens)
    BY Prefix
<1>6. d \in Seq(Tokens)
  <2> HIDE DEF r
  <2>1. QED
      BY <1>5, ConcatLaw
<1>7. f = d
  <2>1. Len(c) = e + Len(d) /\ \A i \in 1..Len(d) : c[e + i] = d[i]
    <3> HIDE DEF c, p, d
    <3>1. /\ Len(p \o d) = Len(p) + Len(d)
          /\ \A i \in 1..Len(d) : (p \o d)[Len(p) + i] = d[i]
        BY <1>5, <1>6, ConcatLaw
    <3>2. QED
        BY <1>4, <1>5, <3>1
  <2>2. Len(d) \in Nat /\ e \in Nat
      BY <1>6
  <2>3. /\ f \in Seq(Tokens) /\ Len(f) = Len(d)
        /\ \A i \in 1..Len(d) : f[i] = c[e + i]
    <3> DEFINE m == e + 1
               q == Len(c)
    <3>1. m \in Nat \ {0} /\ q \in Nat /\ m <= q + 1 /\ q <= Len(c) /\ f = SubSeq(c, m, q)
        BY <1>2
    <3> HIDE DEF c, d
    <3>2. (q - m) + 1 = Len(d) /\ \A i \in 1..Len(d) : (m + i) - 1 = e + i
        BY <2>1, <2>2
    <3> HIDE DEF m, q, f
    <3>3. /\ f \in Seq(Tokens) /\ Len(f) = (q - m) + 1
          /\ \A i \in 1..(q - m) + 1 : f[i] = c[(m + i) - 1]
        BY <1>1, <3>1, PartLaw
    <3>4. QED
        BY <3>2, <3>3
  <2> HIDE DEF c, d, f
  <2>4. QED
      BY <1>6, <2>1, <2>3, SameSequence
<1>8. QED
    BY <1>1, <1>2, <1>3, <1>7

\* What a side did not parse yet is made of tokens.
LEMMA UnparsedType ==
    ASSUME PathTypes, NEW s \in Sides
    PROVE  /\ buffer[s] \in Seq(Tokens) /\ wire[s] \in Seq(Tokens)
           /\ Unparsed(s) \in Seq(Tokens)
<1>1. buffer[s] \in Seq(Tokens) /\ wire[s] \in Seq(Tokens)
    BY DEF PathTypes
<1>2. QED
    BY <1>1, ConcatLaw DEF Unparsed

\* What is sent to a side comes behind what it did not parse yet, and is of no
\* matter to the other side.
LEMMA UnparsedOfSend ==
    ASSUME PathTypes, NEW s \in Sides, NEW t \in Seq(Tokens),
           wire' = [wire EXCEPT ![s] = @ \o t], buffer' = buffer
    PROVE  /\ wire' \in [Sides -> Seq(Tokens)]
           /\ Unparsed(s)' = Unparsed(s) \o t
           /\ \A z \in Sides \ {s} : Unparsed(z)' = Unparsed(z)
<1>1. buffer[s] \in Seq(Tokens) /\ wire[s] \in Seq(Tokens) /\ wire \in [Sides -> Seq(Tokens)]
    BY DEF PathTypes
<1>2. wire[s] \o t \in Seq(Tokens)
    BY <1>1, ConcatLaw
<1>3. wire' \in [Sides -> Seq(Tokens)]
    BY <1>1, <1>2
<1>4. wire'[s] = wire[s] \o t /\ \A z \in Sides \ {s} : wire'[z] = wire[z]
    BY <1>1
<1>5. buffer[s] \o (wire[s] \o t) = (buffer[s] \o wire[s]) \o t
    BY <1>1, SendKeeps
<1>6. QED
    BY <1>3, <1>4, <1>5 DEF Unparsed

\* A read changes nothing of what is not parsed.
LEMMA UnparsedOfRead ==
    ASSUME PathTypes, NEW s \in Sides, NEW n \in 1..ReadBufferSize, Read(s, n)
    PROVE  /\ wire' \in [Sides -> Seq(Tokens)] /\ buffer' \in [Sides -> Seq(Tokens)]
           /\ \A z \in Sides : Unparsed(z)' = Unparsed(z)
<1> DEFINE b == buffer[s]
           w == wire[s]
           p == SubSeq(w, 1, n)
           r == SubSeq(w, n + 1, Len(w))
<1>1. /\ b \in Seq(Tokens) /\ w \in Seq(Tokens)
      /\ wire \in [Sides -> Seq(Tokens)] /\ buffer \in [Sides -> Seq(Tokens)]
    BY DEF PathTypes
<1>2. n \in 0..Len(w)
    BY <1>1, Bounds DEF Read
<1>3. wire' = [wire EXCEPT ![s] = r] /\ buffer' = [buffer EXCEPT ![s] = b \o p]
    BY DEF Read, Buffered
<1>4. (b \o p) \o r = b \o w
    BY <1>1, <1>2, ReadKeeps
<1>5. r \in Seq(Tokens) /\ p \in Seq(Tokens)
  <2> HIDE DEF w
  <2>1. QED
      BY <1>1, <1>2
<1>6. b \o p \in Seq(Tokens)
  <2> HIDE DEF b, p
  <2>1. QED
      BY <1>1, <1>5, ConcatLaw
<1> HIDE DEF p, r
<1>7. wire' \in [Sides -> Seq(Tokens)] /\ buffer' \in [Sides -> Seq(Tokens)]
    BY <1>1, <1>3, <1>5, <1>6
<1>8. ASSUME NEW z \in Sides PROVE Unparsed(z)' = Unparsed(z)
  <2>1. CASE z = s
    <3>1. wire'[s] = r /\ buffer'[s] = b \o p
        BY <1>1, <1>3
    <3>2. QED
        BY <1>4, <2>1, <3>1 DEF Unparsed
  <2>2. CASE z # s
    <3>1. wire'[z] = wire[z] /\ buffer'[z] = buffer[z]
        BY <1>1, <1>3, <2>2
    <3>2. QED
        BY <3>1 DEF Unparsed
  <2>3. QED
      BY <2>1, <2>2
<1>9. QED
    BY <1>7, <1>8

\* The parser takes an object from the beginning of what is not parsed.
LEMMA UnparsedOfParse ==
    ASSUME PathTypes, NEW s \in Sides, End(buffer[s], 1) \in 1..Len(buffer[s]),
           buffer' = [buffer EXCEPT ![s] = Rest(@)], wire' = wire
    PROVE  /\ buffer' \in [Sides -> Seq(Tokens)]
           /\ Unparsed(s)' = SubSeq(Unparsed(s), End(buffer[s], 1) + 1, Len(Unparsed(s)))
           /\ \A z \in Sides \ {s} : Unparsed(z)' = Unparsed(z)
<1> DEFINE b == buffer[s]
           w == wire[s]
           e == End(b, 1)
           r == SubSeq(b, e + 1, Len(b))
<1>1. /\ b \in Seq(Tokens) /\ w \in Seq(Tokens) /\ e \in 0..Len(b)
      /\ wire \in [Sides -> Seq(Tokens)] /\ buffer \in [Sides -> Seq(Tokens)]
    BY DEF PathTypes
<1>2. buffer' = [buffer EXCEPT ![s] = r]
    BY DEF Rest
<1>3. r \in Seq(Tokens)
  <2> HIDE DEF b, e
  <2>1. QED
      BY <1>1
<1>4. r \o w = SubSeq(b \o w, e + 1, Len(b \o w))
  <2> HIDE DEF b, w, e
  <2>1. QED
      BY <1>1, RestKeeps
<1> HIDE DEF r, e
<1>5. buffer' \in [Sides -> Seq(Tokens)]
    BY <1>1, <1>2, <1>3
<1>6. buffer'[s] = r /\ \A z \in Sides \ {s} : buffer'[z] = buffer[z]
    BY <1>1, <1>2
<1>7. QED
    BY <1>4, <1>5, <1>6 DEF Unparsed, e

\* The parser of a side takes the next message of its stream, or closes at one
\* that is malformed.
LEMMA ParseOfStream ==
    ASSUME PathTypes, NEW s \in Sides, NEW S, NEW ms \in Seq(S), NEW k,
           IsStream(Unparsed(s), ms, k), Parsable(s)
    PROVE  /\ k + 1 \in 1..Len(ms)
           /\ ~Succeeded(try_parse(buffer[s])) => ms[k + 1] = Malformed
           /\ Succeeded(try_parse(buffer[s])) =>
                 /\ try_parse(buffer[s]).value = ms[k + 1]
                 /\ End(buffer[s], 1) \in 1..Len(buffer[s])
                 /\ IsStream(SubSeq(Unparsed(s), End(buffer[s], 1) + 1, Len(Unparsed(s))),
                             ms, k + 1)
<1> DEFINE b == buffer[s]
           w == Unparsed(s)
           n == Len(b)
<1>1. b \in Seq(Tokens) /\ wire[s] \in Seq(Tokens) /\ w = b \o wire[s]
    BY UnparsedType DEF Unparsed
<1>2. Broken(b) \/ Complete(b)
    BY DEF Parsable
<1>3. n \in 0..Len(w) /\ b = SubSeq(w, 1, n)
  <2>1. 0 \in 0..Len(b)
      BY <1>1
  <2> HIDE DEF b, w
  <2>2. QED
      BY <1>1, <2>1, RestKeeps
<1>4. IsStream(w, ms, k)
    OBVIOUS
<1> HIDE DEF b, w, n
<1>5. /\ k + 1 \in 1..Len(ms)
      /\ ~Succeeded(try_parse(b)) => ms[k + 1] = Malformed
      /\ Succeeded(try_parse(b)) =>
                 /\ try_parse(b).value = ms[k + 1]
                 /\ End(b, 1) \in 1..n
                 /\ IsStream(SubSeq(w, End(b, 1) + 1, Len(w)), ms, k + 1)
  <2>1. \A x : x = SubSeq(w, 1, n) /\ (Broken(x) \/ Complete(x)) =>
      /\ k + 1 \in 1..Len(ms)
      /\ ~Succeeded(try_parse(x)) => ms[k + 1] = Malformed
      /\ Succeeded(try_parse(x)) =>
                 /\ try_parse(x).value = ms[k + 1]
                 /\ End(x, 1) \in 1..n
                 /\ IsStream(SubSeq(w, End(x, 1) + 1, Len(w)), ms, k + 1)
      BY <1>3, <1>4, StreamParsed, Zenon
  <2>2. QED
      BY <1>2, <1>3, <2>1
<1>6. QED
    BY <1>5 DEF b, w, n

-----------------------------------------------------------------------------
(* The path: the server gets what was sent.                                *)

\* The invariant holds at first.
LEMMA PathInitSound == PathInit => Sound
<1> SUFFICES ASSUME PathInit PROVE Sound
    OBVIOUS
<1>1. /\ sent = <<>> /\ received = <<>> /\ tasks = {} /\ invoked = <<>> /\ closing = FALSE
      /\ wire = [s \in Sides |-> <<>>] /\ buffer = [s \in Sides |-> <<>>]
      /\ open = [s \in Sides |-> TRUE]
    BY DEF PathInit
<1>2. PathTypes
    BY <1>1, Bounds DEF PathTypes
<1>3. SentUsual /\ ReceivedUsual /\ ClosesRightly
    BY <1>1, Bounds DEF SentUsual, ReceivedUsual, ClosesRightly
<1>4. ServerStream
  <2>1. Unparsed("server") = <<>>
      BY <1>1, Bounds DEF Unparsed
  <2>2. Len(received) = 0
      BY <1>1
  <2>3. IsStream(<<>>, sent, 0)
      BY <1>1, StreamBegins
  <2>4. QED
      BY <2>1, <2>2, <2>3 DEF ServerStream
<1>5. QED
    BY <1>2, <1>3, <1>4 DEF Sound

\* What is sent is put behind what is on the way.
LEMMA SendingKeepsSound ==
    ASSUME Sound, NEW t, NEW m, Meant(t, m), Usual(m, Len(sent) + 1), Len(sent) < MaxSent,
           wire' = [wire EXCEPT !["server"] = @ \o t], sent' = Append(sent, m),
           UNCHANGED <<buffer, open, closing, received, tasks, invoked>>
    PROVE  Sound'
<1>1. PathTypes /\ SentUsual /\ ReceivedUsual /\ ServerStream /\ ClosesRightly
    BY DEF Sound
<1>2. t \in Seq(Tokens) /\ m \in Meanings
    BY MeantType
<1>3. sent \in Seq(Meanings) /\ Len(sent) \in Nat /\ received \in Seq(Meanings) /\ Len(received) \in Nat
    BY <1>1 DEF PathTypes
<1>4. /\ sent' \in Seq(Meanings) /\ Len(sent') = Len(sent) + 1
      /\ sent'[Len(sent) + 1] = m /\ \A k \in 1..Len(sent) : sent'[k] = sent[k]
    BY <1>2, <1>3
<1>5. /\ wire' \in [Sides -> Seq(Tokens)]
      /\ Unparsed("server")' = Unparsed("server") \o t
    BY <1>1, <1>2, Bounds, UnparsedOfSend
<1>6. PathTypes'
    BY <1>1, <1>3, <1>4, <1>5, Bounds DEF PathTypes
<1>7. SentUsual'
  <2> SUFFICES ASSUME NEW k \in DOMAIN sent' PROVE Usual(sent'[k], k)
      BY DEF SentUsual, Usual, UsualRequest, UsualNotification
  <2>1. k \in 1..Len(sent) + 1
      BY <1>4
  <2>2. CASE k = Len(sent) + 1
      BY <1>4, <2>2
  <2>3. CASE k # Len(sent) + 1
    <3>1. k \in 1..Len(sent) /\ k \in DOMAIN sent
        BY <1>3, <2>1, <2>3
    <3>2. QED
        BY <1>1, <1>4, <3>1 DEF SentUsual
  <2>4. QED
      BY <2>2, <2>3
<1>8. ReceivedUsual'
  <2>1. \A k \in DOMAIN received : k \in 1..Len(sent)
      BY <1>1, <1>3 DEF ReceivedUsual
  <2>2. QED
      BY <1>1, <1>3, <1>4, <2>1 DEF ReceivedUsual
<1>9. ServerStream'
  <2>1. IsStream(Unparsed("server") \o t, sent', Len(received))
      BY <1>1, <1>2, <1>3, StreamGrows DEF ServerStream
  <2>2. QED
      BY <1>5, <2>1 DEF ServerStream
<1>10. ClosesRightly'
  <2>1. Len(received) < Len(sent) => /\ Len(received) < Len(sent')
                                     /\ sent'[Len(received) + 1] = sent[Len(received) + 1]
      BY <1>3, <1>4
  <2>2. QED
      BY <1>1, <2>1 DEF ClosesRightly
<1>11. QED
    BY <1>6, <1>7, <1>8, <1>9, <1>10 DEF Sound

\* Client::async_call() and notify()
LEMMA SendKeepsSound ==
    ASSUME Sound, NEW i \in Invocations, Send(i)
    PROVE  Sound'
<1>1. Len(sent) \in Nat /\ Len(sent) < MaxSent
    BY DEF Sound, PathTypes, Send
<1>2. NextID = Len(sent) /\ Len(sent) \in 0..(NumIDs - 1)
    BY <1>1, Bounds DEF NextID
<1> DEFINE t == Serialized(i, NextID)
           m == IF i.is_notification THEN ParsedNotification(i.name, Flat(i.arguments))
                ELSE ParsedRequest(NextID, i.name, Flat(i.arguments))
<1>3. Meant(t, m)
    BY <1>2, SerializedIsMeant
<1>4. Usual(m, Len(sent) + 1)
  <2>1. CASE i.is_notification
    <3>1. m.type = "NOTIFICATION" /\ m.method_name = i.name /\ m.parameters = Flat(i.arguments)
        BY <2>1 DEF ParsedNotification
    <3> HIDE DEF m
    <3>2. UsualNotification(m)
        BY <3>1, InvocationsAssumption DEF UsualNotification
    <3>3. QED
        BY <3>2 DEF Usual
  <2>2. CASE ~i.is_notification
    <3>1. (Len(sent) + 1) - 1 = NextID
        BY <1>1, <1>2
    <3>2. m = ParsedRequest((Len(sent) + 1) - 1, i.name, Flat(i.arguments))
        BY <2>2, <3>1
    <3> HIDE DEF m
    <3>3. UsualRequest(m, Len(sent) + 1)
        BY <3>2 DEF UsualRequest
    <3>4. QED
        BY <3>3 DEF Usual
  <2>3. QED
      BY <2>1, <2>2
<1>5. /\ wire' = [wire EXCEPT !["server"] = @ \o t] /\ sent' = Append(sent, m)
      /\ UNCHANGED <<buffer, open, closing, received, tasks, invoked>>
    BY DEF Send
<1> HIDE DEF t, m
<1>6. QED
    BY <1>1, <1>3, <1>4, <1>5, SendingKeepsSound

\* Another program as the client
LEMMA ForeignKeepsSound ==
    ASSUME Sound, NEW f \in Foreign, ForeignSend(f)
    PROVE  Sound'
<1>1. Len(sent) < MaxSent
    BY DEF ForeignSend
<1>2. Meant(f.tokens, f.meaning)
    BY ForeignAssumption DEF Meant
<1>3. Usual(f.meaning, Len(sent) + 1)
    BY ForeignAssumption DEF Usual, UsualNotification
<1>4. /\ wire' = [wire EXCEPT !["server"] = @ \o f.tokens] /\ sent' = Append(sent, f.meaning)
      /\ UNCHANGED <<buffer, open, closing, received, tasks, invoked>>
    BY DEF ForeignSend
<1>5. QED
    BY <1>1, <1>2, <1>3, <1>4, SendingKeepsSound

\* A read of either side
LEMMA ReadKeepsSound ==
    ASSUME Sound, NEW s \in Sides, NEW n \in 1..ReadBufferSize, Read(s, n)
    PROVE  Sound'
<1>1. PathTypes /\ SentUsual /\ ReceivedUsual /\ ServerStream /\ ClosesRightly
    BY DEF Sound
<1>2. /\ wire' \in [Sides -> Seq(Tokens)] /\ buffer' \in [Sides -> Seq(Tokens)]
      /\ Unparsed("server")' = Unparsed("server")
    BY <1>1, Bounds, UnparsedOfRead
<1>3. UNCHANGED <<sent, open, closing, received, tasks, invoked>>
    BY DEF Read
<1>4. PathTypes'
    BY <1>1, <1>2, <1>3 DEF PathTypes
<1>5. SentUsual' /\ ReceivedUsual' /\ ClosesRightly'
    BY <1>1, <1>3 DEF SentUsual, ReceivedUsual, ClosesRightly, Usual, UsualRequest, UsualNotification
<1>6. ServerStream'
    BY <1>1, <1>2, <1>3 DEF ServerStream
<1>7. QED
    BY <1>4, <1>5, <1>6 DEF Sound

\* A side closes at a malformed message: for the server, the one after those it
\* received.
LEMMA FailureKeepsSound ==
    ASSUME Sound, NEW s \in Sides, ParseFails(s)
    PROVE  Sound'
<1>1. PathTypes /\ SentUsual /\ ReceivedUsual /\ ServerStream /\ ClosesRightly
    BY DEF Sound
<1>2. /\ open' = [open EXCEPT ![s] = FALSE]
      /\ UNCHANGED <<sent, wire, buffer, closing, received, tasks, invoked>>
    BY DEF ParseFails
<1>3. PathTypes'
    BY <1>1, <1>2 DEF PathTypes
<1>4. SentUsual' /\ ReceivedUsual'
    BY <1>1, <1>2 DEF SentUsual, ReceivedUsual, Usual, UsualRequest, UsualNotification
<1>5. ServerStream'
  <2>1. Unparsed("server")' = Unparsed("server")
      BY <1>2 DEF Unparsed
  <2>2. QED
      BY <1>1, <1>2, <2>1 DEF ServerStream
<1>6. ClosesRightly'
  <2>1. CASE s = "server"
    <3>1. /\ Len(received) + 1 \in 1..Len(sent)
          /\ sent[Len(received) + 1] = Malformed
      <4>1. sent \in Seq(Meanings) /\ Parsable("server") /\ ~Succeeded(try_parse(buffer["server"]))
          BY <1>1, <2>1 DEF PathTypes, ParseFails
      <4>2. IsStream(Unparsed("server"), sent, Len(received))
          BY <1>1 DEF ServerStream
      <4>3. QED
          BY <1>1, <4>1, <4>2, Bounds, ParseOfStream
    <3>2. Len(received) < Len(sent)
        BY <1>1, <3>1 DEF PathTypes
    <3>3. QED
        BY <1>1, <1>2, <3>1, <3>2 DEF ClosesRightly
  <2>2. CASE s # "server"
    <3>1. open'["server"] = open["server"]
        BY <1>1, <1>2, <2>2, Bounds DEF PathTypes
    <3>2. QED
        BY <1>1, <1>2, <3>1 DEF ClosesRightly
  <2>3. QED
      BY <2>1, <2>2
<1>7. QED
    BY <1>3, <1>4, <1>5, <1>6 DEF Sound

\* The function of a method is called with objects without elements.
LEMMA InvokedType ==
    ASSUME NEW m, NEW a \in Seq(Scalars), m.parameters = Flat(a), m.method_name \in Names
    PROVE  Invoked(m) \in Seq(Calls)
<1> DEFINE name == m.method_name
           found == get(name)
           p == Arguments(found.value, m)
           c == [name |-> name, arguments |-> p.value]
<1>1. Invoked(m) = IF Succeeded(found) /\ Succeeded(p) THEN <<c>> ELSE <<>>
    BY DEF Invoked
<1>2. CASE Named(name) = {}
  <2>1. ~Succeeded(found)
      BY <1>2, MethodIsFirst
  <2>2. QED
      BY <1>1, <2>1
<1>3. CASE Named(name) # {}
  <2>1. Succeeded(found) /\ Appended[found.value] = MethodOf(name)
      BY <1>3, MethodIsFirst
  <2>2. p = ParametersAs(Flat(a), MethodOf(name).parameters)
      BY <2>1 DEF Arguments
  <2>3. CASE Callable(name, a)
    <3>1. p = Returns(Passed(name, a)) /\ Passed(name, a) \in Seq(Scalars)
        BY <1>3, <2>2, <2>3, MethodParameters
    <3>2. p.value = Passed(name, a)
        BY <3>1 DEF Returns
    <3>3. c \in Calls
        BY <3>1, <3>2 DEF Calls
    <3> HIDE DEF c
    <3>4. QED
        BY <1>1, <3>3
  <2>4. CASE ~Callable(name, a)
    <3>1. ~Succeeded(p)
        BY <1>3, <2>2, <2>4, MethodParameters, Endings
    <3>2. QED
        BY <1>1, <3>1
  <2>5. QED
      BY <2>3, <2>4
<1>4. QED
    BY <1>2, <1>3

\* What does not touch the messages on the way to the server keeps the rest.
LEMMA ElsewhereKeepsSound ==
    ASSUME Sound, UNCHANGED <<sent, open, closing, received>>,
           tasks' \subseteq tasks, invoked' \in Seq(Calls),
           wire' \in [Sides -> Seq(Tokens)], buffer' \in [Sides -> Seq(Tokens)],
           Unparsed("server")' = Unparsed("server")
    PROVE  Sound'
<1>1. PathTypes /\ SentUsual /\ ReceivedUsual /\ ServerStream /\ ClosesRightly
    BY DEF Sound
<1>2. PathTypes'
    BY <1>1 DEF PathTypes
<1>3. SentUsual' /\ ReceivedUsual' /\ ClosesRightly'
    BY <1>1 DEF SentUsual, ReceivedUsual, ClosesRightly, Usual, UsualRequest, UsualNotification
<1>4. ServerStream'
    BY <1>1 DEF ServerStream
<1>5. QED
    BY <1>2, <1>3, <1>4 DEF Sound

\* ServerConnection::on_received() gets the message that was sent after those
\* received before.
LEMMA ServerParsesKeepsSound ==
    ASSUME Sound, ServerParses
    PROVE  Sound'
<1> DEFINE parsed == try_parse(buffer["server"]).value
           k == Len(received)
<1>1. PathTypes /\ SentUsual /\ ReceivedUsual /\ ServerStream /\ ClosesRightly
    BY DEF Sound
<1>2. /\ sent \in Seq(Meanings) /\ Len(sent) \in Nat
      /\ received \in Seq(Meanings) /\ k \in Nat
    BY <1>1 DEF PathTypes
<1>3. /\ Parsable("server") /\ Succeeded(try_parse(buffer["server"]))
      /\ received' = Append(received, parsed)
      /\ parsed.type = "RESPONSE" => closing' = TRUE /\ tasks' = tasks
      /\ parsed.type # "RESPONSE" => closing' = closing /\ tasks' = tasks \cup {k + 1}
      /\ buffer' = [buffer EXCEPT !["server"] = Rest(@)]
      /\ wire' = wire /\ UNCHANGED <<sent, open, invoked>>
    BY DEF ServerParses
<1>4. /\ k + 1 \in 1..Len(sent) /\ parsed = sent[k + 1]
      /\ End(buffer["server"], 1) \in 1..Len(buffer["server"])
      /\ IsStream(SubSeq(Unparsed("server"), End(buffer["server"], 1) + 1,
                         Len(Unparsed("server"))), sent, k + 1)
  <2>1. IsStream(Unparsed("server"), sent, k)
      BY <1>1 DEF ServerStream
  <2>2. QED
      BY <1>1, <1>2, <1>3, <2>1, Bounds, ParseOfStream
<1>5. parsed.type \in {"REQUEST", "RESPONSE", "NOTIFICATION"}
    BY <1>3, ParsedType
<1>6. parsed \in Meanings
    BY <1>2, <1>4
<1> HIDE DEF parsed
<1>7. /\ received' \in Seq(Meanings) /\ Len(received') = k + 1 /\ DOMAIN received' = 1..k + 1
      /\ received'[k + 1] = parsed /\ \A j \in 1..k : received'[j] = received[j]
    BY <1>2, <1>3, <1>6
<1>8. /\ buffer' \in [Sides -> Seq(Tokens)]
      /\ Unparsed("server")' = SubSeq(Unparsed("server"), End(buffer["server"], 1) + 1,
                                      Len(Unparsed("server")))
    BY <1>1, <1>3, <1>4, Bounds, UnparsedOfParse
<1>9. DOMAIN received = 1..k
    BY <1>2
<1>10. tasks \subseteq 1..k /\ tasks' \subseteq 1..k + 1
  <2>1. tasks \subseteq 1..k
      BY <1>1, <1>9 DEF PathTypes
  <2>2. tasks' \subseteq tasks \cup {k + 1}
      BY <1>3
  <2>3. QED
      BY <1>2, <2>1, <2>2
<1>11. PathTypes'
    BY <1>1, <1>3, <1>7, <1>8, <1>10 DEF PathTypes
<1>12. SentUsual'
    BY <1>1, <1>3 DEF SentUsual, Usual, UsualRequest, UsualNotification
<1>13. ReceivedUsual'
  <2>1. Len(received') <= Len(sent')
      BY <1>2, <1>3, <1>4, <1>7
  <2>2. ASSUME NEW j \in DOMAIN received'
        PROVE  received'[j] = sent'[j] /\ received'[j].type # "MALFORMED"
    <3>1. CASE j = k + 1
        BY <1>3, <1>4, <1>5, <1>7, <3>1
    <3>2. CASE j # k + 1
      <4>1. j \in 1..k
          BY <1>2, <1>7, <3>2
      <4>2. QED
          BY <1>1, <1>3, <1>7, <1>9, <4>1 DEF ReceivedUsual
    <3>3. QED
        BY <3>1, <3>2
  <2>3. ASSUME NEW j \in tasks' PROVE received'[j].type # "RESPONSE"
    <3>1. CASE j \in tasks
        BY <1>1, <1>7, <1>10, <3>1 DEF ReceivedUsual
    <3>2. CASE j \notin tasks
        BY <1>3, <1>7, <3>2
    <3>3. QED
        BY <3>1, <3>2
  <2>4. QED
      BY <2>1, <2>2, <2>3 DEF ReceivedUsual
<1>14. ServerStream'
    BY <1>3, <1>4, <1>7, <1>8 DEF ServerStream
<1>15. ClosesRightly'
  <2>1. (\E j \in DOMAIN received : received[j].type = "RESPONSE")
        => \E j \in DOMAIN received' : received'[j].type = "RESPONSE"
      BY <1>2, <1>7, <1>9
  <2>2. parsed.type = "RESPONSE"
        => \E j \in DOMAIN received' : received'[j].type = "RESPONSE"
      BY <1>2, <1>7
  <2>3. open'["server"]
      BY <1>3 DEF Parsable
  <2>4. QED
      BY <1>1, <1>3, <2>1, <2>2, <2>3 DEF ClosesRightly
<1>16. QED
    BY <1>11, <1>12, <1>13, <1>14, <1>15 DEF Sound

\* The posted close runs only after a response.
LEMMA ServerClosesKeepsSound ==
    ASSUME Sound, ServerCloses
    PROVE  Sound'
<1>1. PathTypes /\ SentUsual /\ ReceivedUsual /\ ServerStream /\ ClosesRightly
    BY DEF Sound
<1>2. /\ closing /\ open' = [open EXCEPT !["server"] = FALSE]
      /\ UNCHANGED <<sent, wire, buffer, closing, received, tasks, invoked>>
    BY DEF ServerCloses
<1>3. PathTypes'
    BY <1>1, <1>2 DEF PathTypes
<1>4. SentUsual' /\ ReceivedUsual' /\ ServerStream' /\ ClosesRightly'
    BY <1>1, <1>2 DEF SentUsual, ReceivedUsual, ServerStream, ClosesRightly, Unparsed,
        Usual, UsualRequest, UsualNotification
<1>5. QED
    BY <1>3, <1>4 DEF Sound

\* The answer of the server is a message or nothing.
LEMMA AnswerType ==
    ASSUME PathTypes, SentUsual, ReceivedUsual, NEW k \in tasks
    PROVE  Answer(received[k]) \in Seq(Tokens) /\ Invoked(received[k]) \in Seq(Calls)
<1> DEFINE m == received[k]
<1>1. k \in DOMAIN received /\ m.type # "RESPONSE"
    BY DEF PathTypes, ReceivedUsual
<1>2. k - 1 \in 0..(NumIDs - 1)
    BY <1>1, ReceivedKinds
<1>3. m.type = "REQUEST" => UsualRequest(m, k)
    BY <1>1, ReceivedKinds
<1>4. m.type # "REQUEST" => UsualNotification(m)
    BY <1>1, ReceivedKinds
<1> HIDE DEF m
<1>5. Answer(m) \in Seq(Tokens)
  <2>1. CASE m.type = "REQUEST"
    <3>1. UsualRequest(m, k)
        BY <1>3, <2>1
    <3>2. PICK i \in Invocations : \E R : Tells(call(m), k - 1, i, R)
        BY <1>2, <3>1, RequestIsAnswered
    <3>3. call(m) \in Seq(Tokens)
        BY <3>2, MeantType DEF Tells
    <3>4. QED
        BY <2>1, <3>3 DEF Answer
  <2>2. CASE m.type # "REQUEST"
      BY <2>2 DEF Answer
  <2>3. QED
      BY <2>1, <2>2
<1>6. \E a \in Seq(Scalars) : m.parameters = Flat(a) /\ m.method_name \in Names
  <2>1. CASE m.type = "REQUEST"
    <3>1. PICK i \in Invocations : m = ParsedRequest(k - 1, i.name, Flat(i.arguments))
        BY <1>3, <2>1 DEF UsualRequest
    <3>2. i.name \in Names /\ i.arguments \in Seq(Scalars)
        BY InvocationsAssumption
    <3>3. m.parameters = Flat(i.arguments) /\ m.method_name = i.name
        BY <3>1 DEF ParsedRequest
    <3>4. QED
        BY <3>2, <3>3
  <2>2. CASE m.type # "REQUEST"
      BY <1>4, <2>2 DEF UsualNotification
  <2>3. QED
      BY <2>1, <2>2
<1>7. Invoked(m) \in Seq(Calls)
    BY <1>6, InvokedType
<1>8. QED
    BY <1>5, <1>7 DEF m

\* Calls put behind calls
LEMMA CallsLaw ==
    ASSUME NEW x \in Seq(Calls), NEW y \in Seq(Calls)
    PROVE  x \o y \in Seq(Calls) /\ Len(x \o y) = Len(x) + Len(y)
OBVIOUS

\* A callback thread of the server executes a message.
LEMMA ExecuteKeepsSound ==
    ASSUME Sound, NEW k \in tasks, Execute(k)
    PROVE  Sound'
<1>1. PathTypes /\ SentUsual /\ ReceivedUsual
    BY DEF Sound
<1>2. Answer(received[k]) \in Seq(Tokens) /\ Invoked(received[k]) \in Seq(Calls)
    BY <1>1, AnswerType
<1>3. /\ tasks' \subseteq tasks /\ invoked' = invoked \o Invoked(received[k])
      /\ UNCHANGED <<sent, buffer, open, closing, received>>
      /\ wire' = [wire EXCEPT !["client"] =
                     IF open["server"] THEN @ \o Answer(received[k]) ELSE @]
    BY DEF Execute
<1>4. invoked' \in Seq(Calls)
    BY <1>1, <1>2, <1>3, CallsLaw DEF PathTypes
<1>5. buffer' = buffer /\ buffer' \in [Sides -> Seq(Tokens)]
    BY <1>1, <1>3 DEF PathTypes
<1>6. wire' \in [Sides -> Seq(Tokens)] /\ Unparsed("server")' = Unparsed("server")
  <2>1. CASE open["server"]
    <3> DEFINE t == Answer(received[k])
    <3>1. wire' = [wire EXCEPT !["client"] = @ \o t] /\ t \in Seq(Tokens)
        BY <1>2, <1>3, <2>1
    <3> HIDE DEF t
    <3>2. /\ wire' \in [Sides -> Seq(Tokens)]
          /\ \A z \in Sides \ {"client"} : Unparsed(z)' = Unparsed(z)
        BY <1>1, <1>5, <3>1, Bounds, UnparsedOfSend
    <3>3. QED
        BY <3>2, Bounds
  <2>2. CASE ~open["server"]
    <3>1. wire' = wire
        BY <1>1, <1>3, <2>2 DEF PathTypes
    <3>2. QED
        BY <1>1, <1>5, <3>1 DEF PathTypes, Unparsed
  <2>3. QED
      BY <2>1, <2>2
<1>7. QED
    BY <1>3, <1>4, <1>5, <1>6, ElsewhereKeepsSound

\* Another program as the server
LEMMA ReplyKeepsSound ==
    ASSUME Sound, NEW r \in Replies, ForeignReply(r)
    PROVE  Sound'
<1>1. PathTypes
    BY DEF Sound
<1>2. r \in Seq(Tokens)
    BY RepliesAssumption DEF IsMessage
<1>3. /\ wire' = [wire EXCEPT !["client"] = @ \o r]
      /\ UNCHANGED <<sent, buffer, open, closing, received, tasks, invoked>>
    BY DEF ForeignReply
<1>4. /\ wire' \in [Sides -> Seq(Tokens)]
      /\ \A z \in Sides \ {"client"} : Unparsed(z)' = Unparsed(z)
    BY <1>1, <1>2, <1>3, Bounds, UnparsedOfSend
<1>5. Unparsed("server")' = Unparsed("server")
    BY <1>4, Bounds
<1>6. buffer' \in [Sides -> Seq(Tokens)] /\ invoked' \in Seq(Calls) /\ tasks' \subseteq tasks
    BY <1>1, <1>3 DEF PathTypes
<1>7. QED
    BY <1>3, <1>4, <1>5, <1>6, ElsewhereKeepsSound

\* What the client takes is of no matter to the server.
LEMMA ClientParsesKeepsSound ==
    ASSUME Sound, ClientParses
    PROVE  Sound'
<1> DEFINE b == buffer["client"]
<1>1. PathTypes
    BY DEF Sound
<1>2. /\ buffer' = [buffer EXCEPT !["client"] = Rest(@)] /\ wire' = wire
      /\ UNCHANGED <<sent, open, closing, received, tasks, invoked>>
    BY DEF ClientParses
<1>3. End(b, 1) \in 1..Len(b)
  <2>1. b \in Seq(Tokens)
      BY <1>1, Bounds DEF PathTypes
  <2>2. Broken(b) \/ Complete(b)
      BY DEF ClientParses, Parsable
  <2>3. Succeeded(try_parse(b))
      BY DEF ClientParses
  <2> HIDE DEF b
  <2>4. ~Broken(b)
      BY <2>3, Endings DEF try_parse
  <2>5. Ends(b, 1) # {} /\ Ends(b, 1) \subseteq 1..Len(b)
      BY <2>2, <2>4 DEF Complete, Ends
  <2>6. QED
      BY <2>1, <2>5, FirstEnd
<1>4. /\ buffer' \in [Sides -> Seq(Tokens)]
      /\ \A z \in Sides \ {"client"} : Unparsed(z)' = Unparsed(z)
    BY <1>1, <1>2, <1>3, Bounds, UnparsedOfParse
<1>5. Unparsed("server")' = Unparsed("server")
    BY <1>4, Bounds
<1>6. wire' \in [Sides -> Seq(Tokens)] /\ invoked' \in Seq(Calls) /\ tasks' \subseteq tasks
    BY <1>1, <1>2 DEF PathTypes
<1>7. QED
    BY <1>2, <1>4, <1>5, <1>6, ElsewhereKeepsSound

\* Nothing happens.
LEMMA StutterKeepsSound ==
    ASSUME Sound, UNCHANGED pathVars
    PROVE  Sound'
<1>1. PathTypes
    BY DEF Sound
<1>2. UNCHANGED <<sent, wire, buffer, open, closing, received, tasks, invoked>>
    BY DEF pathVars
<1>3. Unparsed("server")' = Unparsed("server")
    BY <1>2 DEF Unparsed
<1>4. QED
    BY <1>1, <1>2, <1>3, ElsewhereKeepsSound DEF PathTypes
\* Every step
LEMMA StepKeepsSound ==
    ASSUME Sound, PathNext
    PROVE  Sound'
<1>1. ASSUME NEW i \in Invocations, Send(i) PROVE Sound'
    BY <1>1, SendKeepsSound
<1>2. ASSUME NEW f \in Foreign, ForeignSend(f) PROVE Sound'
    BY <1>2, ForeignKeepsSound
<1>3. ASSUME NEW s \in Sides, NEW n \in 1..ReadBufferSize, Read(s, n) PROVE Sound'
    BY <1>3, ReadKeepsSound
<1>4. ASSUME NEW s \in Sides, ParseFails(s) PROVE Sound'
    BY <1>4, FailureKeepsSound
<1>5. CASE ServerParses
    BY <1>5, ServerParsesKeepsSound
<1>6. CASE ServerCloses
    BY <1>6, ServerClosesKeepsSound
<1>7. CASE ClientParses
    BY <1>7, ClientParsesKeepsSound
<1>8. ASSUME NEW k \in tasks, Execute(k) PROVE Sound'
    BY <1>8, ExecuteKeepsSound
<1>9. ASSUME NEW r \in Replies, ForeignReply(r) PROVE Sound'
    BY <1>9, ReplyKeepsSound
<1>10. QED
    BY <1>1, <1>2, <1>3, <1>4, <1>5, <1>6, <1>7, <1>8, <1>9 DEF PathNext

\* The invariant contains the property.
LEMMA SoundIsReceivedAsSent == Sound => ReceivedAsSent
BY DEF Sound, ReceivedUsual, ClosesRightly, ReceivedAsSent

\* Whatever is sent, read and executed in whatever order, what is on the way to
\* the server is exactly the messages that it did not receive yet
\* (MessageParser::prepare_buffer(), consumed() and try_parse()).
THEOREM PathSound == PathSpec => []Sound
<1>1. Sound /\ [PathNext]_pathVars => Sound'
    BY StepKeepsSound, StutterKeepsSound
<1>2. QED
    BY <1>1, PathInitSound, PTL DEF PathSpec

\* The server gets what was sent, in order, up to the first malformed message
\* (MessageParser::try_parse(), ServerConnection::on_received()).
THEOREM MessagesAreReceivedAsSent == PathSpec => []ReceivedAsSent
<1>1. QED
    BY PathSound, SoundIsReceivedAsSent, PTL

-----------------------------------------------------------------------------
(* The path: the client gets the answers.                                  *)

Results == {m.result : m \in Meanings} \cup {NoResult}
ResultTypes == result \in [0..(NumIDs - 1) -> Results]

\* The requests executed, and what is meant by their answers
Asked == {e \in Executed : received[e].type = "REQUEST"}
Response(e) == Meaning(call(received[e]))

\* What a message on the way to the client is
Expected(m) == (\E r \in Replies : m = Meaning(r)) \/ (\E e \in Asked : m = Response(e))

\* What is on the way to the client is the messages of ms after the k-th, and
\* among them is the answer to each request that has no result yet.
StreamOfAnswers(ms, k) ==
    /\ IsStream(Unparsed("client"), ms, k)
    /\ \A j \in k + 1..Len(ms) : Expected(ms[j])
    /\ open["server"] => \A e \in Asked :
          result[e - 1] # NoResult \/ \E j \in k + 1..Len(ms) : ms[j] = Response(e)
ClientStream == \E ms \in Seq(Meanings) : \E k \in Nat : StreamOfAnswers(ms, k)

\* A future holds the answer to its own request.
AnswersRight ==
    \A id \in 0..(NumIDs - 1) : result[id] # NoResult =>
        id + 1 \in Asked /\ Response(id + 1) = ParsedResponse(id, result[id])

Called == {i \in Executed : Callable(received[i].method_name, Tail(received[i].parameters))}
CountedOnce == Len(invoked) = Cardinality(Called)

Answering == ResultTypes /\ CountedOnce /\ ClientStream /\ AnswersRight

\* Messages that were executed are among those received.
LEMMA ExecutedLaw ==
    ASSUME PathTypes
    PROVE  /\ Executed \subseteq 1..Len(received) /\ Len(received) \in Nat
           /\ IsFiniteSet(Executed) /\ IsFiniteSet(Called) /\ Cardinality(Called) \in Nat
           /\ Called \subseteq Executed /\ Asked \subseteq Executed
           /\ DOMAIN received = 1..Len(received)
<1>1. DOMAIN received = 1..Len(received) /\ Len(received) \in Nat
    BY DEF PathTypes
<1>2. Executed \subseteq 1..Len(received) /\ Called \subseteq Executed /\ Asked \subseteq Executed
    BY <1>1 DEF Executed, Called, Asked
<1>3. IsFiniteSet(1..Len(received))
    BY <1>1, FS_Interval
<1>4. IsFiniteSet(Executed)
    BY <1>2, <1>3, FS_Subset
<1>5. IsFiniteSet(Called)
    BY <1>2, <1>4, FS_Subset
<1>6. Cardinality(Called) \in Nat
    BY <1>5, FS_CardinalityType
<1>7. QED
    BY <1>1, <1>2, <1>4, <1>5, <1>6

\* The answer to the request at place e has the ID e - 1 and holds a result.
LEMMA ResponseLaw ==
    ASSUME PathTypes, SentUsual, ReceivedUsual, NEW e \in Asked
    PROVE  /\ e - 1 \in 0..(NumIDs - 1) /\ e - 1 < Len(sent) /\ (e - 1) + 1 = e
           /\ received[e].id = e - 1 /\ sent[e] = received[e] /\ sent[e].type = "REQUEST"
           /\ Meant(call(received[e]), Response(e))
           /\ \E R : Response(e) = ParsedResponse(e - 1, R) /\ R # NoResult
<1>1. e \in DOMAIN received /\ received[e].type = "REQUEST" /\ e \in 1..Len(received)
    BY ExecutedLaw DEF Asked, Executed
<1>2. /\ e - 1 \in 0..(NumIDs - 1) /\ UsualRequest(received[e], e)
    BY <1>1, ReceivedKinds
<1>3. /\ received[e].id = e - 1
      /\ \E i \in Invocations : \E R : Tells(call(received[e]), e - 1, i, R)
    BY <1>2, RequestIsAnswered
<1>4. sent[e] = received[e] /\ Len(received) <= Len(sent) /\ Len(sent) \in Nat /\ Len(received) \in Nat
    BY <1>1 DEF ReceivedUsual, PathTypes
<1>5. PICK i \in Invocations : \E R : Tells(call(received[e]), e - 1, i, R)
    BY <1>3
<1>6. PICK R : Meant(call(received[e]), ParsedResponse(e - 1, R)) /\ R # NoResult
    BY <1>5 DEF Tells
<1>7. Response(e) = ParsedResponse(e - 1, R) /\ Meant(call(received[e]), Response(e))
    BY <1>6 DEF Meant, Response
<1>8. QED
    BY <1>1, <1>2, <1>3, <1>4, <1>6, <1>7

\* What the executed requests are asked for stays.
LEMMA SameRequests ==
    ASSUME Executed' = Executed, \A e \in Executed : received'[e] = received[e]
    PROVE  /\ Asked' = Asked /\ Called' = Called /\ \A e \in Asked : Response(e)' = Response(e)
           /\ \A m : Expected(m)' <=> Expected(m)
<1>1. Asked' = Asked /\ Called' = Called
    BY DEF Asked, Called
<1>2. ASSUME NEW e \in Asked PROVE Response(e)' = Response(e)
    BY <1>2 DEF Response, Asked
<1>3. ASSUME NEW m PROVE Expected(m)' <=> Expected(m)
    BY <1>1, <1>2 DEF Expected
<1>4. QED
    BY <1>1, <1>2, <1>3

\* What changes neither what was executed nor what is on the way to the client
\* keeps the invariant of the answers.
LEMMA AsideKeepsAnswering ==
    ASSUME Answering, Executed' = Executed, \A e \in Executed : received'[e] = received[e],
           UNCHANGED <<result, invoked>>, open'["server"] => open["server"],
           Unparsed("client")' = Unparsed("client")
    PROVE  Answering'
<1>1. ResultTypes /\ CountedOnce /\ ClientStream /\ AnswersRight
    BY DEF Answering
<1>2. /\ Asked' = Asked /\ Called' = Called /\ \A e \in Asked : Response(e)' = Response(e)
      /\ \A m : Expected(m)' <=> Expected(m)
    BY SameRequests
<1>3. ResultTypes'
    BY <1>1 DEF ResultTypes, Results, NoResult
<1>4. CountedOnce'
    BY <1>1, <1>2 DEF CountedOnce
<1>5. ClientStream'
  <2>1. PICK ms \in Seq(Meanings), k \in Nat : StreamOfAnswers(ms, k)
      BY <1>1 DEF ClientStream
  <2>2. StreamOfAnswers(ms, k)'
      BY <1>2, <2>1 DEF StreamOfAnswers
  <2>3. QED
      BY <2>2 DEF ClientStream
<1>6. AnswersRight'
    BY <1>1, <1>2 DEF AnswersRight
<1>7. QED
    BY <1>3, <1>4, <1>5, <1>6 DEF Answering

\* The invariant of the answers holds at first.
LEMMA InitAnswering == PathInit => Answering
<1> SUFFICES ASSUME PathInit PROVE Answering
    OBVIOUS
<1>1. /\ received = <<>> /\ invoked = <<>> /\ result = [i \in 0..(NumIDs - 1) |-> NoResult]
      /\ wire = [s \in Sides |-> <<>>] /\ buffer = [s \in Sides |-> <<>>]
    BY DEF PathInit
<1>2. Executed = {} /\ Called = {} /\ Asked = {}
    BY <1>1 DEF Executed, Called, Asked
<1>3. ResultTypes
    BY <1>1 DEF ResultTypes, Results
<1>4. CountedOnce
    BY <1>1, <1>2, FS_EmptySet DEF CountedOnce
<1>5. AnswersRight
    BY <1>1 DEF AnswersRight
<1>6. ClientStream
  <2> DEFINE ms == <<>>
  <2>1. Unparsed("client") = <<>>
      BY <1>1, Bounds DEF Unparsed
  <2>2. ms \in Seq(Meanings) /\ Len(ms) = 0 /\ 0 \in Nat
      OBVIOUS
  <2>3. IsStream(<<>>, ms, 0)
      BY StreamBegins
  <2> HIDE DEF ms
  <2>4. StreamOfAnswers(ms, 0)
      BY <1>2, <2>1, <2>2, <2>3 DEF StreamOfAnswers
  <2>5. QED
      BY <2>2, <2>4 DEF ClientStream
<1>7. QED
    BY <1>3, <1>4, <1>5, <1>6 DEF Answering

-----------------------------------------------------------------------------
(* Successors that are of no matter to the answers.                             *)

\* Sending to the server is of no matter to the answers.
LEMMA SendKeepsAnswering ==
    ASSUME Sound, Answering, NEW t \in Seq(Tokens),
           wire' = [wire EXCEPT !["server"] = @ \o t],
           UNCHANGED <<buffer, open, closing, received, tasks, invoked, replied, result>>
    PROVE  Answering'
<1>1. PathTypes
    BY DEF Sound
<1>2. \A z \in Sides \ {"server"} : Unparsed(z)' = Unparsed(z)
    BY <1>1, Bounds, UnparsedOfSend
<1>3. Unparsed("client")' = Unparsed("client")
    BY <1>2, Bounds
<1>4. Executed' = Executed
    BY DEF Executed
<1>5. QED
    BY <1>3, <1>4, AsideKeepsAnswering

\* Both programs as the client
LEMMA SendsKeepAnswering ==
    ASSUME Sound, Answering,
           (\E i \in Invocations : Send(i)) \/ (\E f \in Foreign : ForeignSend(f))
    PROVE  Answering'
<1>1. ASSUME NEW i \in Invocations, Send(i) PROVE Answering'
  <2> DEFINE t == Serialized(i, NextID)
  <2>1. /\ wire' = [wire EXCEPT !["server"] = @ \o t]
        /\ UNCHANGED <<buffer, open, closing, received, tasks, invoked, replied, result>>
      BY <1>1 DEF Send
  <2>2. Len(sent) \in Nat /\ Len(sent) < MaxSent
      BY <1>1 DEF Sound, PathTypes, Send
  <2>3. NextID \in 0..(NumIDs - 1)
      BY <2>2, Bounds DEF NextID
  <2>4. t \in Seq(Tokens)
      BY <2>3, SerializedIsMeant, MeantType
  <2> HIDE DEF t
  <2>5. QED
      BY <2>1, <2>4, SendKeepsAnswering
<1>2. ASSUME NEW f \in Foreign, ForeignSend(f) PROVE Answering'
  <2> DEFINE t == f.tokens
  <2>1. /\ wire' = [wire EXCEPT !["server"] = @ \o t]
        /\ UNCHANGED <<buffer, open, closing, received, tasks, invoked, replied, result>>
      BY <1>2 DEF ForeignSend
  <2>2. t \in Seq(Tokens)
      BY ForeignAssumption DEF IsMessage
  <2> HIDE DEF t
  <2>3. QED
      BY <2>1, <2>2, SendKeepsAnswering
<1>3. QED
    BY <1>1, <1>2

\* A read of either side
LEMMA ReadKeepsAnswering ==
    ASSUME Sound, Answering, NEW s \in Sides, NEW n \in 1..ReadBufferSize, Read(s, n)
    PROVE  Answering'
<1>1. PathTypes
    BY DEF Sound
<1>2. Unparsed("client")' = Unparsed("client")
    BY <1>1, Bounds, UnparsedOfRead
<1>3. UNCHANGED <<open, received, tasks, invoked, result>>
    BY DEF Read
<1>4. Executed' = Executed
    BY <1>3 DEF Executed
<1>5. QED
    BY <1>2, <1>3, <1>4, AsideKeepsAnswering

\* A side closes its connection: it may only end the promise to answer.
LEMMA CloseKeepsAnswering ==
    ASSUME Sound, Answering, ServerCloses \/ \E s \in Sides : ParseFails(s)
    PROVE  Answering'
<1>1. UNCHANGED <<wire, buffer, received, tasks, invoked, result>>
    BY DEF ServerCloses, ParseFails
<1>2. open'["server"] => open["server"]
  <2>1. open \in [Sides -> BOOLEAN]
      BY DEF Sound, PathTypes
  <2>2. ASSUME NEW s \in Sides, open' = [open EXCEPT ![s] = FALSE]
        PROVE  open'["server"] => open["server"]
      BY <2>1, <2>2, Bounds
  <2>3. \E s \in Sides : open' = [open EXCEPT ![s] = FALSE]
      BY Bounds DEF ServerCloses, ParseFails
  <2>4. QED
      BY <2>2, <2>3
<1>3. Unparsed("client")' = Unparsed("client")
    BY <1>1 DEF Unparsed
<1>4. Executed' = Executed
    BY <1>1 DEF Executed
<1>5. QED
    BY <1>1, <1>2, <1>3, <1>4, AsideKeepsAnswering

\* A message that the server receives waits for a callback thread, or is a
\* response: it is not executed yet.
LEMMA ServerParsesKeepsAnswering ==
    ASSUME Sound, Answering, ServerParses
    PROVE  Answering'
<1> DEFINE b == buffer["server"]
           parsed == try_parse(b).value
           k == Len(received)
<1>1. PathTypes /\ SentUsual /\ ReceivedUsual /\ ServerStream
    BY DEF Sound
<1>2. /\ sent \in Seq(Meanings) /\ received \in Seq(Meanings) /\ k \in Nat
      /\ DOMAIN received = 1..k /\ tasks \subseteq 1..k
    BY <1>1 DEF PathTypes
<1>3. /\ Parsable("server") /\ Succeeded(try_parse(b))
      /\ received' = Append(received, parsed)
      /\ parsed.type = "RESPONSE" => tasks' = tasks
      /\ parsed.type # "RESPONSE" => tasks' = tasks \cup {k + 1}
      /\ buffer' = [buffer EXCEPT !["server"] = Rest(@)]
      /\ wire' = wire /\ UNCHANGED <<open, invoked, result>>
    BY DEF ServerParses
<1>4. IsStream(Unparsed("server"), sent, k)
    BY <1>1 DEF ServerStream
<1>5. End(b, 1) \in 1..Len(b) /\ parsed = sent[k + 1] /\ k + 1 \in 1..Len(sent)
    BY <1>1, <1>2, <1>3, <1>4, Bounds, ParseOfStream
<1>6. parsed \in Meanings
    BY <1>2, <1>5
<1> HIDE DEF parsed
<1>7. /\ Len(received') = k + 1 /\ DOMAIN received' = 1..k + 1
      /\ received'[k + 1] = parsed /\ \A j \in 1..k : received'[j] = received[j]
    BY <1>2, <1>3, <1>6
<1>8. \A z \in Sides \ {"server"} : Unparsed(z)' = Unparsed(z)
    BY <1>1, <1>3, <1>5, Bounds, UnparsedOfParse
<1>9. Unparsed("client")' = Unparsed("client")
    BY <1>8, Bounds
<1>10. Executed' = Executed
  <2>1. 1..k + 1 = (1..k) \cup {k + 1} /\ k + 1 \notin 1..k
      BY <1>2
  <2>2. ASSUME NEW e \in 1..k PROVE e \in Executed' <=> e \in Executed
    <3>1. e \in tasks' <=> e \in tasks
        BY <1>3, <2>1, <2>2
    <3>2. e \in DOMAIN received' /\ e \in DOMAIN received /\ received'[e] = received[e]
        BY <1>2, <1>7, <2>1, <2>2
    <3>3. QED
        BY <3>1, <3>2 DEF Executed
  <2>3. k + 1 \notin Executed'
    <3>1. received'[k + 1].type # "RESPONSE" => k + 1 \in tasks'
        BY <1>3, <1>7
    <3>2. QED
        BY <3>1 DEF Executed
  <2>4. Executed \subseteq 1..k /\ Executed' \subseteq 1..k + 1
      BY <1>2, <1>7 DEF Executed
  <2>5. QED
      BY <2>1, <2>2, <2>3, <2>4
<1>11. \A e \in Executed : received'[e] = received[e]
    BY <1>2, <1>7 DEF Executed
<1>12. QED
    BY <1>3, <1>9, <1>10, <1>11, AsideKeepsAnswering

\* Nothing happens.
LEMMA StutterKeepsAnswering ==
    ASSUME Answering, UNCHANGED pathVars
    PROVE  Answering'
<1>1. UNCHANGED <<wire, buffer, open, received, tasks, invoked, result>>
    BY DEF pathVars
<1>2. Unparsed("client")' = Unparsed("client") /\ Executed' = Executed
    BY <1>1 DEF Unparsed, Executed
<1>3. QED
    BY <1>1, <1>2, AsideKeepsAnswering

\* A message that is put behind what is on the way to the client.
LEMMA StreamOfAnswersGrows ==
    ASSUME PathTypes, NEW t, NEW m, Meant(t, m),
           wire' = [wire EXCEPT !["client"] = @ \o t], buffer' = buffer,
           NEW ms \in Seq(Meanings), NEW k \in Nat, StreamOfAnswers(ms, k)
    PROVE  /\ IsStream(Unparsed("client"), Append(ms, m), k)'
           /\ Append(ms, m) \in Seq(Meanings) /\ Len(Append(ms, m)) = Len(ms) + 1
           /\ Append(ms, m)[Len(ms) + 1] = m /\ \A j \in 1..Len(ms) : Append(ms, m)[j] = ms[j]
           /\ k \in 0..Len(ms) /\ Len(ms) \in Nat
<1>1. t \in Seq(Tokens) /\ m \in Meanings
    BY MeantType
<1>2. Unparsed("client")' = Unparsed("client") \o t
    BY <1>1, Bounds, UnparsedOfSend
<1>3. IsStream(Unparsed("client"), ms, k)
    BY DEF StreamOfAnswers
<1>4. IsStream(Unparsed("client") \o t, Append(ms, m), k)
    BY <1>1, <1>3, StreamGrows
<1>5. k \in 0..Len(ms) /\ Len(ms) \in Nat
    BY <1>3 DEF IsStream
<1>6. IsStream(Unparsed("client"), Append(ms, m), k)'
    BY <1>2, <1>4
<1>7. QED
    BY <1>1, <1>5, <1>6

\* Another program as the server
LEMMA ReplyKeepsAnswering ==
    ASSUME Sound, Answering, NEW r \in Replies, ForeignReply(r)
    PROVE  Answering'
<1>1. PathTypes /\ ResultTypes /\ CountedOnce /\ ClientStream /\ AnswersRight
    BY DEF Sound, Answering
<1>2. /\ wire' = [wire EXCEPT !["client"] = @ \o r]
      /\ UNCHANGED <<buffer, open, received, tasks, invoked, result>>
    BY DEF ForeignReply
<1>3. Executed' = Executed
    BY <1>2 DEF Executed
<1>4. /\ Asked' = Asked /\ Called' = Called /\ \A e \in Asked : Response(e)' = Response(e)
      /\ \A m : Expected(m)' <=> Expected(m)
    BY <1>2, <1>3, SameRequests
<1>5. Meant(r, Meaning(r))
    BY RepliesAssumption DEF Meant
<1>6. ResultTypes' /\ CountedOnce' /\ AnswersRight'
  <2>1. ResultTypes'
      BY <1>1, <1>2 DEF ResultTypes
  <2>2. CountedOnce'
      BY <1>1, <1>2, <1>4 DEF CountedOnce
  <2>3. AnswersRight'
      BY <1>1, <1>2, <1>4 DEF AnswersRight
  <2>4. QED
      BY <2>1, <2>2, <2>3
<1>7. ClientStream'
  <2>1. PICK ms \in Seq(Meanings) : \E k \in Nat : StreamOfAnswers(ms, k)
      BY <1>1 DEF ClientStream
  <2>2. PICK k \in Nat : StreamOfAnswers(ms, k)
      BY <2>1
  <2> DEFINE more == Append(ms, Meaning(r))
  <2>3. /\ IsStream(Unparsed("client"), more, k)'
        /\ more \in Seq(Meanings) /\ Len(more) = Len(ms) + 1
        /\ more[Len(ms) + 1] = Meaning(r) /\ \A j \in 1..Len(ms) : more[j] = ms[j]
        /\ k \in 0..Len(ms) /\ Len(ms) \in Nat
      BY <1>1, <1>2, <1>5, <2>2, StreamOfAnswersGrows
  <2> HIDE DEF more
  <2>4. \A j \in k + 1..Len(ms) : j \in 1..Len(ms) /\ j \in k + 1..Len(more)
      BY <2>3
  <2>5. ASSUME NEW j \in k + 1..Len(more) PROVE Expected(more[j])'
    <3>1. CASE j = Len(ms) + 1
      <4>1. Expected(Meaning(r))
          BY DEF Expected
      <4>2. QED
          BY <1>4, <2>3, <3>1, <4>1
    <3>2. CASE j # Len(ms) + 1
      <4>1. j \in k + 1..Len(ms)
          BY <2>3, <3>2
      <4>2. Expected(ms[j])
          BY <2>2, <4>1 DEF StreamOfAnswers
      <4>3. QED
          BY <1>4, <2>3, <2>4, <4>1, <4>2
    <3>3. QED
        BY <3>1, <3>2
  <2>6. ASSUME open["server"], NEW e \in Asked, result[e - 1] = NoResult
        PROVE  \E j \in k + 1..Len(more) : more[j] = Response(e)
    <3>1. \E j \in k + 1..Len(ms) : ms[j] = Response(e)
        BY <2>2, <2>6 DEF StreamOfAnswers
    <3>2. QED
        BY <2>3, <2>4, <3>1
  <2>7. StreamOfAnswers(more, k)'
      BY <1>2, <1>4, <2>3, <2>5, <2>6 DEF StreamOfAnswers, NoResult, CallResult
  <2>8. QED
      BY <2>3, <2>7 DEF ClientStream
<1>8. QED
    BY <1>6, <1>7 DEF Answering

-----------------------------------------------------------------------------
(* Execute(k): the set of what is executed grows by k.                     *)

\* What a callback thread takes is executed from then on.
LEMMA ExecutedGrows ==
    ASSUME Sound, NEW k \in tasks, Execute(k)
    PROVE  /\ Executed' = Executed \cup {k} /\ k \notin Executed /\ k \in DOMAIN received
           /\ received[k].type # "RESPONSE"
           /\ Asked' = IF received[k].type = "REQUEST" THEN Asked \cup {k} ELSE Asked
           /\ \A e : Response(e)' = Response(e)
           /\ \A m : Expected(m) => Expected(m)'
<1>1. k \in DOMAIN received /\ received[k].type # "RESPONSE"
    BY DEF Sound, PathTypes, ReceivedUsual
<1>2. tasks' = tasks \ {k} /\ received' = received
    BY DEF Execute
<1>3. Executed' = Executed \cup {k} /\ k \notin Executed
    BY <1>1, <1>2 DEF Executed
<1>4. Asked' = IF received[k].type = "REQUEST" THEN Asked \cup {k} ELSE Asked
    BY <1>2, <1>3 DEF Asked
<1>5. \A e : Response(e)' = Response(e)
    BY <1>2 DEF Response
<1>6. \A m : Expected(m) => Expected(m)'
    BY <1>4, <1>5 DEF Expected
<1>7. QED
    BY <1>1, <1>3, <1>4, <1>5, <1>6

\* MethodProcessor::call() and notify() run the function once if the method takes
\* the parameters, and otherwise not.
LEMMA ExecuteCounts ==
    ASSUME Sound, CountedOnce, NEW k \in tasks, Execute(k)
    PROVE  CountedOnce'
<1> DEFINE m == received[k]
           a == Tail(m.parameters)
<1>1. PathTypes /\ SentUsual /\ ReceivedUsual
    BY DEF Sound
<1>2. Executed' = Executed \cup {k} /\ k \notin Executed /\ k \in DOMAIN received /\ m.type # "RESPONSE"
    BY ExecutedGrows
<1>3. a \in Seq(Scalars) /\ m.parameters = Flat(a)
  <2>1. \E x \in Seq(Scalars) : m.parameters = Flat(x)
    <3>1. CASE m.type = "REQUEST"
      <4>1. UsualRequest(m, k)
          BY <1>1, <1>2, <3>1, ReceivedKinds
      <4>2. PICK i \in Invocations : m = ParsedRequest(k - 1, i.name, Flat(i.arguments))
          BY <4>1 DEF UsualRequest
      <4>3. QED
          BY <4>2, InvocationsAssumption DEF ParsedRequest
    <3>2. CASE m.type # "REQUEST"
      <4>1. UsualNotification(m)
          BY <1>1, <1>2, <3>2, ReceivedKinds
      <4>2. QED
          BY <4>1 DEF UsualNotification
    <3>3. QED
        BY <3>1, <3>2
  <2>2. PICK x \in Seq(Scalars) : m.parameters = Flat(x)
      BY <2>1
  <2>3. Tail(Flat(x)) = x
      BY FlatShape
  <2>4. QED
      BY <2>2, <2>3
<1>4. Len(Invoked(m)) = IF Callable(m.method_name, a) THEN 1 ELSE 0
    BY <1>3, InvokedLaw
<1>5. invoked' = invoked \o Invoked(m) /\ received' = received
    BY DEF Execute
<1>6. Invoked(m) \in Seq(Calls) /\ invoked \in Seq(Calls)
    BY <1>1, AnswerType DEF PathTypes
<1>7. Len(invoked') = Len(invoked) + Len(Invoked(m))
    BY <1>5, <1>6, CallsLaw
<1>8. Called' = IF Callable(m.method_name, a) THEN Called \cup {k} ELSE Called
    BY <1>2, <1>5 DEF Called
<1>9. IsFiniteSet(Called) /\ k \notin Called /\ Cardinality(Called) \in Nat
    BY <1>1, <1>2, ExecutedLaw
<1>10. Cardinality(Called \cup {k}) = Cardinality(Called) + 1
    BY <1>9, FS_AddElement
<1> HIDE DEF m, a
<1>11. CASE Callable(m.method_name, a)
    BY <1>4, <1>7, <1>8, <1>10, <1>11 DEF CountedOnce
<1>12. CASE ~Callable(m.method_name, a)
    BY <1>4, <1>7, <1>8, <1>9, <1>12 DEF CountedOnce
<1>13. QED
    BY <1>11, <1>12

\* The answer to the request is put behind what is on the way.
LEMMA AnswerIsSent ==
    ASSUME Sound, ClientStream, NEW k \in tasks, Execute(k),
           open["server"], received[k].type = "REQUEST"
    PROVE  ClientStream'
<1> PICK t : t = call(received[k])
    OBVIOUS
<1> PICK m : m = Response(k)
    OBVIOUS
<1>1. PathTypes /\ SentUsual /\ ReceivedUsual
    BY DEF Sound
<1>2. /\ Asked' = Asked \cup {k} /\ \A e : Response(e)' = Response(e)
      /\ \A x : Expected(x) => Expected(x)'
    BY ExecutedGrows
<1>3. wire' = [wire EXCEPT !["client"] = @ \o t] /\ UNCHANGED <<buffer, open, result>>
    BY DEF Execute, Answer
<1>4. Meant(t, m)
  <2>1. k \in DOMAIN received
      BY ExecutedGrows
  <2>2. k - 1 \in 0..(NumIDs - 1) /\ UsualRequest(received[k], k)
      BY <1>1, <2>1, ReceivedKinds
  <2>3. PICK i \in Invocations : \E R : Tells(call(received[k]), k - 1, i, R)
      BY <2>2, RequestIsAnswered
  <2>4. QED
      BY <2>3 DEF Tells, Meant, Response
<1>5. PICK ms \in Seq(Meanings) : \E i \in Nat : StreamOfAnswers(ms, i)
    BY DEF ClientStream
<1>6. PICK i \in Nat : StreamOfAnswers(ms, i)
    BY <1>5
<1> DEFINE more == Append(ms, m)
<1>7. /\ IsStream(Unparsed("client"), more, i)'
      /\ more \in Seq(Meanings) /\ Len(more) = Len(ms) + 1
      /\ more[Len(ms) + 1] = m /\ \A j \in 1..Len(ms) : more[j] = ms[j]
      /\ i \in 0..Len(ms) /\ Len(ms) \in Nat
  <2>1. PathTypes /\ Meant(t, m) /\ StreamOfAnswers(ms, i)
      BY <1>1, <1>4, <1>6
  <2>2. wire' = [wire EXCEPT !["client"] = @ \o t] /\ buffer' = buffer
      BY <1>3
  <2>3. QED
      BY ONLY <2>1, <2>2, StreamOfAnswersGrows
<1> HIDE DEF more
<1>8. \A j \in i + 1..Len(ms) : j \in 1..Len(ms) /\ j \in i + 1..Len(more)
    BY <1>7
<1>9. ASSUME NEW j \in i + 1..Len(more) PROVE Expected(more[j])'
  <2>1. CASE j = Len(ms) + 1
    <3>1. Expected(m)'
        BY <1>2 DEF Expected
    <3>2. QED
        BY <1>7, <2>1, <3>1
  <2>2. CASE j # Len(ms) + 1
    <3>1. j \in i + 1..Len(ms)
        BY <1>7, <2>2
    <3>2. Expected(ms[j])
        BY <1>6, <3>1 DEF StreamOfAnswers
    <3>3. QED
        BY <1>2, <1>7, <1>8, <3>1, <3>2
  <2>3. QED
      BY <2>1, <2>2
<1>10. ASSUME NEW e \in Asked', result[e - 1] = NoResult
       PROVE  \E j \in i + 1..Len(more) : more[j] = Response(e)
  <2>1. CASE e = k
    <3>1. Len(ms) + 1 \in i + 1..Len(more)
        BY <1>7
    <3>2. QED
        BY <1>7, <2>1, <3>1
  <2>2. CASE e # k
    <3>1. \E j \in i + 1..Len(ms) : ms[j] = Response(e)
        BY <1>2, <1>6, <1>10, <2>2 DEF StreamOfAnswers
    <3>2. QED
        BY <1>7, <1>8, <3>1
  <2>3. QED
      BY <2>1, <2>2
<1>11. StreamOfAnswers(more, i)'
    BY <1>2, <1>3, <1>7, <1>9, <1>10 DEF StreamOfAnswers, NoResult, CallResult
<1>12. QED
    BY <1>7, <1>11 DEF ClientStream

\* A notification, or a connection that was closed
LEMMA NothingIsSent ==
    ASSUME Sound, ClientStream, NEW k \in tasks, Execute(k),
           ~open["server"] \/ received[k].type # "REQUEST"
    PROVE  ClientStream'
<1>1. PathTypes
    BY DEF Sound
<1>2. /\ Asked' = IF received[k].type = "REQUEST" THEN Asked \cup {k} ELSE Asked
      /\ \A e : Response(e)' = Response(e) /\ \A x : Expected(x) => Expected(x)'
    BY ExecutedGrows
<1>3. UNCHANGED <<buffer, open, result>>
    BY DEF Execute
<1>4. Unparsed("client")' = Unparsed("client")
  <2>1. CASE ~open["server"]
    <3>1. wire' = wire
        BY <1>1, <2>1 DEF Execute, PathTypes
    <3>2. QED
        BY <1>3, <3>1 DEF Unparsed
  <2>2. CASE open["server"]
    <3> DEFINE t == Answer(received[k])
               u == Unparsed("client")
    <3>1. wire' = [wire EXCEPT !["client"] = @ \o t] /\ t = <<>>
        BY <2>2 DEF Execute, Answer
    <3>2. t \in Seq(Tokens)
        BY <3>1
    <3> HIDE DEF t
    <3>3. Unparsed("client")' = u \o t
        BY <1>1, <1>3, <3>1, <3>2, Bounds, UnparsedOfSend
    <3>4. u \in Seq(Tokens)
        BY <1>1, Bounds, UnparsedType
    <3> HIDE DEF u
    <3>5. u \o t = u
        BY <3>1, <3>4
    <3>6. QED
        BY <3>3, <3>5 DEF u
  <2>3. QED
      BY <2>1, <2>2
<1>5. PICK ms \in Seq(Meanings) : \E i \in Nat : StreamOfAnswers(ms, i)
    BY DEF ClientStream
<1>6. PICK i \in Nat : StreamOfAnswers(ms, i)
    BY <1>5
<1>7. open["server"] => Asked' = Asked
    BY <1>2
<1>8. StreamOfAnswers(ms, i)'
    BY <1>2, <1>3, <1>4, <1>6, <1>7 DEF StreamOfAnswers, NoResult, CallResult
<1>9. QED
    BY <1>8 DEF ClientStream

\* A callback thread of the server executes a message.
LEMMA ExecuteKeepsAnswering ==
    ASSUME Sound, Answering, NEW k \in tasks, Execute(k)
    PROVE  Answering'
<1>1. ResultTypes /\ CountedOnce /\ ClientStream /\ AnswersRight
    BY DEF Answering
<1>2. result' = result
    BY DEF Execute
<1>3. ResultTypes'
    BY <1>1, <1>2 DEF ResultTypes
<1>4. CountedOnce'
    BY <1>1, ExecuteCounts
<1>5. ClientStream'
    BY <1>1, AnswerIsSent, NothingIsSent
<1>6. AnswersRight'
  <2>1. Asked \subseteq Asked' /\ \A e : Response(e)' = Response(e)
      BY ExecutedGrows
  <2>2. QED
      BY <1>1, <1>2, <2>1 DEF AnswersRight
<1>7. QED
    BY <1>3, <1>4, <1>5, <1>6 DEF Answering

-----------------------------------------------------------------------------
(* ClientParses.                                                           *)

\* The message that the client takes has an effect.
HasEffect(m) ==
    /\ m.type = "RESPONSE" /\ m.id < Len(sent)
    /\ sent[m.id + 1].type = "REQUEST" /\ result[m.id] = NoResult

\* A response that has an effect is the answer of the server to the request of
\* that ID; another program cannot have sent it.
LEMMA EffectIsAnswer ==
    ASSUME Sound, NEW m, Expected(m), HasEffect(m)
    PROVE  /\ m.id \in 0..(NumIDs - 1) /\ m.id + 1 \in Asked /\ m.result # NoResult
           /\ Response(m.id + 1) = ParsedResponse(m.id, m.result) /\ m = Response(m.id + 1)
<1>1. PathTypes /\ SentUsual /\ ReceivedUsual
    BY DEF Sound
<1>2. ~\E r \in Replies : m = Meaning(r)
  <2> SUFFICES ASSUME NEW r \in Replies, m = Meaning(r) PROVE FALSE
      OBVIOUS
  <2>1. m.id \in MaxSent..(NumIDs - 1)
      BY RepliesAssumption DEF HasEffect
  <2>2. Len(sent) \in Nat /\ Len(sent) <= MaxSent /\ m.id < Len(sent)
      BY <1>1 DEF PathTypes, HasEffect
  <2>3. QED
      BY <2>1, <2>2, Bounds
<1>3. PICK e \in Asked : m = Response(e)
    BY <1>2 DEF Expected
<1>4. /\ e - 1 \in 0..(NumIDs - 1) /\ (e - 1) + 1 = e
      /\ \E R : Response(e) = ParsedResponse(e - 1, R) /\ R # NoResult
    BY <1>1, ResponseLaw
<1>5. PICK R : Response(e) = ParsedResponse(e - 1, R) /\ R # NoResult
    BY <1>4
<1>6. m.id = e - 1 /\ m.result = R
    BY <1>3, <1>5 DEF ParsedResponse
<1>7. QED
    BY <1>3, <1>4, <1>5, <1>6

\* The answer to a request has an effect if the request has no result yet.
LEMMA AnswerHasEffect ==
    ASSUME Sound, NEW e \in Asked
    PROVE  /\ Response(e).id = e - 1
           /\ result[e - 1] = NoResult => HasEffect(Response(e))
<1>1. PathTypes /\ SentUsual /\ ReceivedUsual
    BY DEF Sound
<1>2. /\ e - 1 < Len(sent) /\ (e - 1) + 1 = e /\ sent[e].type = "REQUEST"
      /\ \E R : Response(e) = ParsedResponse(e - 1, R)
    BY <1>1, ResponseLaw
<1>3. Response(e).type = "RESPONSE" /\ Response(e).id = e - 1
    BY <1>2 DEF ParsedResponse
<1>4. QED
    BY <1>2, <1>3 DEF HasEffect

\* CallList::handle(): the client takes the next message on the way, which is the
\* answer of a call that waits, or has no effect.
LEMMA ClientParsesKeepsAnswering ==
    ASSUME Sound, Answering, ClientParses
    PROVE  Answering'
<1> DEFINE b == buffer["client"]
<1>1. PathTypes /\ ResultTypes /\ CountedOnce /\ ClientStream /\ AnswersRight
    BY DEF Sound, Answering
<1>2. PICK ms \in Seq(Meanings) : \E k \in Nat : StreamOfAnswers(ms, k)
    BY <1>1 DEF ClientStream
<1>3. PICK k \in Nat : StreamOfAnswers(ms, k)
    BY <1>2
<1>4. /\ Parsable("client") /\ Succeeded(try_parse(b))
      /\ buffer' = [buffer EXCEPT !["client"] = Rest(@)] /\ wire' = wire
      /\ UNCHANGED <<sent, open, received, tasks, invoked>>
    BY DEF ClientParses
<1>5. /\ k + 1 \in 1..Len(ms) /\ try_parse(b).value = ms[k + 1]
      /\ End(b, 1) \in 1..Len(b)
      /\ IsStream(SubSeq(Unparsed("client"), End(b, 1) + 1, Len(Unparsed("client"))), ms, k + 1)
  <2>1. IsStream(Unparsed("client"), ms, k)
      BY <1>3 DEF StreamOfAnswers
  <2>2. QED
      BY <1>1, <1>4, <2>1, Bounds, ParseOfStream
<1> PICK m : m = ms[k + 1]
    OBVIOUS
<1>6. result' = IF HasEffect(m) THEN [result EXCEPT ![m.id] = m.result] ELSE result
    BY <1>5 DEF ClientParses, HasEffect
<1>7. Unparsed("client")' = SubSeq(Unparsed("client"), End(b, 1) + 1, Len(Unparsed("client")))
    BY <1>1, <1>4, <1>5, Bounds, UnparsedOfParse
<1>8. Expected(m) /\ m \in Meanings
    BY <1>3, <1>5 DEF StreamOfAnswers
<1>9. Executed' = Executed
    BY <1>4 DEF Executed
<1>10. /\ Asked' = Asked /\ Called' = Called /\ \A e \in Asked : Response(e)' = Response(e)
       /\ \A x : Expected(x)' <=> Expected(x)
    BY <1>4, <1>9, SameRequests
<1>11. result \in [0..(NumIDs - 1) -> Results]
    BY <1>1 DEF ResultTypes
<1>12. m.result \in Results
    BY <1>8 DEF Results
<1>13. HasEffect(m) => m.id \in 0..(NumIDs - 1) /\ m.id + 1 \in Asked /\ m.result # NoResult
                  /\ Response(m.id + 1) = ParsedResponse(m.id, m.result)
    BY <1>8, EffectIsAnswer
<1>14. ResultTypes'
  <2>1. result' \in [0..(NumIDs - 1) -> Results]
      BY <1>6, <1>11, <1>12, <1>13
  <2>2. QED
      BY <2>1 DEF ResultTypes, Results, NoResult
<1>15. \A id \in 0..(NumIDs - 1) :
          result'[id] = IF HasEffect(m) /\ id = m.id THEN m.result ELSE result[id]
    BY <1>6, <1>11, <1>13
<1>16. HasEffect(m) => result[m.id] = NoResult
    BY DEF HasEffect
<1>17. \A id \in 0..(NumIDs - 1) : result[id] # NoResult => result'[id] # NoResult
    BY <1>15, <1>16
<1>18. CountedOnce'
    BY <1>1, <1>4, <1>10 DEF CountedOnce
<1>19. AnswersRight'
  <2>1. ASSUME NEW id \in 0..(NumIDs - 1), result'[id] # NoResult
        PROVE  id + 1 \in Asked /\ Response(id + 1) = ParsedResponse(id, result'[id])
    <3>1. CASE HasEffect(m) /\ id = m.id
        BY <1>13, <1>15, <3>1
    <3>2. CASE ~(HasEffect(m) /\ id = m.id)
      <4>1. result'[id] = result[id]
          BY <1>15, <3>2
      <4>2. QED
          BY <1>1, <2>1, <4>1 DEF AnswersRight
    <3>3. QED
        BY <3>1, <3>2
  <2>2. QED
      BY <1>10, <2>1 DEF AnswersRight, NoResult, CallResult
<1>20. ClientStream'
  <2>1. IsStream(Unparsed("client"), ms, k + 1)'
      BY <1>5, <1>7
  <2>2. \A j \in (k + 1) + 1..Len(ms) : Expected(ms[j])'
    <3>1. \A j \in (k + 1) + 1..Len(ms) : j \in k + 1..Len(ms)
        BY <1>5
    <3>2. QED
        BY <1>3, <1>10, <3>1 DEF StreamOfAnswers
  <2>3. ASSUME open["server"], NEW e \in Asked, result'[e - 1] = NoResult
        PROVE  \E j \in (k + 1) + 1..Len(ms) : ms[j] = Response(e)
    <3>1. e - 1 \in 0..(NumIDs - 1)
        BY ResponseLaw DEF Sound
    <3>2. result[e - 1] = NoResult
        BY <1>17, <2>3, <3>1
    <3>3. PICK j \in k + 1..Len(ms) : ms[j] = Response(e)
        BY <1>3, <2>3, <3>2 DEF StreamOfAnswers
    <3>4. j # k + 1
      <4> SUFFICES ASSUME m = Response(e) PROVE FALSE
          BY <3>3
      <4>1. HasEffect(m) /\ m.id = e - 1
          BY <3>2, AnswerHasEffect
      <4>2. QED
          BY <1>13, <1>15, <2>3, <3>1, <4>1
    <3>5. j \in (k + 1) + 1..Len(ms)
        BY <1>5, <3>3, <3>4
    <3>6. QED
        BY <3>3, <3>5
  <2>4. StreamOfAnswers(ms, k + 1)'
      BY <1>4, <1>10, <2>1, <2>2, <2>3 DEF StreamOfAnswers, NoResult, CallResult
  <2>5. QED
      BY <2>4 DEF ClientStream
<1>21. QED
    BY <1>14, <1>18, <1>19, <1>20 DEF Answering

\* Every step
LEMMA StepKeepsAnswering ==
    ASSUME Sound, Answering, PathNext
    PROVE  Answering'
<1>1. CASE (\E i \in Invocations : Send(i)) \/ (\E f \in Foreign : ForeignSend(f))
    BY <1>1, SendsKeepAnswering
<1>2. ASSUME NEW s \in Sides, NEW n \in 1..ReadBufferSize, Read(s, n) PROVE Answering'
    BY <1>2, ReadKeepsAnswering
<1>3. CASE ServerCloses \/ \E s \in Sides : ParseFails(s)
    BY <1>3, CloseKeepsAnswering
<1>4. CASE ServerParses
    BY <1>4, ServerParsesKeepsAnswering
<1>5. CASE ClientParses
    BY <1>5, ClientParsesKeepsAnswering
<1>6. ASSUME NEW k \in tasks, Execute(k) PROVE Answering'
    BY <1>6, ExecuteKeepsAnswering
<1>7. ASSUME NEW r \in Replies, ForeignReply(r) PROVE Answering'
    BY <1>7, ReplyKeepsAnswering
<1>8. QED
    BY <1>1, <1>2, <1>3, <1>4, <1>5, <1>6, <1>7 DEF PathNext

\* What is on the way to the client is answers to requests that were executed and
\* messages of other programs, with the answer to every executed request that has
\* no result; a future holds the answer to its own request (CallList::handle(),
\* ServerConnection, MethodProcessor::call()).
THEOREM CallsAreAnswered == PathSpec => [](Sound /\ Answering)
<1>1. Sound /\ Answering /\ [PathNext]_pathVars => Answering'
    BY StepKeepsAnswering, StutterKeepsAnswering
<1>2. QED
    BY <1>1, PathSound, InitAnswering, PTL DEF PathSpec

\* A future that holds the answer to its own request gives what a local call does.
LEMMA AnsweringIsTransparent ==
    ASSUME Sound, Answering
    PROVE  CallIsTransparent
<1> SUFFICES ASSUME NEW id \in DOMAIN result, result[id] # NoResult, NEW i \in Invocations,
                    i.name = sent[id + 1].method_name,
                    Flat(i.arguments) = sent[id + 1].parameters
             PROVE  FutureGives(result[id], i.type) = Local(i.name, i.arguments, i.type)
    BY DEF CallIsTransparent
<1>1. PathTypes /\ SentUsual /\ ReceivedUsual /\ ResultTypes /\ AnswersRight
    BY DEF Sound, Answering
<1>2. id \in 0..(NumIDs - 1)
    BY <1>1 DEF ResultTypes
<1>3. id + 1 \in Asked /\ Response(id + 1) = ParsedResponse(id, result[id])
    BY <1>1, <1>2 DEF AnswersRight
<1>4. (id + 1) - 1 = id /\ id + 1 \in DOMAIN received /\ received[id + 1].type = "REQUEST"
    BY <1>2, <1>3 DEF Asked, Executed
<1>5. received[id + 1] = sent[id + 1]
    BY <1>1, <1>4 DEF ReceivedUsual
<1>6. PICK o \in Invocations : received[id + 1] = ParsedRequest(id, o.name, Flat(o.arguments))
  <2> DEFINE k == id + 1
  <2>1. k \in DOMAIN received /\ received[k].type = "REQUEST" /\ k - 1 = id
      BY <1>4
  <2> HIDE DEF k
  <2>2. UsualRequest(received[k], k)
      BY <1>1, <2>1, ReceivedKinds
  <2>3. QED
      BY <2>1, <2>2 DEF UsualRequest, k
<1>7. received[id + 1] = ParsedRequest(id, i.name, Flat(i.arguments))
    BY <1>5, <1>6 DEF ParsedRequest
<1>8. PICK R : Tells(call(received[id + 1]), id, i, R)
    BY <1>2, <1>7, AnswerTells
<1>9. ParsedResponse(id, R) = ParsedResponse(id, result[id])
    BY <1>3, <1>8 DEF Tells, Meant, Response
<1>10. R = result[id]
  <2>1. \A x : ParsedResponse(id, x).result = x
      BY DEF ParsedResponse
  <2>2. QED
      BY <1>9, <2>1
<1>11. QED
    BY <1>8, <1>10 DEF Tells

\* When nothing is on the way to the client, every executed request has a result.
LEMMA AnsweringIsOnce ==
    ASSUME Sound, Answering
    PROVE  ExecutedAndAnsweredOnce
<1>1. PathTypes /\ SentUsual /\ ReceivedUsual /\ ResultTypes /\ AnswersRight
      /\ CountedOnce /\ ClientStream
    BY DEF Sound, Answering
<1>2. DOMAIN result = 0..(NumIDs - 1)
    BY <1>1 DEF ResultTypes
<1>3. \A e \in Asked : e - 1 \in 0..(NumIDs - 1) /\ received[e].id = e - 1 /\ (e - 1) + 1 = e
    BY <1>1, ResponseLaw
<1>4. ASSUME open["server"], wire["client"] = <<>>, buffer["client"] = <<>>
      PROVE  Answered = {received[e].id : e \in Asked}
  <2>1. ASSUME NEW id \in Answered PROVE id \in {received[e].id : e \in Asked}
    <3>1. id \in 0..(NumIDs - 1) /\ id + 1 \in Asked
        BY <1>1, <1>2 DEF Answered, AnswersRight
    <3>2. received[id + 1].id = id
        BY <1>3, <3>1
    <3>3. QED
        BY <3>1, <3>2
  <2>2. ASSUME NEW e \in Asked PROVE received[e].id \in Answered
    <3>1. PICK ms \in Seq(Meanings) : \E k \in Nat : StreamOfAnswers(ms, k)
        BY <1>1 DEF ClientStream
    <3>2. PICK k \in Nat : StreamOfAnswers(ms, k)
        BY <3>1
    <3>3. Unparsed("client") = <<>>
        BY <1>4 DEF Unparsed
    <3>4. k = Len(ms)
        BY <3>2, <3>3, StreamEnds DEF StreamOfAnswers
    <3>5. ~\E j \in k + 1..Len(ms) : ms[j] = Response(e)
        BY <3>4
    <3>6. result[e - 1] # NoResult
        BY <1>4, <3>2, <3>5 DEF StreamOfAnswers
    <3>7. QED
        BY <1>2, <1>3, <3>6 DEF Answered
  <2>3. QED
      BY <2>1, <2>2
<1>5. QED
    BY <1>1, <1>4 DEF ExecutedAndAnsweredOnce, CountedOnce, Called, Asked

\* A remote call gives the user what a local call of the function would give: the
\* value, the object of the exception, or the error of wrong parameters
\* (Client::call(), CallFuture::get_result(), FunctionalMethod).
THEOREM CallsAreTransparent == PathSpec => []CallIsTransparent
<1>1. QED
    BY CallsAreAnswered, AnsweringIsTransparent, PTL

\* Every message executed ran the function of its method once, if there is one
\* that takes its parameters, and every request is answered, a notification never
\* (MethodProcessor::call(), notify()).
THEOREM CallsAreExecutedAndAnsweredOnce == PathSpec => []ExecutedAndAnsweredOnce
<1>1. QED
    BY CallsAreAnswered, AnsweringIsOnce, PTL
=============================================================================
