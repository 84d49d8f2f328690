----------------------------- MODULE ServerProofs -----------------------------
(***************************************************************************)
(* The life of a server for any files, numbers of threads, URIs, endpoints *)
(* and connections: what configurations of servers hold, that context()    *)
(* has a context to give, and that acceptors accept as long as they should.*)
(***************************************************************************)
EXTENDS Server, FiniteSetTheorems, TLAPS

-----------------------------------------------------------------------------
(* Induction.                                                              *)

\* Induction over the natural numbers: otherwise the members of S up to m, each
\* with its successor among them, were as many as without 0.
LEMMA SetInduction ==
    ASSUME NEW S \in SUBSET Nat, 0 \in S, \A n \in S : n + 1 \in S
    PROVE  S = Nat
<1> SUFFICES ASSUME NEW m \in Nat, m \notin S PROVE FALSE
    OBVIOUS
<1> DEFINE A == S \cap 0..m
           f == [n \in A |-> n + 1]
<1>1. f \in Injection(A, A \ {0})
  <2>1. \A n \in A : n + 1 \in A \ {0}
      OBVIOUS
  <2>2. f \in [A -> A \ {0}] /\ \A a, b \in A : f[a] = f[b] => a = b
      BY <2>1
  <2>3. QED
      BY <2>2 DEF Injection, IsInjective
<1>2. 0 \in A /\ A \subseteq 0..m
    OBVIOUS
<1> HIDE DEF A, f
<1>3. IsFiniteSet(A)
  <2>1. 0 \in Int /\ m \in Int
      OBVIOUS
  <2>2. QED
      BY <1>2, <2>1, FS_Interval, FS_Subset
<1>4. IsFiniteSet(A \ {0}) /\ Cardinality(A \ {0}) = Cardinality(A) - 1
    BY <1>2, <1>3, FS_RemoveElement
<1>5. Cardinality(A) =< Cardinality(A \ {0})
    BY <1>1, <1>4, FS_Injection
<1>6. QED
    BY <1>3, <1>4, <1>5, FS_CardinalityType

-----------------------------------------------------------------------------
(* Configurations: EachEntry() keeps what each entry keeps.                *)

Executors ==
    [num_transport_threads : 1..MaxThreads, num_callback_threads : 1..MaxThreads]

\* Configurations of servers
IsServer(c) ==
    /\ DOMAIN c = {"uris", "message_parser", "executor"}
    /\ c = [k \in DOMAIN c |-> c[k]]
    /\ c.executor \in Executors
    /\ \E S : c.uris \in Seq(S)

\* The maps of ConfigParser
AreConfigs(c) ==
    /\ DOMAIN c = {"logging", "client", "server"}
    /\ c = [k \in DOMAIN c |-> c[k]]
    /\ \A n \in DOMAIN c["server"] : IsServer(c["server"][n])

\* The three kinds of tables, or the section whose tables they are
Read(kind, c, e) ==
    IF kind = "executor" THEN ExecutorEntry(c, e)
    ELSE IF kind = "server table" THEN ServerEntry(c, e)
    ELSE SectionEntry(kind, c, e)

\* What holds of a result: a failure leaves the maps as they should be.
IsGood(kind, r) ==
    IF kind = "executor" THEN Succeeded(r) => r.value \in Executors
    ELSE IF kind = "server table" THEN Succeeded(r) => IsServer(r.value)
    ELSE AreConfigs(r.value)

ReadNext(kind, r, e) == IF Succeeded(r) THEN Read(kind, r.value, e) ELSE r

\* The results after each of the first n entries
Results(kind, table, first, n, p) ==
    p = [i \in 0..n |-> IF i = 0 THEN first ELSE ReadNext(kind, p[i - 1], table[i])]

\* EachEntry() is defined.
LEMMA EntriesEnd ==
    ASSUME NEW kind, NEW table, NEW first
    PROVE  \A n \in Nat : \E p : Results(kind, table, first, n, p)
<1> DEFINE S == {n \in Nat : \E p : Results(kind, table, first, n, p)}
<1>1. 0 \in S
  <2> DEFINE p == [i \in 0..0 |-> first]
  <2>1. p = [i \in 0..0 |-> IF i = 0 THEN first ELSE ReadNext(kind, p[i - 1], table[i])]
      OBVIOUS
  <2>2. QED
      BY <2>1 DEF Results
<1>2. ASSUME NEW n \in S PROVE n + 1 \in S
  <2>1. PICK p : Results(kind, table, first, n, p)
      OBVIOUS
  <2> DEFINE x == ReadNext(kind, p[n], table[n + 1])
             q == [i \in 0..(n + 1) |-> IF i = n + 1 THEN x ELSE p[i]]
             Law(i) == IF i = 0 THEN first ELSE ReadNext(kind, q[i - 1], table[i])
  <2>2. ASSUME NEW i \in 0..(n + 1) PROVE q[i] = Law(i)
    <3>1. CASE i = n + 1
      <4>1. q[i] = x /\ q[i - 1] = p[n] /\ i # 0
          BY <3>1
      <4> HIDE DEF q
      <4>2. QED
          BY <3>1, <4>1
    <3>2. CASE i # n + 1
      <4>1. i \in 0..n /\ q[i] = p[i] /\ (i # 0 => q[i - 1] = p[i - 1])
          BY <3>2
      <4>2. p[i] = IF i = 0 THEN first ELSE ReadNext(kind, p[i - 1], table[i])
          BY <2>1, <4>1 DEF Results
      <4> HIDE DEF q
      <4>3. QED
          BY <4>1, <4>2
    <3>3. QED
        BY <3>1, <3>2
  <2>3. q = [i \in 0..(n + 1) |-> Law(i)]
    <3> DEFINE D == 0..(n + 1)
    <3>1. q = [i \in D |-> q[i]]
        OBVIOUS
    <3> HIDE DEF Law, q
    <3>2. QED
        BY <2>2, <3>1
  <2>4. Results(kind, table, first, n + 1, q)
    <3> HIDE DEF q
    <3>1. QED
        BY <2>3 DEF Results
  <2>5. QED
      BY <2>4
<1>3. S \in SUBSET Nat
    OBVIOUS
<1> HIDE DEF S
<1>4. S = Nat
    BY <1>1, <1>2, <1>3, SetInduction
<1>5. QED
    BY <1>4 DEF S

\* What holds at first and after each entry holds at the end.
LEMMA EntriesKeep ==
    ASSUME NEW kind, NEW table, NEW first, NEW p,
           Len(table) \in Nat,
           Results(kind, table, first, Len(table), p),
           IsGood(kind, first),
           \A r : \A i \in 1..Len(table) :
              IsGood(kind, r) => IsGood(kind, ReadNext(kind, r, table[i]))
    PROVE  IsGood(kind, p[Len(table)])
<1> DEFINE N == Len(table)
           S == {n \in Nat : n =< N => IsGood(kind, p[n])}
<1>1. 0 \in S
    BY DEF Results
<1>2. ASSUME NEW n \in S PROVE n + 1 \in S
  <2>1. SUFFICES ASSUME n + 1 =< N PROVE IsGood(kind, p[n + 1])
      OBVIOUS
  <2>2. IsGood(kind, p[n])
      BY <2>1
  <2>3. p[n + 1] = ReadNext(kind, p[n], table[n + 1])
      BY <2>1 DEF Results
  <2>4. QED
      BY <2>1, <2>2, <2>3
<1>3. S \in SUBSET Nat
    OBVIOUS
<1> HIDE DEF S
<1>4. S = Nat
    BY <1>1, <1>2, <1>3, SetInduction
<1>5. QED
    BY <1>4 DEF S

-----------------------------------------------------------------------------
(* Configurations of servers ask for at least one thread of either type,   *)
(* and for no more than the bound.                                         *)

\* A table of an executor
Counts(table) ==
    /\ Len(table) \in Nat
    /\ \A i \in 1..Len(table) :
          table[i].value.type = "size" => table[i].value.v \in 0..MaxThreads

LEMMA ExecutorEntryIsGood ==
    ASSUME NEW c \in Executors, NEW e,
           e.value.type = "size" => e.value.v \in 0..MaxThreads
    PROVE  IsGood("executor", ExecutorEntry(c, e))
<1>1. CASE e.key \notin DOMAIN ExecutorLeast
    BY <1>1 DEF ExecutorEntry, Skip, Returns, IsGood
<1>2. CASE e.key \in DOMAIN ExecutorLeast /\ e.value.type = "size"
  <2>1. /\ DOMAIN ExecutorLeast = {"num_transport_threads", "num_callback_threads"}
        /\ \A k \in DOMAIN ExecutorLeast : ExecutorLeast[k] = 1
      BY DEF ExecutorLeast
  <2>2. e.value.v \in Int
      BY <1>2
  <2>3. CASE e.value.v < 1
    <3>1. ExecutorEntry(c, e) = Throws("INVALID_ARGUMENT")
        BY <1>2, <2>1, <2>3 DEF ExecutorEntry, SetSize, SetAtLeast
    <3>2. QED
        BY <3>1 DEF IsGood, Throws, Succeeded, Failures, StatusCodes
  <2>4. CASE ~(e.value.v < 1)
    <3>1. ExecutorEntry(c, e) = Returns([c EXCEPT ![e.key] = e.value.v])
        BY <1>2, <2>1, <2>4 DEF ExecutorEntry, SetSize, SetAtLeast, Stored
    <3>2. e.value.v \in 1..MaxThreads
        BY <1>2, <2>2, <2>4
    <3>3. [c EXCEPT ![e.key] = e.value.v] \in Executors
        BY <1>2, <2>1, <3>2 DEF Executors
    <3>4. QED
        BY <3>1, <3>3 DEF IsGood, Returns
  <2>5. QED
      BY <2>3, <2>4
<1>3. CASE e.key \in DOMAIN ExecutorLeast /\ e.value.type # "size"
    BY <1>3 DEF ExecutorEntry, SetSize, IsGood, Throws, Succeeded, Failures, StatusCodes
<1>4. QED
    BY <1>1, <1>2, <1>3

LEMMA ExecutorIsGood ==
    ASSUME NEW table, NEW c \in Executors, Counts(table)
    PROVE  IsGood("executor", ParseExecutor(table, c))
<1> DEFINE Law(p) ==
              p = [i \in 0..Len(table) |->
                      IF i = 0 THEN Returns(c)
                      ELSE LET r == p[i - 1]
                           IN IF Succeeded(r) THEN ExecutorEntry(r.value, table[i]) ELSE r]
<1>1. \A p : Law(p) <=> Results("executor", table, Returns(c), Len(table), p)
    BY DEF Results, ReadNext, Read
<1>2. PICK p : p = CHOOSE q : Law(q)
    OBVIOUS
<1>3. ParseExecutor(table, c) = p[Len(table)]
    BY <1>2 DEF ParseExecutor, EachEntry
<1> HIDE DEF Law
<1>4. Results("executor", table, Returns(c), Len(table), p)
  <2>1. \E q : Law(q)
      BY <1>1, EntriesEnd DEF Counts
  <2>2. Law(p)
      BY <1>2, <2>1
  <2>3. QED
      BY <1>1, <2>2
<1>5. IsGood("executor", Returns(c))
    BY DEF IsGood, Returns
<1>6. ASSUME NEW r, NEW i \in 1..Len(table), IsGood("executor", r)
      PROVE  IsGood("executor", ReadNext("executor", r, table[i]))
  <2>1. CASE Succeeded(r)
    <3>1. r.value \in Executors
        BY <1>6, <2>1 DEF IsGood
    <3>2. IsGood("executor", ExecutorEntry(r.value, table[i]))
        BY <3>1, ExecutorEntryIsGood DEF Counts
    <3>3. QED
        BY <2>1, <3>2 DEF ReadNext, Read
  <2>2. CASE ~Succeeded(r)
      BY <1>6, <2>2 DEF ReadNext
  <2>3. QED
      BY <2>1, <2>2
<1>7. Len(table) \in Nat
    BY DEF Counts
<1>8. QED
    BY <1>3, <1>4, <1>5, <1>6, <1>7, EntriesKeep

\* An entry of the table of a server
IsServerEntry(e) ==
    /\ IsList(e.value) => Len(e.value.v) \in Nat /\ DOMAIN e.value.v = 1..Len(e.value.v)
    /\ e.key = "executor" /\ e.value.type = "table" => Counts(e.value.v)

\* A member of the configuration, that is not the list of URIs, is replaced.
LEMMA StoredIsGood ==
    ASSUME NEW c, IsServer(c), NEW v,
           NEW k \in {"uris", "message_parser", "executor"},
           k = "executor" => v \in Executors,
           k = "uris" => \E S : v \in Seq(S)
    PROVE  IsGood("server table", Stored(c, k, v))
<1> DEFINE d == [c EXCEPT ![k] = v]
<1>1. /\ DOMAIN d = {"uris", "message_parser", "executor"}
      /\ d = [j \in DOMAIN d |-> d[j]]
      /\ \A j \in DOMAIN d : d[j] = IF j = k THEN v ELSE c[j]
    BY DEF IsServer
<1> HIDE DEF d
<1>2. IsServer(d)
    BY <1>1 DEF IsServer
<1>3. Stored(c, k, v).value = d
    BY DEF Stored, Returns, d
<1>4. QED
    BY <1>2, <1>3 DEF IsGood

LEMMA ServerEntryIsGood ==
    ASSUME NEW c, IsServer(c), NEW e, IsServerEntry(e)
    PROVE  IsGood("server table", ServerEntry(c, e))
<1>0. \A r : ~Succeeded(r) => IsGood("server table", r)
    BY DEF IsGood
<1>1. IsGood("server table", Throws("INVALID_ARGUMENT"))
  <2>1. ~Succeeded(Throws("INVALID_ARGUMENT"))
      BY DEF Throws, Succeeded, Failures, StatusCodes
  <2>2. QED
      BY <1>0, <2>1
<1>2. CASE e.key = "uris"
  <2> DEFINE texts == e.value.v
             added == [i \in DOMAIN texts |-> Parse(texts[i].v).value]
  <2>1. ASSUME e.value.type = "array" PROVE \E S : c.uris \o added \in Seq(S)
    <3>1. PICK S : c.uris \in Seq(S)
        BY DEF IsServer
    <3>2. Len(texts) \in Nat
        BY <2>1 DEF IsServerEntry, IsList
    <3> DEFINE T == {added[i] : i \in DOMAIN texts}
    <3>3. DOMAIN texts = 1..Len(texts)
        BY <2>1 DEF IsServerEntry, IsList
    <3>4. added \in [1..Len(texts) -> T]
        BY <3>3
    <3> HIDE DEF added, T
    <3>5. added \in Seq(S \cup T)
        BY <3>2, <3>4
    <3>6. c.uris \in Seq(S \cup T)
        BY <3>1
    <3>7. c.uris \o added \in Seq(S \cup T)
        BY <3>5, <3>6
    <3>8. QED
        BY <3>7
  <2>2. CASE ServerEntry(c, e) = Throws("INVALID_ARGUMENT")
      BY <1>1, <2>2
  <2>3. CASE e.value.type = "array" /\ ServerEntry(c, e) = Stored(c, "uris", c.uris \o added)
    <3> HIDE DEF added
    <3>1. QED
        BY <2>1, <2>3, StoredIsGood
  <2>4. QED
      BY <1>2, <2>2, <2>3 DEF ServerEntry, ParseURIs
<1>3. CASE e.key = "message_parser"
  <2> DEFINE r == ParseMessageParser(e.value.v, c[e.key])
  <2>1. ServerEntry(c, e) =
            IF e.value.type # "table" THEN Throws("INVALID_ARGUMENT")
            ELSE IF Succeeded(r) THEN Stored(c, e.key, r.value) ELSE r
      BY <1>3 DEF ServerEntry, Nested
  <2> HIDE DEF r
  <2>2. IsGood("server table", Stored(c, e.key, r.value))
      BY <1>3, StoredIsGood
  <2>3. QED
      BY <1>0, <1>1, <2>1, <2>2
<1>4. CASE e.key = "executor"
  <2> DEFINE r == ParseExecutor(e.value.v, c[e.key])
  <2>1. ServerEntry(c, e) =
            IF e.value.type # "table" THEN Throws("INVALID_ARGUMENT")
            ELSE IF Succeeded(r) THEN Stored(c, e.key, r.value) ELSE r
      BY <1>4 DEF ServerEntry, Nested
  <2> HIDE DEF r
  <2>2. CASE e.value.type # "table"
      BY <1>1, <2>1, <2>2
  <2>3. CASE e.value.type = "table" /\ ~Succeeded(r)
      BY <1>0, <2>1, <2>3
  <2>4. CASE e.value.type = "table" /\ Succeeded(r)
    <3>1. Counts(e.value.v) /\ c[e.key] \in Executors
        BY <1>4, <2>4 DEF IsServerEntry, IsServer
    <3>2. r.value \in Executors
        BY <2>4, <3>1, ExecutorIsGood DEF IsGood, r
    <3>3. IsGood("server table", Stored(c, e.key, r.value))
        BY <1>4, <3>2, StoredIsGood
    <3>4. QED
        BY <2>1, <2>4, <3>3
  <2>5. QED
      BY <2>2, <2>3, <2>4
<1>5. CASE e.key \notin {"uris", "message_parser", "executor"}
    BY <1>5 DEF ServerEntry, Skip, Returns, IsGood
<1>6. QED
    BY <1>2, <1>3, <1>4, <1>5

\* A table of a server
IsServerTable(table) ==
    /\ Len(table) \in Nat
    /\ \A i \in 1..Len(table) : IsServerEntry(table[i])

LEMMA ServerIsGood ==
    ASSUME NEW table, NEW c, IsServer(c), IsServerTable(table)
    PROVE  IsGood("server table", ParseServer(table, c))
<1> DEFINE Law(p) ==
              p = [i \in 0..Len(table) |->
                      IF i = 0 THEN Returns(c)
                      ELSE LET r == p[i - 1]
                           IN IF Succeeded(r) THEN ServerEntry(r.value, table[i]) ELSE r]
<1>1. \A p : Law(p) <=> Results("server table", table, Returns(c), Len(table), p)
    BY DEF Results, ReadNext, Read
<1>2. PICK p : p = CHOOSE q : Law(q)
    OBVIOUS
<1>3. ParseServer(table, c) = p[Len(table)]
    BY <1>2 DEF ParseServer, EachEntry
<1> HIDE DEF Law
<1>4. Results("server table", table, Returns(c), Len(table), p)
  <2>1. \E q : Law(q)
      BY <1>1, EntriesEnd DEF IsServerTable
  <2>2. Law(p)
      BY <1>2, <2>1
  <2>3. QED
      BY <1>1, <2>2
<1>5. IsGood("server table", Returns(c))
    BY DEF IsGood, Returns
<1>6. ASSUME NEW r, NEW i \in 1..Len(table), IsGood("server table", r)
      PROVE  IsGood("server table", ReadNext("server table", r, table[i]))
  <2>1. CASE Succeeded(r)
    <3>1. IsServer(r.value)
        BY <1>6, <2>1 DEF IsGood
    <3>2. IsGood("server table", ServerEntry(r.value, table[i]))
        BY <3>1, ServerEntryIsGood DEF IsServerTable
    <3>3. QED
        BY <2>1, <3>2 DEF ReadNext, Read
  <2>2. CASE ~Succeeded(r)
      BY <1>6, <2>2 DEF ReadNext
  <2>3. QED
      BY <2>1, <2>2
<1>7. Len(table) \in Nat
    BY DEF IsServerTable
<1>8. QED
    BY <1>3, <1>4, <1>5, <1>6, <1>7, EntriesKeep

LEMMA DefaultIsGood == IsServer(ServerConfig)
<1>1. ExecutorConfig \in Executors
    BY ThreadsAssumption DEF ExecutorConfig, Executors
<1>2. ServerConfig.uris \in Seq({})
    BY DEF ServerConfig
<1>3. QED
    BY <1>1, <1>2 DEF ServerConfig, IsServer

SectionNames == {"logging", "client", "server"}

\* A section of a file
IsSection(section, node) ==
    /\ node.type = "table" => Len(node.v) \in Nat
    /\ section = "server" /\ node.type = "table" =>
          \A i \in 1..Len(node.v) :
             node.v[i].value.type = "table" => IsServerTable(node.v[i].value.v)

LEMMA SectionEntryIsGood ==
    ASSUME NEW section \in SectionNames, NEW c, AreConfigs(c), NEW e,
           section = "server" /\ e.value.type = "table" => IsServerTable(e.value.v)
    PROVE  AreConfigs(SectionEntry(section, c, e).value)
<1> DEFINE r == ParseOne(section, e.value.v)
           stored == try_emplace(c[section], e.key, r.value)
           d == [c EXCEPT ![section] = stored]
<1>1. CASE e.value.type # "table" \/ ~Succeeded(r)
    BY <1>1 DEF SectionEntry, Left
<1>2. CASE e.value.type = "table" /\ Succeeded(r)
  <2>1. SectionEntry(section, c, e).value = d
      BY <1>2 DEF SectionEntry, Returns
  <2>2. /\ DOMAIN d = SectionNames
        /\ d = [k \in DOMAIN d |-> d[k]]
        /\ \A k \in SectionNames : d[k] = IF k = section THEN stored ELSE c[k]
    <3> HIDE DEF stored
    <3>1. QED
        BY DEF AreConfigs, SectionNames
  <2>3. ASSUME section = "server", NEW n \in DOMAIN stored PROVE IsServer(stored[n])
    <3>1. r = ParseServer(e.value.v, ServerConfig)
        BY <2>3 DEF ParseOne, Default
    <3>2. IsServer(r.value)
        BY <1>2, <2>3, <3>1, DefaultIsGood, ServerIsGood DEF IsGood
    <3>3. stored[n] = r.value \/ (n \in DOMAIN c["server"] /\ stored[n] = c["server"][n])
      <4> HIDE DEF r
      <4>1. QED
          BY <2>3 DEF try_emplace
    <3>4. QED
        BY <3>2, <3>3 DEF AreConfigs
  <2> HIDE DEF d, stored
  <2>4. AreConfigs(d)
      BY <2>2, <2>3 DEF AreConfigs, SectionNames
  <2>5. QED
      BY <2>1, <2>4
<1>3. QED
    BY <1>1, <1>2

LEMMA SectionIsGood ==
    ASSUME NEW section \in SectionNames, NEW c, AreConfigs(c), NEW node,
           IsSection(section, node)
    PROVE  AreConfigs(ParseSection(c, section, node).value)
<1>1. CASE node.type = "absent"
    BY <1>1 DEF ParseSection, Returns
<1>2. CASE node.type \notin {"absent", "table"}
    BY <1>2 DEF ParseSection, Left
<1>3. CASE node.type = "table"
  <2> DEFINE table == node.v
             Law(p) ==
                p = [i \in 0..Len(table) |->
                        IF i = 0 THEN Returns(c)
                        ELSE LET r == p[i - 1]
                             IN IF Succeeded(r) THEN SectionEntry(section, r.value, table[i])
                                ELSE r]
  <2>1. \A p : Law(p) <=> Results(section, table, Returns(c), Len(table), p)
      BY DEF Results, ReadNext, Read, SectionNames
  <2>2. PICK p : p = CHOOSE q : Law(q)
      OBVIOUS
  <2>3. ParseSection(c, section, node) = p[Len(table)]
      BY <1>3, <2>2 DEF ParseSection, EachEntry
  <2>4. Len(table) \in Nat
      BY <1>3 DEF IsSection
  <2> HIDE DEF Law
  <2>5. Results(section, table, Returns(c), Len(table), p)
    <3>1. \E q : Law(q)
        BY <2>1, <2>4, EntriesEnd
    <3>2. Law(p)
        BY <2>2, <3>1
    <3>3. QED
        BY <2>1, <3>2
  <2>6. \A r : IsGood(section, r) <=> AreConfigs(r.value)
      BY DEF IsGood, SectionNames
  <2>7. IsGood(section, Returns(c))
      BY <2>6 DEF Returns
  <2>8. ASSUME NEW r, NEW i \in 1..Len(table), IsGood(section, r)
        PROVE  IsGood(section, ReadNext(section, r, table[i]))
    <3>1. CASE Succeeded(r)
      <4>1. AreConfigs(r.value)
          BY <2>6, <2>8
      <4>2. section = "server" /\ table[i].value.type = "table"
               => IsServerTable(table[i].value.v)
          BY <1>3 DEF IsSection
      <4>3. AreConfigs(SectionEntry(section, r.value, table[i]).value)
          BY <4>1, <4>2, SectionEntryIsGood
      <4>4. ReadNext(section, r, table[i]) = SectionEntry(section, r.value, table[i])
          BY <3>1 DEF ReadNext, Read, SectionNames
      <4>5. QED
          BY <2>6, <4>3, <4>4
    <3>2. CASE ~Succeeded(r)
        BY <2>8, <3>2 DEF ReadNext
    <3>3. QED
        BY <3>1, <3>2
  <2>9. IsGood(section, p[Len(table)])
      BY <2>4, <2>5, <2>7, <2>8, EntriesKeep
  <2>10. QED
      BY <2>3, <2>6, <2>9
<1>4. QED
    BY <1>1, <1>2, <1>3

\* The file holds sections of this kind.
LEMMA FilesHoldSections ==
    ASSUME NEW file \in TomlFiles, file.type = "toml", NEW section \in SectionNames
    PROVE  IsSection(section, file.v[section])
<1>1. DOMAIN NoConfigs = SectionNames
    BY DEF NoConfigs, Sections, SectionNames
<1> DEFINE node == file.v[section]
           IsFinite(n) == IsList(n) => Len(n.v) \in Nat /\ DOMAIN n.v = 1..Len(n.v)
<1>2. IsFinite(node)
    BY <1>1, FilesAssumption DEF WellFormed
<1>3. ASSUME section = "server", node.type = "table", NEW i \in 1..Len(node.v),
             node.v[i].value.type = "table"
      PROVE  IsServerTable(node.v[i].value.v)
  <2> DEFINE config == node.v[i]
  <2>1. config \in Items(file.v["server"])
      BY <1>3 DEF Items, IsList
  <2>2. /\ IsFinite(config.value)
        /\ \A e \in Items(config.value) :
              /\ IsFinite(e.value)
              /\ e.key = "executor" =>
                    \A f \in Items(e.value) :
                       f.value.type = "size" => f.value.v \in 0..MaxThreads
      BY <2>1, FilesAssumption DEF WellFormed
  <2>3. ASSUME NEW j \in 1..Len(config.value.v) PROVE IsServerEntry(config.value.v[j])
    <3> DEFINE e == config.value.v[j]
    <3>1. e \in Items(config.value)
        BY <1>3, <2>3 DEF Items, IsList
    <3>2. IsFinite(e.value)
        BY <2>2, <3>1
    <3>3. ASSUME e.key = "executor", e.value.type = "table" PROVE Counts(e.value.v)
      <4>1. \A k \in 1..Len(e.value.v) : e.value.v[k] \in Items(e.value)
          BY <3>3 DEF Items, IsList
      <4>2. QED
          BY <2>2, <3>1, <3>2, <3>3, <4>1 DEF Counts, IsList
    <3>4. QED
        BY <3>2, <3>3 DEF IsServerEntry
  <2>4. QED
      BY <1>3, <2>2, <2>3 DEF IsServerTable, IsList
<1>4. QED
    BY <1>2, <1>3 DEF IsSection, IsList

LEMMA FileIsGood ==
    ASSUME NEW file \in TomlFiles, NEW c, AreConfigs(c)
    PROVE  AreConfigs(parse_toml(file, c).value)
<1>1. CASE file.type # "toml"
    BY <1>1 DEF parse_toml, Left
<1>2. CASE file.type = "toml"
  <2> DEFINE Next1(r, section) ==
                IF Succeeded(r) THEN ParseSection(r.value, section, file.v[section]) ELSE r
             r0 == Returns(c)
             r1 == Next1(r0, "logging")
             r2 == Next1(r1, "client")
             r3 == Next1(r2, "server")
             Step(p, i) == IF i = 0 THEN r0 ELSE Next1(p[i - 1], Sections[i])
             Law(p) == p = [i \in 0..3 |-> Step(p, i)]
             w == [i \in 0..3 |-> IF i = 0 THEN r0 ELSE IF i = 1 THEN r1
                                  ELSE IF i = 2 THEN r2 ELSE r3]
  <2>0. Sections[1] = "logging" /\ Sections[2] = "client" /\ Sections[3] = "server"
        /\ Len(Sections) = 3
      BY DEF Sections
  <2>1. PICK p : p = CHOOSE q : Law(q)
      OBVIOUS
  <2>2. parse_toml(file, c) = p[3]
      BY <1>2, <2>0, <2>1 DEF parse_toml, EachEntry
  <2>3. Law(w)
    <3>1. w[0] = r0 /\ w[1] = r1 /\ w[2] = r2 /\ w[3] = r3 /\ w = [i \in 0..3 |-> w[i]]
        OBVIOUS
    <3> HIDE DEF Next1, w
    <3>2. \A i \in 0..3 : w[i] = Step(w, i)
        BY <2>0, <3>1
    <3> HIDE DEF Step
    <3>3. QED
        BY <3>1, <3>2
  <2>4. Law(p)
    <3> HIDE DEF Law
    <3>1. QED
        BY <2>1, <2>3
  <2>5. ASSUME NEW r, AreConfigs(r.value), NEW section \in SectionNames
        PROVE  AreConfigs(Next1(r, section).value)
      BY <1>2, <2>5, FilesHoldSections, SectionIsGood
  <2>6. AreConfigs(r0.value)
      BY DEF Returns
  <2>7. p[0] = r0 /\ p[1] = Next1(p[0], "logging") /\ p[2] = Next1(p[1], "client")
        /\ p[3] = Next1(p[2], "server")
    <3> HIDE DEF Next1
    <3>1. QED
        BY <2>0, <2>4
  <2> HIDE DEF Next1
  <2>8. AreConfigs(p[1].value)
      BY <2>5, <2>6, <2>7 DEF SectionNames
  <2>9. AreConfigs(p[2].value)
      BY <2>5, <2>7, <2>8 DEF SectionNames
  <2>10. AreConfigs(p[3].value)
      BY <2>5, <2>7, <2>9 DEF SectionNames
  <2>11. QED
      BY <2>2, <2>10
<1>3. QED
    BY <1>1, <1>2

-----------------------------------------------------------------------------
(* The contexts and the threads of the executor.                           *)

Owners ==
    {"configuring", "building", "failed", "starting", "unwinding", "running", "waiting",
     "woken", "stopping", "joining", "ended", "rethrown"}

\* The executor has its contexts.
Alive ==
    {"building", "starting", "unwinding", "running", "waiting", "woken", "stopping",
     "joining"}

Ended == {"none", "finished"}

\* Threads run in contexts there are, from the start of the executor to the end.
ThreadsInv ==
    /\ size \in [Types -> 0..MaxThreads]
    /\ thread = [x \in AllContexts |-> thread[x]]
    /\ owner \in Owners
    /\ owner \in Alive => \A t \in Types : size[t] > 0
    /\ owner \notin Alive => \A x \in AllContexts : thread[x] \in Ended
    /\ owner \in {"configuring", "building"} => \A x \in AllContexts : thread[x] = "none"
    /\ \A x \in AllContexts : x \in Contexts \/ thread[x] \in Ended

\* What the application has before there is a server.
BuildingInv ==
    /\ AreConfigs(configs)
    /\ \E S : uris \in Seq(S)
    /\ owner \in {"configuring", "building"} => index \in [Types -> Nat]

LifeInv == ThreadsInv /\ BuildingInv

\* What the handlers of threads and the peers do to this.
OnlyThreads(x) ==
    /\ UNCHANGED <<size, configs, uris, owner>>
    /\ \/ UNCHANGED <<thread, index>>
       \/ UNCHANGED thread /\ thread[x] = "running"
       \/ thread[x] \notin Ended /\ \E s : thread' = [thread EXCEPT ![x] = s]

\* The end of an operation of a connection.
LEMMA OperationsMove ==
    ASSUME NEW x \in AllContexts, NEW c, NEW fn,
           OperationEnds(x, c, fn) \/ OperationThrows(x, c, fn)
    PROVE  OnlyThreads(x)
<1> USE DEF application, building
<1>1. CASE OperationEnds(x, c, fn)
    BY <1>1 DEF OperationEnds, Untouched, OnlyThreads
<1>2. CASE OperationThrows(x, c, fn)
    BY <1>2 DEF OperationThrows, Run, MayRun, Thrown, Untouched, OnlyThreads, Ended
<1>3. QED
    BY <1>1, <1>2

LEMMA ThreadsMove ==
    ASSUME NEW x \in AllContexts, ThreadStep(x)
    PROVE  OnlyThreads(x)
<1> USE DEF application, building
<1>1. CASE \E a \in AcceptorIndices : AcceptorStep(x, a)
  <2>1. PICK a \in AcceptorIndices : AcceptorStep(x, a)
      BY <1>1
  <2>2. CASE RunAcceptNext(x, a)
      BY <2>2 DEF RunAcceptNext, Run, MayRun, OnlyThreads
  <2>3. CASE OnAcceptAborted(x, a)
      BY <2>3 DEF OnAcceptAborted, OnlyThreads, serverVars
  <2>4. CASE OnAcceptThrows(x, a)
      BY <2>4 DEF OnAcceptThrows, Run, MayRun, Thrown, OnlyThreads, serverVars, Ended
  <2>5. CASE \E c \in AllConnections : OnAccept(x, a, c)
      BY <2>5 DEF OnAccept, Run, MayRun, OnlyThreads
  <2>6. CASE StopInThread(x, a)
      BY <2>6 DEF StopInThread, Cancelled, OnlyThreads
  <2>7. QED
      BY <2>1, <2>2, <2>3, <2>4, <2>5, <2>6 DEF AcceptorStep
<1>2. CASE \E c \in AllConnections : ConnectionStep(x, c)
  <2>1. PICK c \in AllConnections : ConnectionStep(x, c)
      BY <1>2
  <2>2. CASE RunReadNext(x, c)
      BY <2>2 DEF RunReadNext, Untouched, OnlyThreads
  <2>3. CASE OnMessage(x, c)
      BY <2>3 DEF OnMessage, Run, MayRun, Untouched, OnlyThreads
  <2>4. CASE OnReadEnds(x, c)
    <3>1. PICK fn : OperationEnds(x, c, fn) \/ OperationThrows(x, c, fn)
        BY <2>4 DEF OnReadEnds
    <3>2. QED
        BY <3>1, OperationsMove
  <2>5. CASE OnSentEnds(x, c)
    <3>1. PICK fn : OperationEnds(x, c, fn) \/ OperationThrows(x, c, fn)
        BY <2>5 DEF OnSentEnds
    <3>2. QED
        BY <3>1, OperationsMove
  <2>6. CASE CloseInThread(x, c)
    <3>1. UNCHANGED <<size, configs, uris, owner, index>> /\ thread[x] = "running"
        BY <2>6 DEF CloseInThread, Run, MayRun, Untouched
    <3>2. thread' = thread \/ thread' = Thrown(x)
        BY <2>6 DEF CloseInThread
    <3>3. QED
        BY <3>1, <3>2 DEF OnlyThreads, Thrown, Ended
  <2>7. CASE RunRequest(x, c) \/ RunSend(x, c) \/ OnSent(x, c)
      BY <2>7 DEF RunRequest, RunSend, OnSent, Untouched, OnlyThreads
  <2>8. QED
      BY <2>1, <2>2, <2>3, <2>4, <2>5, <2>6, <2>7 DEF ConnectionStep
<1>3. CASE LockNext(x) \/ PostClose(x) \/ DropReference(x) \/ EndLoop(x) \/ Destroy(x)
    BY <1>3 DEF LockNext, PostClose, DropReference, EndLoop, Destroy, OnlyThreads,
                executorVars
<1>4. CASE ThreadEnds(x)
  <2>1. CASE Exit(x, HasOperations(x)) /\ UNCHANGED serverVars
      BY <2>1 DEF Exit, OnlyThreads, serverVars, Ended
  <2>2. CASE RecordException(x) /\ UNCHANGED serverVars
      BY <2>2 DEF RecordException, OnlyThreads, serverVars, Ended
  <2>3. CASE interrupt_threads(x) /\ UNCHANGED serverVars
      BY <2>3 DEF interrupt_threads, OnlyThreads, serverVars, Ended
  <2>4. CASE ReportException(x)
      BY <2>4 DEF ReportException, EndThread, OnlyThreads, Ended
  <2>5. QED
      BY <1>4, <2>1, <2>2, <2>3, <2>4 DEF ThreadEnds
<1>5. QED
    BY <1>1, <1>2, <1>3, <1>4 DEF ThreadStep

LEMMA OnlyThreadsKeeps ==
    ASSUME LifeInv, NEW x \in AllContexts, OnlyThreads(x)
    PROVE  LifeInv'
<1> USE DEF LifeInv, ThreadsInv, OnlyThreads
<1>1. Contexts' = Contexts
    BY DEF Contexts
<1>2. AreConfigs(configs)' /\ (\E S : uris \in Seq(S))'
    BY DEF BuildingInv, AreConfigs, IsServer
<1>3. \A y \in AllContexts : thread[y] \in Ended => thread'[y] = thread[y]
    BY DEF Ended
<1>4. thread' = [y \in AllContexts |-> thread'[y]]
    OBVIOUS
<1>5. ThreadsInv'
    BY <1>1, <1>3, <1>4 DEF Ended
<1>6. (owner \in {"configuring", "building"} => index \in [Types -> Nat])'
    BY DEF BuildingInv, Ended
<1>7. QED
    BY <1>2, <1>5, <1>6 DEF BuildingInv

LEMMA FrameKeeps ==
    ASSUME LifeInv, UNCHANGED <<size, thread, configs, uris, owner, index>>
    PROVE  LifeInv'
<1>1. Contexts' = Contexts
    BY DEF Contexts
<1>2. AreConfigs(configs)' /\ (\E S : uris \in Seq(S))'
    BY DEF LifeInv, BuildingInv, AreConfigs, IsServer
<1>3. ThreadsInv'
    BY <1>1 DEF LifeInv, ThreadsInv
<1>4. QED
    BY <1>2, <1>3 DEF LifeInv, BuildingInv

\* The application goes on, with the executor as it is.
LEMMA OwnerKeeps ==
    ASSUME LifeInv, UNCHANGED <<size, thread, configs>>,
           owner \in Alive, owner' \in Alive \ {"building"},
           \E S : uris' \in Seq(S)
    PROVE  LifeInv'
<1>1. Contexts' = Contexts
    BY DEF Contexts
<1>2. AreConfigs(configs)'
    BY DEF LifeInv, BuildingInv, AreConfigs, IsServer
<1>3. ThreadsInv'
    BY <1>1 DEF LifeInv, ThreadsInv, Alive, Owners
<1>4. QED
    BY <1>2, <1>3 DEF LifeInv, BuildingInv, Alive

LEMMA NoConfigsAreConfigs == AreConfigs(NoConfigs)
<1>1. NoConfigs = [s \in SectionNames |-> <<>>]
    BY DEF NoConfigs, Sections, SectionNames
<1>2. QED
    BY <1>1 DEF AreConfigs, SectionNames

LEMMA LifeBegins == ServerInit => LifeInv
<1> SUFFICES ASSUME ServerInit PROVE LifeInv
    OBVIOUS
<1>1. ThreadsInv
  <2>1. size = [t \in Types |-> 0] /\ thread = [x \in AllContexts |-> "none"]
        /\ owner = "configuring"
      BY DEF ServerInit, ExecutorInit, NoContexts
  <2>2. size \in [Types -> 0..MaxThreads]
      BY <2>1, ThreadsAssumption
  <2>3. QED
      BY <2>1, <2>2 DEF ThreadsInv, Owners, Alive, Ended
<1>2. BuildingInv
  <2>1. uris \in Seq({})
      BY DEF ServerInit
  <2>2. QED
      BY <2>1, NoConfigsAreConfigs DEF ServerInit, ExecutorInit, BuildingInv, NoContexts
<1>3. QED
    BY <1>1, <1>2 DEF LifeInv

LEMMA ParsingKeeps ==
    ASSUME LifeInv, NEW file \in TomlFiles, ParseFile(file)
    PROVE  LifeInv'
<1>1. AreConfigs(parse_toml(file, configs).value)
    BY FileIsGood DEF LifeInv, BuildingInv
<1>2. UNCHANGED <<size, thread, uris, owner, index>>
      /\ configs' = parse_toml(file, configs).value
    BY DEF ParseFile, executorVars
<1>3. Contexts' = Contexts
    BY <1>2 DEF Contexts
<1>4. ThreadsInv'
    BY <1>2, <1>3 DEF LifeInv, ThreadsInv
<1>5. AreConfigs(configs)'
    BY <1>1, <1>2 DEF AreConfigs, IsServer
<1>6. (\E S : uris \in Seq(S))'
    BY <1>2 DEF LifeInv, BuildingInv
<1>7. QED
    BY <1>2, <1>4, <1>5, <1>6 DEF LifeInv, BuildingInv

LEMMA CreatingKeeps ==
    ASSUME LifeInv, NEW name, CreateBuilder(name)
    PROVE  LifeInv'
<1> DEFINE r == config_of(configs, "server", name)
           e == r.value.executor
<1>1. /\ owner = "configuring" /\ Succeeded(r) /\ create_executor(e)
      /\ uris' = r.value.uris /\ configs' = NoConfigs /\ owner' = "building"
    BY DEF CreateBuilder
<1>2. IsServer(r.value)
  <2>1. name \in DOMAIN configs["server"] /\ r.value = configs["server"][name]
    <3>1. \/ r = Returns(configs["server"][name]) /\ name \in DOMAIN configs["server"]
          \/ r = Throws("INVALID_ARGUMENT")
        BY DEF config_of
    <3> HIDE DEF r
    <3>2. QED
        BY <1>1, <3>1 DEF Returns, Throws, Succeeded, Failures, StatusCodes
  <2> HIDE DEF r
  <2>2. QED
      BY <2>1 DEF LifeInv, BuildingInv, AreConfigs
<1>3. e \in Executors /\ \E S : r.value.uris \in Seq(S)
    BY <1>2 DEF IsServer
<1> HIDE DEF r
<1>4. /\ size' = [t \in Types |-> IF t = "TRANSPORT" THEN e.num_transport_threads
                                  ELSE e.num_callback_threads]
      /\ UNCHANGED <<thread, index>>
    BY <1>1 DEF create_executor
<1>5. /\ e.num_transport_threads \in 1..MaxThreads
      /\ e.num_callback_threads \in 1..MaxThreads
    BY <1>3 DEF Executors
<1> HIDE DEF e
<1>6. size' \in [Types -> 0..MaxThreads] /\ \A t \in Types : size'[t] > 0
    BY <1>4, <1>5, ThreadsAssumption DEF Types
<1>7. thread' = thread /\ owner = "configuring" /\ index' = index /\ owner' = "building"
    BY <1>1, <1>4
<1>8. \A x \in AllContexts : thread'[x] = "none"
    BY <1>7 DEF LifeInv, ThreadsInv
<1>9. ThreadsInv'
    BY <1>6, <1>7, <1>8 DEF LifeInv, ThreadsInv, Owners, Alive, Ended
<1>10. index' \in [Types -> Nat]
    BY <1>7 DEF LifeInv, BuildingInv
<1>11. AreConfigs(configs)'
  <2>1. configs' = NoConfigs
      BY <1>1
  <2>2. QED
      BY <2>1, NoConfigsAreConfigs DEF AreConfigs, IsServer
<1>12. (\E S : uris \in Seq(S))'
    BY <1>1, <1>3
<1>13. QED
    BY <1>9, <1>10, <1>11, <1>12 DEF LifeInv, BuildingInv

LEMMA ListeningKeeps ==
    ASSUME LifeInv, NEW text, ListenTo(text)
    PROVE  LifeInv'
<1> DEFINE u == Parse(text).value
<1>1. PICK S : uris \in Seq(S)
    BY DEF LifeInv, BuildingInv
<1>2. UNCHANGED <<size, thread, configs, owner, index>> /\ uris' = Append(uris, u)
    BY DEF ListenTo, executorVars
<1> HIDE DEF u
<1>3. uris \in Seq(S \cup {u})
    BY <1>1
<1>4. uris' \in Seq(S \cup {u})
    BY <1>2, <1>3
<1>5. Contexts' = Contexts
    BY <1>2 DEF Contexts
<1>6. ThreadsInv'
    BY <1>2, <1>5 DEF LifeInv, ThreadsInv
<1>7. AreConfigs(configs)'
    BY <1>2 DEF LifeInv, BuildingInv, AreConfigs, IsServer
<1>8. QED
    BY <1>2, <1>4, <1>6, <1>7 DEF LifeInv, BuildingInv

\* The executor is destroyed.
LEMMA ClearingKeeps ==
    ASSUME LifeInv, Clear, UNCHANGED configs, \E S : uris' \in Seq(S),
           \A x \in Contexts : thread[x] \in Ended,
           owner' \in {"failed", "ended", "rethrown"}
    PROVE  LifeInv'
<1>1. size' = [t \in Types |-> 0] /\ thread' = thread
    BY DEF Clear, NoContexts
<1>2. \A x \in AllContexts : thread[x] \in Ended
    BY DEF LifeInv, ThreadsInv
<1>3. size' \in [Types -> 0..MaxThreads]
    BY <1>1, ThreadsAssumption
<1>4. ThreadsInv'
    BY <1>1, <1>2, <1>3 DEF LifeInv, ThreadsInv, Owners, Alive
<1>5. AreConfigs(configs)'
    BY DEF LifeInv, BuildingInv, AreConfigs, IsServer
<1>6. QED
    BY <1>4, <1>5 DEF LifeInv, BuildingInv

LEMMA StartingKeeps ==
    ASSUME LifeInv, NEW x \in AllContexts, ServerThread(x)
    PROVE  LifeInv'
<1>1. /\ owner = "starting" /\ x \in Contexts
      /\ thread' = [thread EXCEPT ![x] = "running"]
      /\ UNCHANGED <<size, index, configs, uris, owner>>
    BY DEF ServerThread, AcceptorsStarted, StartThread, NextThread, serverVars, application,
           building
<1>2. Contexts' = Contexts
    BY <1>1 DEF Contexts
<1>3. thread' = [y \in AllContexts |-> thread'[y]]
    BY <1>1 DEF LifeInv, ThreadsInv
<1>4. \A y \in AllContexts : y \in Contexts' \/ thread'[y] \in Ended
    BY <1>1, <1>2 DEF LifeInv, ThreadsInv
<1>5. ThreadsInv'
    BY <1>1, <1>3, <1>4 DEF LifeInv, ThreadsInv, Alive
<1>6. AreConfigs(configs)' /\ (\E S : uris \in Seq(S))'
    BY <1>1 DEF LifeInv, BuildingInv, AreConfigs, IsServer
<1>7. QED
    BY <1>1, <1>5, <1>6 DEF LifeInv, BuildingInv

\* A build that fails has used some contexts.
LEMMA FailedBuildKeeps ==
    ASSUME LifeInv, BuildThrows
    PROVE  LifeInv'
<1>1. PICK n \in 0..(Len(uris) * (MaxEndpoints + 1)) : index' = IndexAfter("TRANSPORT", n)
    BY DEF BuildThrows
<1>2. UNCHANGED <<size, thread, configs, uris, owner>> /\ owner = "building"
    BY DEF BuildThrows, serverVars, application, building
<1>3. n \in Nat
  <2> DEFINE m == Len(uris) * (MaxEndpoints + 1)
  <2> HIDE DEF m
  <2>1. n \in 0..m
      BY <1>1 DEF m
  <2>2. QED
      BY <2>1
<1>4. index' \in [Types -> Nat]
  <2>1. index \in [Types -> Nat]
      BY <1>2 DEF LifeInv, BuildingInv
  <2>2. (index["TRANSPORT"] + n) % IndexLimit \in Nat
      BY <1>3, <2>1, ThreadsAssumption DEF Types
  <2>3. QED
      BY <1>1, <2>1, <2>2 DEF IndexAfter, Types
<1>5. Contexts' = Contexts
    BY <1>2 DEF Contexts
<1>6. AreConfigs(configs)' /\ (\E S : uris \in Seq(S))'
    BY <1>2 DEF LifeInv, BuildingInv, AreConfigs, IsServer
<1>7. ThreadsInv'
    BY <1>2, <1>5 DEF LifeInv, ThreadsInv
<1>8. QED
    BY <1>4, <1>6, <1>7 DEF LifeInv, BuildingInv

LEMMA LifeInvariant == ServerSpec => []LifeInv
<1>1. ASSUME LifeInv, ServerNext PROVE LifeInv'
  <2> USE <1>1 DEF application, building
  <2>1. CASE Configure
      BY <2>1, ParsingKeeps, CreatingKeeps, ListeningKeeps DEF Configure
  <2>2. CASE \E hasUnixSockets \in BOOLEAN : Build(hasUnixSockets)
    <3>1. /\ owner = "building" /\ owner' = "starting" /\ uris' = <<>>
          /\ UNCHANGED <<size, thread, configs>>
        BY <2>2 DEF Build
    <3>2. uris' \in Seq({})
        BY <3>1
    <3>3. QED
        BY <3>1, <3>2, OwnerKeeps DEF Alive
  <2>3. CASE \E a \in AcceptorIndices : StartAcceptor(a) \/ ProcessingStarted(a)
    <3>1. UNCHANGED <<size, thread, configs, uris, owner, index>>
        BY <2>3 DEF StartAcceptor, ProcessingStarted, executorVars
    <3>2. QED
        BY <3>1, FrameKeeps
  <2>4. CASE \E x \in AllContexts : ServerThread(x)
      BY <2>4, StartingKeeps
  <2>5. CASE Started \/ CallStop \/ CallRunUntilSignal \/ Signal \/ Wake
             \/ ReadLastException \/ StopExecutor \/ ThreadFails
    <3>1. UNCHANGED <<size, thread, configs, uris>>
          /\ owner \in Alive /\ owner' \in Alive \ {"building"}
        BY <2>5 DEF Started, CallStop, CallRunUntilSignal, Signal, Wake, Goto,
                    ReadLastException, StopExecutor, ThreadFails, ResetGuards,
                    AcceptorsStarted, executorVars, Alive
    <3>2. \E S : uris' \in Seq(S)
        BY <3>1 DEF LifeInv, BuildingInv
    <3>3. QED
        BY <3>1, <3>2, OwnerKeeps
  <2>6. CASE \E a \in AcceptorIndices : StopAcceptor(a)
    <3>1. UNCHANGED <<size, thread, configs, uris, owner, index>>
        BY <2>6 DEF StopAcceptor
    <3>2. QED
        BY <3>1, FrameKeeps
  <2>7. CASE ClearExecutor
    <3>1. Clear /\ UNCHANGED <<configs, uris>> /\ Joined
          /\ owner' \in {"failed", "ended", "rethrown"}
        BY <2>7 DEF ClearExecutor
    <3>2. \E S : uris' \in Seq(S)
        BY <3>1 DEF LifeInv, BuildingInv
    <3>3. QED
        BY <3>1, <3>2, ClearingKeeps DEF Joined, Ended
  <2>8. CASE GiveUp
    <3>1. Clear /\ UNCHANGED configs /\ uris' = <<>> /\ owner = "building"
          /\ owner' = "failed"
        BY <2>8 DEF GiveUp
    <3>2. \A x \in Contexts : thread[x] \in Ended
        BY <3>1 DEF LifeInv, ThreadsInv, Contexts, Ended
    <3>3. uris' \in Seq({})
        BY <3>1
    <3>4. QED
        BY <3>1, <3>2, <3>3, ClearingKeeps
  <2>9. CASE Peers \/ Broken
    <3>1. UNCHANGED <<size, thread, configs, uris, owner, index>>
        BY <2>9 DEF Peers, AcceptCompletes, ReadCompletes, WriteCompletes, Resets, Broken,
                    ResetEnds, Completes, executorVars
    <3>2. QED
        BY <3>1, FrameKeeps
  <2>10. CASE \E x \in AllContexts : ThreadStep(x)
      BY <2>10, ThreadsMove, OnlyThreadsKeeps
  <2>11. CASE BuildThrows
      BY <2>11, FailedBuildKeeps
  <2>12. QED
      BY <2>1, <2>2, <2>3, <2>4, <2>5, <2>6, <2>7, <2>8, <2>9, <2>10, <2>11
         DEF ServerNext, Starting, Stopping, Faults, Decisions
<1>2. ASSUME LifeInv, UNCHANGED lifeVars PROVE LifeInv'
  <2>1. UNCHANGED <<size, thread, configs, uris, owner, index>>
      BY <1>2 DEF lifeVars, executorVars, serverVars, application, building
  <2>2. QED
      BY <1>2, <2>1, FrameKeeps
<1>3. QED
    BY <1>1, <1>2, LifeBegins, PTL DEF ServerSpec

\* As long as acceptors are built or a thread of the executor runs, context() of
\* GeneralExecutor has a context of either type: the remainder of
\* get_context_index() is never one by zero, since configurations ask for at least
\* one thread, and contexts go only when every thread is joined.
THEOREM ContextsStay == ServerSpec => []ContextsExist
<1>1. LifeInv => ContextsExist
    BY DEF LifeInv, ThreadsInv, ContextsExist, Alive, Ended
<1>2. QED
    BY <1>1, LifeInvariant, PTL

-----------------------------------------------------------------------------
(* The chain of accepts of an acceptor: what one queue holds of it.        *)

AcceptorHandlers == {"accept_next", "on_accept", "stop"}
AcceptorStates == {"INIT", "STARTING", "PROCESSING", "STOPPED"}

IsOf(h, a) == h.of = a /\ h.fn \in AcceptorHandlers
IsLink(h, a) == h.of = a /\ h.fn \in {"accept_next", "on_accept"}
IsFirst(h, a) == h.of = a /\ h.fn = "accept_next"
IsStop(h, a) == h.of = a /\ h.fn = "stop"
IsAborted(h, a) == h.of = a /\ h.fn = "on_accept" /\ h.result = "aborted"

\* q is the queue of the context of the acceptor s, the one of number a.  The first
\* accept is before any stop: when it is stopped, only an accept that was under
\* way, or is cancelled, has still to be handled.
Chain(q, s, a, failing) ==
    /\ \A i, j \in DOMAIN q : IsLink(q[i], a) /\ IsLink(q[j], a) => i = j
    /\ s.accepting => \A i \in DOMAIN q : ~IsLink(q[i], a)
    /\ \A i, j \in DOMAIN q : IsStop(q[i], a) /\ IsFirst(q[j], a) => j < i
    /\ \A i \in DOMAIN q : IsAborted(q[i], a) => s.state = "STOPPED"
    /\ s.state = "INIT" => ~s.accepting /\ \A i \in DOMAIN q : ~IsOf(q[i], a)
    /\ s.state \in {"STARTING", "PROCESSING"} /\ ~failing =>
          s.accepting \/ \E i \in DOMAIN q : IsLink(q[i], a)
    /\ s.state = "STOPPED" => ~s.accepting /\ \A i \in DOMAIN q : ~IsFirst(q[i], a)

AreQueues(Q) == \E H : Q \in [AllContexts -> Seq(H)]

AreAcceptors(A) ==
    /\ A = [a \in DOMAIN A |-> A[a]]
    /\ \A a \in DOMAIN A :
          /\ a \in Nat
          /\ DOMAIN A[a] = {"context", "state", "accepting", "socket"}
          /\ A[a].context \in AllContexts
          /\ A[a].state \in AcceptorStates
          /\ A[a].accepting \in BOOLEAN

\* The handlers of an acceptor are in the queue of its context.
ArePlaced(Q, A) ==
    \A x \in AllContexts : \A i \in DOMAIN Q[x] :
       Q[x][i].fn \in AcceptorHandlers =>
          Q[x][i].of \in DOMAIN A /\ x = A[Q[x][i].of].context

AreChains(Q, A, failing) ==
    \A a \in DOMAIN A : Chain(Q[A[a].context], A[a], a, failing)

\* The handlers of acceptors A are in their queues, in chains.
Queues(Q, A, f) == AreQueues(Q) /\ ArePlaced(Q, A) /\ AreChains(Q, A, f)

\* The acceptors are all started.
Begun ==
    \/ owner \notin {"configuring", "building", "starting"}
    \/ \E x \in AllContexts : thread[x] # "none"

ChainInv ==
    /\ AreAcceptors(acceptors)
    /\ \A a \in DOMAIN acceptors : acceptors[a].context \in Contexts
    /\ Queues(queue, acceptors, Failing)
    /\ Begun => \A a \in DOMAIN acceptors : acceptors[a].state \in {"PROCESSING", "STOPPED"}
    /\ owner \in {"configuring", "building"} => acceptors = <<>>

\* A queue of handlers grows at its end and shrinks at its head.
LEMMA AppendLaw ==
    ASSUME NEW H, NEW q \in Seq(H), NEW h
    PROVE  /\ Append(q, h) \in Seq(H \cup {h})
           /\ DOMAIN Append(q, h) = 1..(Len(q) + 1)
           /\ DOMAIN q = 1..Len(q)
           /\ \A i \in DOMAIN q : Append(q, h)[i] = q[i]
           /\ Append(q, h)[Len(q) + 1] = h
<1>1. q \in Seq(H \cup {h})
    OBVIOUS
<1>2. QED
    BY <1>1

LEMMA TailLaw ==
    ASSUME NEW H, NEW q \in Seq(H), q # <<>>
    PROVE  /\ Tail(q) \in Seq(H)
           /\ 1 \in DOMAIN q /\ Head(q) = q[1]
           /\ \A i \in DOMAIN Tail(q) :
                 i \in Nat /\ i >= 1 /\ i + 1 \in DOMAIN q /\ Tail(q)[i] = q[i + 1]
           /\ \A i \in DOMAIN q :
                 i \in Nat
                 /\ (i = 1 \/ (i - 1 \in DOMAIN Tail(q) /\ Tail(q)[i - 1] = q[i]))
OBVIOUS

\* Handlers of others come and go.
LEMMA ChainAppended ==
    ASSUME NEW H, NEW q \in Seq(H), NEW h, NEW s, NEW a, NEW f,
           Chain(q, s, a, f), ~IsOf(h, a)
    PROVE  Chain(Append(q, h), s, a, f)
<1> DEFINE r == Append(q, h)
<1>1. /\ \A i \in DOMAIN r : IsOf(r[i], a) => i \in DOMAIN q /\ r[i] = q[i]
      /\ \A i \in DOMAIN q : i \in DOMAIN r /\ r[i] = q[i]
    BY AppendLaw
<1>2. \A g : IsLink(g, a) \/ IsFirst(g, a) \/ IsStop(g, a) \/ IsAborted(g, a) => IsOf(g, a)
    BY DEF IsLink, IsFirst, IsStop, IsAborted, IsOf, AcceptorHandlers
<1> HIDE DEF r
<1>3. QED
    BY <1>1, <1>2 DEF Chain, r

LEMMA ChainTaken ==
    ASSUME NEW H, NEW q \in Seq(H), q # <<>>, NEW s, NEW a, NEW f,
           Chain(q, s, a, f), ~IsOf(Head(q), a)
    PROVE  Chain(Tail(q), s, a, f)
<1> DEFINE r == Tail(q)
<1>1. /\ \A i \in DOMAIN r : i \in Nat /\ i + 1 \in DOMAIN q /\ r[i] = q[i + 1]
      /\ \A i \in DOMAIN q : IsOf(q[i], a) => i - 1 \in DOMAIN r /\ r[i - 1] = q[i]
    BY TailLaw
<1>2. \A g : IsLink(g, a) \/ IsFirst(g, a) \/ IsStop(g, a) \/ IsAborted(g, a) => IsOf(g, a)
    BY DEF IsLink, IsFirst, IsStop, IsAborted, IsOf, AcceptorHandlers
<1> HIDE DEF r
<1>3. /\ \A i, j \in DOMAIN r : IsLink(r[i], a) /\ IsLink(r[j], a) => i = j
      /\ s.accepting => \A i \in DOMAIN r : ~IsLink(r[i], a)
      /\ \A i, j \in DOMAIN r : IsStop(r[i], a) /\ IsFirst(r[j], a) => j < i
  <2>1. ASSUME NEW i \in DOMAIN r, NEW j \in DOMAIN r, IsLink(r[i], a), IsLink(r[j], a)
        PROVE  i = j
    <3>1. i + 1 = j + 1
        BY <1>1, <2>1 DEF Chain
    <3>2. QED
        BY <1>1, <3>1
  <2>2. ASSUME NEW i \in DOMAIN r, NEW j \in DOMAIN r, IsStop(r[i], a), IsFirst(r[j], a)
        PROVE  j < i
    <3>1. j + 1 < i + 1
        BY <1>1, <2>2 DEF Chain
    <3>2. QED
        BY <1>1, <3>1
  <2>3. QED
      BY <1>1, <2>1, <2>2 DEF Chain
<1>4. /\ \A i \in DOMAIN r : IsAborted(r[i], a) => s.state = "STOPPED"
      /\ s.state = "INIT" => ~s.accepting /\ \A i \in DOMAIN r : ~IsOf(r[i], a)
      /\ s.state = "STOPPED" => ~s.accepting /\ \A i \in DOMAIN r : ~IsFirst(r[i], a)
    BY <1>1 DEF Chain
<1>5. (\E i \in DOMAIN q : IsLink(q[i], a)) => \E i \in DOMAIN r : IsLink(r[i], a)
    BY <1>1, <1>2
<1>6. s.state \in {"STARTING", "PROCESSING"} /\ ~f =>
         s.accepting \/ \E i \in DOMAIN r : IsLink(r[i], a)
    BY <1>5 DEF Chain
<1>7. QED
    BY <1>3, <1>4, <1>6 DEF Chain, r

\* A handler that throws may be one of the chain.
LEMMA ChainThrown ==
    ASSUME NEW H, NEW q \in Seq(H), q # <<>>, NEW s, NEW a, NEW f, Chain(q, s, a, f)
    PROVE  Chain(Tail(q), s, a, TRUE)
<1> DEFINE r == Tail(q)
<1>1. \A i \in DOMAIN r : i \in Nat /\ i + 1 \in DOMAIN q /\ r[i] = q[i + 1]
    BY TailLaw
<1> HIDE DEF r
<1>2. ASSUME NEW i \in DOMAIN r, NEW j \in DOMAIN r, IsLink(r[i], a), IsLink(r[j], a)
      PROVE  i = j
  <2>1. i + 1 = j + 1
      BY <1>1, <1>2 DEF Chain
  <2>2. QED
      BY <1>1, <2>1
<1>3. ASSUME NEW i \in DOMAIN r, NEW j \in DOMAIN r, IsStop(r[i], a), IsFirst(r[j], a)
      PROVE  j < i
  <2>1. j + 1 < i + 1
      BY <1>1, <1>3 DEF Chain
  <2>2. QED
      BY <1>1, <2>1
<1>4. /\ s.accepting => \A i \in DOMAIN r : ~IsLink(r[i], a)
      /\ \A i \in DOMAIN r : IsAborted(r[i], a) => s.state = "STOPPED"
      /\ s.state = "INIT" => ~s.accepting /\ \A i \in DOMAIN r : ~IsOf(r[i], a)
      /\ s.state = "STOPPED" => ~s.accepting /\ \A i \in DOMAIN r : ~IsFirst(r[i], a)
    BY <1>1 DEF Chain
<1>5. QED
    BY <1>2, <1>3, <1>4 DEF Chain, r

LEMMA ChainFails ==
    ASSUME NEW q, NEW s, NEW a, NEW f, NEW g, Chain(q, s, a, f), f => g
    PROVE  Chain(q, s, a, g)
BY DEF Chain

\* s and t are the same to the chain.
LEMMA ChainSame ==
    ASSUME NEW q, NEW s, NEW t, NEW a, NEW f, Chain(q, s, a, f),
           t.state = s.state, t.accepting = s.accepting
    PROVE  Chain(q, t, a, f)
BY DEF Chain

-----------------------------------------------------------------------------
(* The links of the chain.                                                 *)

\* Acceptor::start() posts the first accept.
LEMMA ChainBegins ==
    ASSUME NEW H, NEW q \in Seq(H), NEW h, NEW s, NEW t, NEW a, NEW f,
           Chain(q, s, a, f), s.state = "INIT", IsFirst(h, a),
           t.state = "STARTING", t.accepting = s.accepting
    PROVE  Chain(Append(q, h), t, a, f)
<1> DEFINE r == Append(q, h)
           n == Len(q) + 1
<1>1. /\ \A i \in DOMAIN r : i = n \/ (i \in DOMAIN q /\ r[i] = q[i])
      /\ n \in DOMAIN r /\ r[n] = h
    BY AppendLaw
<1> HIDE DEF r, n
<1>2. \A i \in DOMAIN r : i # n => ~IsOf(r[i], a)
    BY <1>1 DEF Chain
<1>3. \A g : IsLink(g, a) \/ IsFirst(g, a) \/ IsStop(g, a) \/ IsAborted(g, a) => IsOf(g, a)
    BY DEF IsLink, IsFirst, IsStop, IsAborted, IsOf, AcceptorHandlers
<1>4. IsLink(h, a) /\ ~IsStop(h, a) /\ ~IsAborted(h, a)
    BY DEF IsLink, IsFirst, IsStop, IsAborted
<1>5. QED
    BY <1>1, <1>2, <1>3, <1>4 DEF Chain, r

\* async_accept_next(), run for the first time or by on_accept()
LEMMA ChainGoesOn ==
    ASSUME NEW H, NEW q \in Seq(H), q # <<>>, NEW s, NEW t, NEW a, NEW f, NEW g,
           Chain(q, s, a, f), IsLink(Head(q), a), s.state = "PROCESSING",
           t.state = s.state, t.accepting = TRUE
    PROVE  Chain(Tail(q), t, a, g)
<1> DEFINE r == Tail(q)
<1>1. /\ 1 \in DOMAIN q /\ q[1] = Head(q)
      /\ \A i \in DOMAIN r : i \in Nat /\ i >= 1 /\ i + 1 \in DOMAIN q /\ r[i] = q[i + 1]
    BY TailLaw
<1> HIDE DEF r
<1>2. \A i \in DOMAIN r : ~IsLink(r[i], a)
  <2> SUFFICES ASSUME NEW i \in DOMAIN r, IsLink(r[i], a) PROVE FALSE
      OBVIOUS
  <2>1. i + 1 = 1
      BY <1>1 DEF Chain
  <2>2. QED
      BY <1>1, <2>1
<1>3. \A h : IsFirst(h, a) \/ IsAborted(h, a) => IsLink(h, a)
    BY DEF IsLink, IsFirst, IsAborted
<1>4. QED
    BY <1>2, <1>3 DEF Chain, r

\* on_accept() of an acceptor that was stopped
LEMMA ChainEnds ==
    ASSUME NEW H, NEW q \in Seq(H), q # <<>>, NEW s, NEW a, NEW f,
           Chain(q, s, a, f), s.state = "STOPPED"
    PROVE  Chain(Tail(q), s, a, f)
<1>1. Chain(Tail(q), s, a, TRUE)
    BY ChainThrown
<1>2. QED
    BY <1>1 DEF Chain

\* Another stop is asked for.
LEMMA ChainToStop ==
    ASSUME NEW H, NEW q \in Seq(H), NEW h, NEW s, NEW a, NEW f,
           Chain(q, s, a, f), IsStop(h, a), s.state # "INIT"
    PROVE  Chain(Append(q, h), s, a, f)
<1> DEFINE r == Append(q, h)
           n == Len(q) + 1
<1>1. /\ \A i \in DOMAIN r : i = n \/ (i \in DOMAIN q /\ r[i] = q[i] /\ i < n)
      /\ n \in DOMAIN r /\ r[n] = h
      /\ \A i \in DOMAIN q : i \in DOMAIN r /\ r[i] = q[i]
    BY AppendLaw
<1> HIDE DEF r, n
<1>2. ~IsLink(h, a) /\ ~IsFirst(h, a) /\ ~IsAborted(h, a)
    BY DEF IsLink, IsFirst, IsStop, IsAborted
<1>3. QED
    BY <1>1, <1>2 DEF Chain, r

\* stop_in_thread()
LEMMA ChainStopped ==
    ASSUME NEW H, NEW q \in Seq(H), q # <<>>, NEW s, NEW t, NEW a, NEW f,
           Chain(q, s, a, f), IsStop(Head(q), a),
           t.state = "STOPPED", t.accepting = FALSE
    PROVE  Chain(Tail(q), t, a, f)
<1> DEFINE r == Tail(q)
<1>1. Chain(r, s, a, TRUE)
    BY ChainThrown
<1>2. /\ 1 \in DOMAIN q /\ q[1] = Head(q)
      /\ \A i \in DOMAIN r : i \in Nat /\ i + 1 \in DOMAIN q /\ r[i] = q[i + 1]
    BY TailLaw
<1> HIDE DEF r
<1>3. \A i \in DOMAIN r : ~IsFirst(r[i], a)
  <2> SUFFICES ASSUME NEW i \in DOMAIN r, IsFirst(r[i], a) PROVE FALSE
      OBVIOUS
  <2>1. i + 1 < 1
      BY <1>2 DEF Chain
  <2>2. QED
      BY <1>2, <2>1
<1>4. QED
    BY <1>1, <1>3 DEF Chain, r

\* An accept is posted to be handled: it was outstanding and no link was queued.
LEMMA ChainPosted ==
    ASSUME NEW H, NEW q \in Seq(H), NEW h, NEW s, NEW t, NEW a, NEW f,
           \A i \in DOMAIN q : ~IsLink(q[i], a), Chain(q, t, a, TRUE),
           IsLink(h, a), ~IsFirst(h, a), t.accepting = FALSE, t.state # "INIT",
           IsAborted(h, a) => t.state = "STOPPED"
    PROVE  Chain(Append(q, h), t, a, f)
<1> DEFINE r == Append(q, h)
           n == Len(q) + 1
<1>1. /\ \A i \in DOMAIN r : i = n \/ (i \in DOMAIN q /\ r[i] = q[i])
      /\ n \in DOMAIN r /\ r[n] = h
    BY AppendLaw
<1> HIDE DEF r, n
<1>2. ~IsStop(h, a)
    BY DEF IsLink, IsStop
<1>3. QED
    BY <1>1, <1>2 DEF Chain, r

-----------------------------------------------------------------------------
(* All queues.                                                             *)

Grown(Q, y, h) == [Q EXCEPT ![y] = Append(@, h)]
Shrunk(Q, x) == [Q EXCEPT ![x] = Tail(@)]

LEMMA GrownQueue ==
    ASSUME NEW Q, AreQueues(Q), NEW y, NEW h, NEW z \in AllContexts
    PROVE  Grown(Q, y, h)[z] = IF z = y THEN Append(Q[z], h) ELSE Q[z]
BY DEF AreQueues, Grown

LEMMA ShrunkQueue ==
    ASSUME NEW Q, AreQueues(Q), NEW x, NEW z \in AllContexts
    PROVE  Shrunk(Q, x)[z] = IF z = x THEN Tail(Q[z]) ELSE Q[z]
BY DEF AreQueues, Shrunk

LEMMA GrownAreQueues ==
    ASSUME NEW Q, AreQueues(Q), NEW y, NEW h
    PROVE  AreQueues(Grown(Q, y, h))
<1>1. PICK H : Q \in [AllContexts -> Seq(H)]
    BY DEF AreQueues
<1> DEFINE R == Grown(Q, y, h)
           G == H \cup {h}
<1>2. ASSUME NEW z \in AllContexts PROVE R[z] \in Seq(G)
  <2>1. Q[z] \in Seq(H) /\ Append(Q[z], h) \in Seq(G)
      BY <1>1, AppendLaw
  <2>2. Q[z] \in Seq(G)
      BY <2>1
  <2>3. R[z] = IF z = y THEN Append(Q[z], h) ELSE Q[z]
      BY GrownQueue
  <2> HIDE DEF R, G
  <2>4. QED
      BY <2>1, <2>2, <2>3
<1>3. R = [z \in AllContexts |-> R[z]]
    BY <1>1 DEF Grown
<1> HIDE DEF R, G
<1>4. R \in [AllContexts -> Seq(G)]
    BY <1>2, <1>3
<1>5. QED
    BY <1>4 DEF AreQueues, R

LEMMA ShrunkAreQueues ==
    ASSUME NEW Q, AreQueues(Q), NEW x \in AllContexts, Q[x] # <<>>
    PROVE  AreQueues(Shrunk(Q, x))
<1>1. PICK H : Q \in [AllContexts -> Seq(H)]
    BY DEF AreQueues
<1>2. Tail(Q[x]) \in Seq(H)
    BY <1>1, TailLaw
<1>3. Shrunk(Q, x) \in [AllContexts -> Seq(H)]
    BY <1>1, <1>2 DEF Shrunk
<1>4. QED
    BY <1>3 DEF AreQueues

LEMMA GrownChain ==
    ASSUME NEW Q, AreQueues(Q), NEW y, NEW h, NEW z \in AllContexts,
           NEW s, NEW b, NEW f, Chain(Q[z], s, b, f), ~IsOf(h, b)
    PROVE  Chain(Grown(Q, y, h)[z], s, b, f)
<1>1. PICK H : Q[z] \in Seq(H)
    BY DEF AreQueues
<1>2. Chain(Append(Q[z], h), s, b, f)
    BY <1>1, ChainAppended
<1>3. QED
    BY <1>2, GrownQueue

LEMMA ShrunkChain ==
    ASSUME NEW Q, AreQueues(Q), NEW x \in AllContexts, Q[x] # <<>>, NEW z \in AllContexts,
           NEW s, NEW b, NEW f, Chain(Q[z], s, b, f), ~IsOf(Head(Q[x]), b)
    PROVE  Chain(Shrunk(Q, x)[z], s, b, f)
<1>1. PICK H : Q[z] \in Seq(H)
    BY DEF AreQueues
<1>2. z = x => Chain(Tail(Q[z]), s, b, f)
    BY <1>1, ChainTaken
<1>3. QED
    BY <1>2, ShrunkQueue

LEMMA GrownPlaced ==
    ASSUME NEW Q, AreQueues(Q), NEW A, ArePlaced(Q, A), NEW y, NEW h,
           h.fn \in AcceptorHandlers => h.of \in DOMAIN A /\ y = A[h.of].context
    PROVE  ArePlaced(Grown(Q, y, h), A)
<1> SUFFICES ASSUME NEW z \in AllContexts, NEW i \in DOMAIN Grown(Q, y, h)[z],
                    Grown(Q, y, h)[z][i].fn \in AcceptorHandlers
             PROVE  /\ Grown(Q, y, h)[z][i].of \in DOMAIN A
                    /\ z = A[Grown(Q, y, h)[z][i].of].context
    BY DEF ArePlaced
<1> DEFINE r == Grown(Q, y, h)[z]
<1>1. PICK H : Q[z] \in Seq(H)
    BY DEF AreQueues
<1>2. r = IF z = y THEN Append(Q[z], h) ELSE Q[z]
    BY GrownQueue
<1>3. (i \in DOMAIN Q[z] /\ r[i] = Q[z][i]) \/ (z = y /\ r[i] = h)
  <2> HIDE DEF r
  <2>1. i \in DOMAIN r
      BY DEF r
  <2>2. QED
      BY <1>1, <1>2, <2>1, AppendLaw
<1>4. QED
    BY <1>3 DEF ArePlaced

LEMMA ShrunkPlaced ==
    ASSUME NEW Q, AreQueues(Q), NEW A, ArePlaced(Q, A), NEW x \in AllContexts, Q[x] # <<>>
    PROVE  ArePlaced(Shrunk(Q, x), A)
<1> SUFFICES ASSUME NEW z \in AllContexts, NEW i \in DOMAIN Shrunk(Q, x)[z],
                    Shrunk(Q, x)[z][i].fn \in AcceptorHandlers
             PROVE  /\ Shrunk(Q, x)[z][i].of \in DOMAIN A
                    /\ z = A[Shrunk(Q, x)[z][i].of].context
    BY DEF ArePlaced
<1> DEFINE r == Shrunk(Q, x)[z]
<1>1. PICK H : Q[z] \in Seq(H)
    BY DEF AreQueues
<1>2. r = IF z = x THEN Tail(Q[z]) ELSE Q[z]
    BY ShrunkQueue
<1>3. \E j \in DOMAIN Q[z] : r[i] = Q[z][j]
  <2> HIDE DEF r
  <2>1. i \in DOMAIN r
      BY DEF r
  <2>2. QED
      BY <1>1, <1>2, <2>1, TailLaw
<1>4. QED
    BY <1>3 DEF ArePlaced

LEMMA QueuesGrow ==
    ASSUME NEW Q, NEW A, NEW f, AreAcceptors(A), Queues(Q, A, f), NEW y, NEW h,
           h.fn \notin AcceptorHandlers
    PROVE  Queues(Grown(Q, y, h), A, f)
<1>1. AreQueues(Grown(Q, y, h))
    BY GrownAreQueues DEF Queues
<1>2. ArePlaced(Grown(Q, y, h), A)
    BY GrownPlaced DEF Queues
<1>3. \A a : ~IsOf(h, a)
    BY DEF IsOf
<1>4. ASSUME NEW a \in DOMAIN A PROVE Chain(Grown(Q, y, h)[A[a].context], A[a], a, f)
    BY <1>3, GrownChain DEF Queues, AreChains, AreAcceptors
<1>5. QED
    BY <1>1, <1>2, <1>4 DEF Queues, AreChains

LEMMA QueuesShrink ==
    ASSUME NEW Q, NEW A, NEW f, AreAcceptors(A), Queues(Q, A, f),
           NEW x \in AllContexts, Q[x] # <<>>, Head(Q[x]).fn \notin AcceptorHandlers
    PROVE  Queues(Shrunk(Q, x), A, f)
<1>1. AreQueues(Shrunk(Q, x))
    BY ShrunkAreQueues DEF Queues
<1>2. ArePlaced(Shrunk(Q, x), A)
    BY ShrunkPlaced DEF Queues
<1>3. \A a : ~IsOf(Head(Q[x]), a)
    BY DEF IsOf
<1>4. ASSUME NEW a \in DOMAIN A PROVE Chain(Shrunk(Q, x)[A[a].context], A[a], a, f)
    BY <1>3, ShrunkChain DEF Queues, AreChains, AreAcceptors
<1>5. QED
    BY <1>1, <1>2, <1>4 DEF Queues, AreChains

LEMMA QueuesFail ==
    ASSUME NEW Q, NEW A, NEW f, NEW g, Queues(Q, A, f), f => g
    PROVE  Queues(Q, A, g)
BY ChainFails DEF Queues, AreChains

\* An exception may lose any handler.
LEMMA QueuesThrow ==
    ASSUME NEW Q, NEW A, NEW f, AreAcceptors(A), Queues(Q, A, f),
           NEW x \in AllContexts, Q[x] # <<>>
    PROVE  Queues(Shrunk(Q, x), A, TRUE)
<1>1. AreQueues(Shrunk(Q, x))
    BY ShrunkAreQueues DEF Queues
<1>2. ArePlaced(Shrunk(Q, x), A)
    BY ShrunkPlaced DEF Queues
<1>3. ASSUME NEW a \in DOMAIN A PROVE Chain(Shrunk(Q, x)[A[a].context], A[a], a, TRUE)
  <2> DEFINE z == A[a].context
  <2>1. z \in AllContexts /\ Chain(Q[z], A[a], a, f)
      BY DEF AreAcceptors, Queues, AreChains
  <2>2. PICK H : Q \in [AllContexts -> Seq(H)]
      BY DEF Queues, AreQueues
  <2>3. z = x => Chain(Tail(Q[z]), A[a], a, TRUE)
      BY <2>1, <2>2, ChainThrown
  <2>4. z # x => Chain(Q[z], A[a], a, TRUE)
      BY <2>1, ChainFails
  <2>5. AreQueues(Q)
      BY DEF Queues
  <2>6. Shrunk(Q, x)[z] = IF z = x THEN Tail(Q[z]) ELSE Q[z]
      BY <2>1, <2>5, ShrunkQueue
  <2>7. QED
      BY <2>3, <2>4, <2>6
<1>4. QED
    BY <1>1, <1>2, <1>3 DEF Queues, AreChains

\* What a step does to acceptors: a only, and not to where its context is.
Changes(A, B, a) ==
    /\ AreAcceptors(B)
    /\ a \in DOMAIN A
    /\ DOMAIN B = DOMAIN A
    /\ \A b \in DOMAIN A : B[b].context = A[b].context
    /\ \A b \in DOMAIN A \ {a} : B[b].state = A[b].state /\ B[b].accepting = A[b].accepting

\* A step of the chain of a, by which R follows Q, leaves the other chains alone.
LEMMA OneChainMoves ==
    ASSUME NEW A, NEW B, NEW a, AreAcceptors(A), Changes(A, B, a),
           NEW Q, NEW R, NEW f, Queues(Q, A, f), AreQueues(R), ArePlaced(R, A),
           \A b \in DOMAIN A \ {a} : Chain(R[A[b].context], A[b], b, f),
           Chain(R[A[a].context], B[a], a, f)
    PROVE  Queues(R, B, f)
<1>1. ArePlaced(R, B)
    BY DEF ArePlaced, Changes
<1>2. ASSUME NEW b \in DOMAIN B PROVE Chain(R[B[b].context], B[b], b, f)
  <2>1. CASE b = a
      BY <2>1 DEF Changes
  <2>2. CASE b # a
    <3>1. Chain(R[A[b].context], A[b], b, f)
        BY <2>2 DEF Changes
    <3>2. Chain(R[A[b].context], B[b], b, f)
        BY <2>2, <3>1, ChainSame DEF Changes
    <3>3. QED
        BY <3>2 DEF Changes
  <2>3. QED
      BY <2>1, <2>2
<1>3. QED
    BY <1>1, <1>2 DEF Queues, AreChains

\* It posts a handler of a, ...
LEMMA ChainGrows ==
    ASSUME NEW A, NEW B, NEW a, AreAcceptors(A), Changes(A, B, a),
           NEW Q, NEW f, Queues(Q, A, f), NEW h, h.of = a, NEW y, y = A[a].context,
           Chain(Append(Q[y], h), B[a], a, f)
    PROVE  Queues(Grown(Q, y, h), B, f)
<1> DEFINE R == Grown(Q, y, h)
<1>1. AreQueues(Q) /\ ArePlaced(Q, A) /\ AreChains(Q, A, f) /\ a \in DOMAIN A
    BY DEF Queues, Changes
<1>2. AreQueues(R)
    BY <1>1, GrownAreQueues
<1>3. ArePlaced(R, A)
    BY <1>1, GrownPlaced
<1>4. ASSUME NEW b \in DOMAIN A \ {a} PROVE Chain(R[A[b].context], A[b], b, f)
  <2>1. ~IsOf(h, b)
      BY DEF IsOf
  <2>2. QED
      BY <1>1, <2>1, GrownChain DEF AreChains, AreAcceptors
<1>5. Chain(R[A[a].context], B[a], a, f)
  <2>1. y \in AllContexts
      BY <1>1 DEF AreAcceptors
  <2>2. R[y] = Append(Q[y], h)
    <3>1. AreQueues(Q)
        BY <1>1
    <3>2. \A z \in AllContexts : R[z] = IF z = y THEN Append(Q[z], h) ELSE Q[z]
        BY <3>1, GrownQueue
    <3> HIDE DEF R
    <3>3. QED
        BY <2>1, <3>2
  <2> HIDE DEF R
  <2>3. Chain(R[y], B[a], a, f)
      BY <2>2
  <2>4. QED
      BY <2>3
<1> HIDE DEF R
<1>6. Queues(R, B, f)
    BY <1>2, <1>3, <1>4, <1>5, OneChainMoves
<1>7. QED
    BY <1>6 DEF R

\* or it takes one.
LEMMA ChainShrinks ==
    ASSUME NEW A, NEW B, NEW a, AreAcceptors(A), Changes(A, B, a),
           NEW Q, NEW f, Queues(Q, A, f), NEW x, x = A[a].context, Q[x] # <<>>,
           Head(Q[x]).of = a, Chain(Tail(Q[x]), B[a], a, f)
    PROVE  Queues(Shrunk(Q, x), B, f)
<1> DEFINE R == Shrunk(Q, x)
<1>1. AreQueues(Q) /\ ArePlaced(Q, A) /\ AreChains(Q, A, f) /\ a \in DOMAIN A
    BY DEF Queues, Changes
<1>2. x \in AllContexts
    BY <1>1 DEF AreAcceptors
<1>3. AreQueues(R)
    BY <1>1, <1>2, ShrunkAreQueues
<1>4. ArePlaced(R, A)
    BY <1>1, <1>2, ShrunkPlaced
<1>5. ASSUME NEW b \in DOMAIN A \ {a} PROVE Chain(R[A[b].context], A[b], b, f)
  <2>1. ~IsOf(Head(Q[x]), b)
      BY DEF IsOf
  <2>2. QED
      BY <1>1, <1>2, <2>1, ShrunkChain DEF AreChains, AreAcceptors
<1>6. Chain(R[A[a].context], B[a], a, f)
  <2>1. R[x] = Tail(Q[x])
      BY <1>1, <1>2, ShrunkQueue
  <2>2. QED
      BY <2>1
<1> HIDE DEF R
<1>7. Queues(R, B, f)
    BY <1>3, <1>4, <1>5, <1>6, OneChainMoves
<1>8. QED
    BY <1>7 DEF R

-----------------------------------------------------------------------------
(* What threads and peers do besides accepting.                            *)

\* An exception is not forgotten.
LEMMA FailingStays ==
    ASSUME LifeInv, NEW x \in AllContexts,
           \/ UNCHANGED <<thread, exception>>
           \/ UNCHANGED exception /\ thread[x] # "caught"
              /\ \E s : thread' = [thread EXCEPT ![x] = s]
           \/ exception'
    PROVE  Failing => Failing'
BY DEF Failing, LifeInv, ThreadsInv

LEMMA ThrownFails ==
    ASSUME LifeInv, NEW x \in AllContexts, thread' = Thrown(x)
    PROVE  Failing'
BY DEF Failing, LifeInv, ThreadsInv, Thrown

TakesOther(x) == queue[x] # <<>> /\ Head(queue[x]).fn \notin AcceptorHandlers
PostsOther(Q) == \E y, h : h.fn \notin AcceptorHandlers /\ queue' = Grown(Q, y, h)
PostsTwo(Q) ==
    \E y, g, h : /\ g.fn \notin AcceptorHandlers /\ h.fn \notin AcceptorHandlers
                 /\ queue' = Grown(Grown(Q, y, g), y, h)

\* A handler runs and posts none, one or two.
Goes(x) ==
    \/ queue' = Shrunk(queue, x)
    \/ PostsOther(Shrunk(queue, x))
    \/ PostsTwo(Shrunk(queue, x))

\* Queues change, but by no handler of an acceptor.
Quiet(x) ==
    /\ UNCHANGED <<size, owner, acceptors>>
    /\ Failing => Failing'
    /\ (\E y \in AllContexts : thread'[y] # "none")
          => \E y \in AllContexts : thread[y] # "none"
    /\ \/ queue' = queue
       \/ PostsOther(queue)
       \/ TakesOther(x) /\ Goes(x)

LEMMA QuietKeeps ==
    ASSUME ChainInv, NEW x \in AllContexts, Quiet(x)
    PROVE  ChainInv'
<1>1. Queues(queue, acceptors, Failing) /\ AreAcceptors(acceptors)
    BY DEF ChainInv
<1>2. Queues(queue, acceptors, Failing')
    BY <1>1, QueuesFail DEF Quiet
<1>3. Queues(queue', acceptors, Failing')
  <2>1. CASE queue' = queue
      BY <1>2, <2>1
  <2>2. CASE PostsOther(queue)
      BY <1>1, <1>2, <2>2, QueuesGrow DEF PostsOther
  <2>3. ASSUME TakesOther(x) PROVE Queues(Shrunk(queue, x), acceptors, Failing')
      BY <1>1, <1>2, <2>3, QueuesShrink DEF TakesOther
  <2>4. CASE TakesOther(x) /\ queue' = Shrunk(queue, x)
      BY <2>3, <2>4
  <2>5. CASE TakesOther(x) /\ PostsOther(Shrunk(queue, x))
      BY <1>1, <2>3, <2>5, QueuesGrow DEF PostsOther
  <2>6. CASE TakesOther(x) /\ PostsTwo(Shrunk(queue, x))
    <3>1. PICK y, g, h : /\ g.fn \notin AcceptorHandlers /\ h.fn \notin AcceptorHandlers
                         /\ queue' = Grown(Grown(Shrunk(queue, x), y, g), y, h)
        BY <2>6 DEF PostsTwo
    <3>2. Queues(Grown(Shrunk(queue, x), y, g), acceptors, Failing')
        BY <1>1, <2>3, <2>6, <3>1, QueuesGrow
    <3>3. QED
        BY <1>1, <3>1, <3>2, QueuesGrow
  <2>7. QED
      BY <2>1, <2>2, <2>4, <2>5, <2>6 DEF Quiet, Goes
<1>4. acceptors' = acceptors /\ owner' = owner /\ Contexts' = Contexts
    BY DEF Quiet, Contexts
<1>5. Queues(queue', acceptors', Failing')
    BY <1>3, <1>4
<1>6. AreAcceptors(acceptors')
    BY <1>1, <1>4
<1>7. QED
    BY <1>4, <1>5, <1>6 DEF ChainInv, Quiet, Begun

\* The other handlers
LEMMA OthersAreQuiet ==
    ASSUME LifeInv, NEW x \in AllContexts,
           \/ \E c \in AllConnections : ConnectionStep(x, c)
           \/ LockNext(x) \/ PostClose(x) \/ DropReference(x) \/ EndLoop(x) \/ Destroy(x)
           \/ ThreadEnds(x)
    PROVE  Quiet(x)
<1> USE DEF application
<1>0. ASSUME UNCHANGED <<size, owner, acceptors>>,
             Failing => Failing',
             thread' = thread
                \/ (thread[x] # "none" /\ \E s : thread' = [thread EXCEPT ![x] = s]),
             \/ queue' = queue
             \/ PostsOther(queue)
             \/ TakesOther(x) /\ Goes(x)
      PROVE  Quiet(x)
  <2>1. (\E y \in AllContexts : thread'[y] # "none")
           => \E y \in AllContexts : thread[y] # "none"
      BY <1>0
  <2>2. QED
      BY <1>0, <2>1 DEF Quiet
<1>1. ASSUME NEW c \in AllConnections, ConnectionStep(x, c) PROVE Quiet(x)
  <2>0. ASSUME NEW fn, fn \in ConnectionHandlers \cup {"request"}, Run(x, fn, c)
        PROVE  TakesOther(x) /\ thread[x] = "running"
      BY <2>0 DEF Run, MayRun, TakesOther, AcceptorHandlers, ConnectionHandlers
  <2>1. ASSUME NEW y, NEW fn, NEW result, fn \in ConnectionHandlers \cup {"request"},
               queue' = TakenAndPosted(x, y, Handler(fn, c, result))
        PROVE  Goes(x)
    <3>1. Handler(fn, c, result).fn \notin AcceptorHandlers
        BY <2>1 DEF Handler, AcceptorHandlers, ConnectionHandlers
    <3>2. queue' = Grown(Shrunk(queue, x), y, Handler(fn, c, result))
        BY <2>1 DEF TakenAndPosted, Taken, Grown, Shrunk
    <3>3. QED
        BY <3>1, <3>2 DEF PostsOther, Goes
  <2>2. queue' = Taken(x) => Goes(x)
      BY DEF Taken, Shrunk, Goes
  <2>3. ASSUME NEW fn, fn \in ConnectionHandlers \cup {"request"}, Run(x, fn, c), Goes(x),
               UNCHANGED <<size, owner, acceptors, exception>>,
               thread' = thread \/ thread' = Thrown(x)
        PROVE  Quiet(x)
    <3>1. thread[x] = "running" /\ TakesOther(x)
        BY <2>0, <2>3
    <3>2. Failing => Failing'
        BY <2>3, <3>1, FailingStays, ThrownFails
    <3>3. QED
        BY <1>0, <2>3, <3>1, <3>2 DEF Thrown
  <2> USE DEF ConnectionHandlers
  <2>4. CASE RunReadNext(x, c)
      BY <2>2, <2>3, <2>4 DEF RunReadNext, Untouched
  <2>5. CASE OnMessage(x, c)
    <3>1. Goes(x)
        BY <2>1, <2>5 DEF OnMessage
    <3>2. QED
        BY <2>3, <2>5, <3>1 DEF OnMessage, Untouched
  <2>6. ASSUME NEW fn, fn \in {"on_read", "on_sent"},
               OperationEnds(x, c, fn) \/ OperationThrows(x, c, fn)
        PROVE  Quiet(x)
      BY <2>2, <2>3, <2>6 DEF OperationEnds, OperationThrows, Untouched
  <2>7. CASE OnReadEnds(x, c) \/ OnSentEnds(x, c)
      BY <2>6, <2>7 DEF OnReadEnds, OnSentEnds
  <2>8. ASSUME NEW s, SendNext(x, c, s) PROVE Goes(x)
      BY <2>1, <2>2, <2>8 DEF SendNext
  <2>9. CASE RunRequest(x, c)
      BY <2>3, <2>8, <2>9 DEF RunRequest, Untouched
  <2>10. CASE RunSend(x, c)
    <3>1. Goes(x)
        BY <2>1, <2>2, <2>10 DEF RunSend
    <3>2. QED
        BY <2>3, <2>10, <3>1 DEF RunSend, Untouched
  <2>11. CASE OnSent(x, c)
      BY <2>3, <2>8, <2>11 DEF OnSent, Untouched
  <2>12. CASE CloseInThread(x, c)
    <3> DEFINE g == Handler("on_read", c, "aborted")
               h == Handler("on_sent", c, "aborted")
               Q == Shrunk(queue, x)
               read == conn[c].state = "open" /\ conn[c].reading
               write == conn[c].state = "open" /\ conn[c].writing
    <3>1. queue' = Aborted(Aborted(Q, x, c, "on_read", read), x, c, "on_sent", write)
        BY <2>12 DEF CloseInThread, Taken, Shrunk
    <3>2. g.fn \notin AcceptorHandlers /\ h.fn \notin AcceptorHandlers
        BY DEF Handler, AcceptorHandlers
    <3>3. /\ \A P : Aborted(P, x, c, "on_read", read) = IF read THEN Grown(P, x, g) ELSE P
          /\ \A P : Aborted(P, x, c, "on_sent", write) = IF write THEN Grown(P, x, h) ELSE P
        BY DEF Aborted, Grown
    <3> HIDE DEF g, h, Q, read, write
    <3>4. \/ queue' = Q \/ queue' = Grown(Q, x, g) \/ queue' = Grown(Q, x, h)
          \/ queue' = Grown(Grown(Q, x, g), x, h)
        BY <3>1, <3>3
    <3>5. Goes(x)
        BY <3>2, <3>4 DEF Goes, PostsOther, PostsTwo, Q
    <3>6. QED
        BY <2>3, <2>12, <3>5 DEF CloseInThread, Untouched
  <2>13. QED
      BY <1>1, <2>4, <2>5, <2>7, <2>9, <2>10, <2>11, <2>12 DEF ConnectionStep
<1>2. CASE LockNext(x) \/ DropReference(x) \/ EndLoop(x) \/ Destroy(x)
  <2>1. UNCHANGED <<size, owner, acceptors, thread, exception, queue>>
      BY <1>2 DEF LockNext, DropReference, EndLoop, Destroy, executorVars
  <2>2. QED
      BY <1>0, <2>1, FailingStays
<1>3. CASE PostClose(x)
  <2> DEFINE c == task[x].of
             h == Handler("close", c, "")
  <2>1. UNCHANGED <<size, owner, acceptors, thread, exception>>
      BY <1>3 DEF PostClose
  <2>2. h.fn \notin AcceptorHandlers
      BY DEF Handler, AcceptorHandlers
  <2>3. queue' = Grown(queue, conn[c].context, h)
      BY <1>3 DEF PostClose, Posted, Grown
  <2> HIDE DEF h
  <2>4. PostsOther(queue)
      BY <2>2, <2>3 DEF PostsOther
  <2>5. QED
      BY <1>0, <2>1, <2>4, FailingStays
<1>4. CASE ThreadEnds(x)
  <2>1. CASE Exit(x, HasOperations(x)) /\ UNCHANGED serverVars
    <3>1. UNCHANGED <<size, owner, acceptors, exception, queue>> /\ thread[x] = "running"
          /\ thread' = [thread EXCEPT ![x] = "finished"]
        BY <2>1 DEF Exit, serverVars
    <3>2. QED
        BY <1>0, <3>1, FailingStays
  <2>2. CASE RecordException(x) /\ UNCHANGED serverVars
    <3>1. UNCHANGED <<size, owner, acceptors, queue>> /\ thread[x] = "caught" /\ exception'
          /\ thread' = [thread EXCEPT ![x] = "recorded"]
        BY <2>2 DEF RecordException, serverVars
    <3>2. QED
        BY <1>0, <3>1, FailingStays
  <2>3. CASE interrupt_threads(x) /\ UNCHANGED serverVars
    <3>1. UNCHANGED <<size, owner, acceptors, exception, queue>> /\ thread[x] = "recorded"
          /\ thread' = [thread EXCEPT ![x] = "interrupted"]
        BY <2>3 DEF interrupt_threads, serverVars
    <3>2. QED
        BY <1>0, <3>1, FailingStays
  <2>4. CASE ReportException(x)
    <3>1. UNCHANGED <<size, owner, acceptors, exception, queue>> /\ thread[x] = "interrupted"
          /\ thread' = [thread EXCEPT ![x] = "finished"]
        BY <2>4 DEF ReportException, EndThread
    <3>2. QED
        BY <1>0, <3>1, FailingStays
  <2>5. QED
      BY <1>4, <2>1, <2>2, <2>3, <2>4 DEF ThreadEnds
<1>5. QED
    BY <1>1, <1>2, <1>3, <1>4

-----------------------------------------------------------------------------
(* Acceptors.                                                              *)

LEMMA StateIsSet ==
    ASSUME NEW A, AreAcceptors(A), NEW a \in DOMAIN A, NEW v \in AcceptorStates
    PROVE  LET B == [A EXCEPT ![a].state = v]
           IN  /\ Changes(A, B, a)
               /\ B[a].state = v /\ B[a].accepting = A[a].accepting
<1> DEFINE B == [A EXCEPT ![a].state = v]
<1>1. /\ DOMAIN B = DOMAIN A /\ B = [b \in DOMAIN B |-> B[b]]
      /\ \A b \in DOMAIN A \ {a} : B[b] = A[b]
    BY DEF AreAcceptors
<1>2. /\ DOMAIN B[a] = {"context", "state", "accepting", "socket"}
      /\ B[a].state = v /\ B[a].accepting = A[a].accepting /\ B[a].context = A[a].context
    BY DEF AreAcceptors
<1> HIDE DEF B
<1>3. AreAcceptors(B)
    BY <1>1, <1>2 DEF AreAcceptors
<1>4. QED
    BY <1>1, <1>2, <1>3 DEF Changes, B

LEMMA AcceptingIsSet ==
    ASSUME NEW A, AreAcceptors(A), NEW a \in DOMAIN A, NEW v \in BOOLEAN
    PROVE  LET B == [A EXCEPT ![a].accepting = v]
           IN  /\ Changes(A, B, a)
               /\ B[a].state = A[a].state /\ B[a].accepting = v
<1> DEFINE B == [A EXCEPT ![a].accepting = v]
<1>1. /\ DOMAIN B = DOMAIN A /\ B = [b \in DOMAIN B |-> B[b]]
      /\ \A b \in DOMAIN A \ {a} : B[b] = A[b]
    BY DEF AreAcceptors
<1>2. /\ DOMAIN B[a] = {"context", "state", "accepting", "socket"}
      /\ B[a].state = A[a].state /\ B[a].accepting = v /\ B[a].context = A[a].context
    BY DEF AreAcceptors
<1> HIDE DEF B
<1>3. AreAcceptors(B)
    BY <1>1, <1>2 DEF AreAcceptors
<1>4. QED
    BY <1>1, <1>2, <1>3 DEF Changes, B

LEMMA SocketIsSet ==
    ASSUME NEW A, AreAcceptors(A), NEW a \in DOMAIN A, NEW v
    PROVE  LET B == [A EXCEPT ![a].socket = v]
           IN  /\ Changes(A, B, a)
               /\ B[a].state = A[a].state /\ B[a].accepting = A[a].accepting
<1> DEFINE B == [A EXCEPT ![a].socket = v]
<1>1. /\ DOMAIN B = DOMAIN A /\ B = [b \in DOMAIN B |-> B[b]]
      /\ \A b \in DOMAIN A \ {a} : B[b] = A[b]
    BY DEF AreAcceptors
<1>2. /\ DOMAIN B[a] = {"context", "state", "accepting", "socket"}
      /\ B[a].state = A[a].state /\ B[a].accepting = A[a].accepting
      /\ B[a].context = A[a].context
    BY DEF AreAcceptors
<1> HIDE DEF B
<1>3. AreAcceptors(B)
    BY <1>1, <1>2 DEF AreAcceptors
<1>4. QED
    BY <1>1, <1>2, <1>3 DEF Changes, B

LEMMA ChangesTwice ==
    ASSUME NEW A, NEW B, NEW C, NEW a, Changes(A, B, a), Changes(B, C, a)
    PROVE  Changes(A, C, a)
BY DEF Changes

\* An accept is outstanding again.
LEMMA AcceptingLaw ==
    ASSUME AreAcceptors(acceptors), NEW a \in DOMAIN acceptors
    PROVE  /\ Changes(acceptors, Accepting(a), a)
           /\ Accepting(a)[a].state = acceptors[a].state
           /\ Accepting(a)[a].accepting = TRUE
<1> DEFINE B == [acceptors EXCEPT ![a].accepting = TRUE]
           C == [B EXCEPT ![a].socket = context("TRANSPORT")]
<1>1. Changes(acceptors, B, a) /\ B[a].state = acceptors[a].state /\ B[a].accepting = TRUE
    BY AcceptingIsSet
<1>2. Accepting(a) = C
    BY DEF Accepting
<1> HIDE DEF B
<1>3. AreAcceptors(B) /\ a \in DOMAIN B
    BY <1>1 DEF Changes
<1>4. Changes(B, C, a) /\ C[a].state = B[a].state /\ C[a].accepting = B[a].accepting
    BY <1>3, SocketIsSet
<1> HIDE DEF C
<1>5. QED
    BY <1>1, <1>2, <1>4, ChangesTwice

\* The acceptor is stopped and its accept cancelled.
LEMMA CancelledLaw ==
    ASSUME AreAcceptors(acceptors), NEW a \in DOMAIN acceptors
    PROVE  LET B == [acceptors EXCEPT ![a].state = "STOPPED", ![a].accepting = FALSE]
           IN  /\ Changes(acceptors, B, a)
               /\ B[a].state = "STOPPED" /\ B[a].accepting = FALSE
<1> DEFINE B == [acceptors EXCEPT ![a].state = "STOPPED"]
           C == [B EXCEPT ![a].accepting = FALSE]
<1>1. Changes(acceptors, B, a) /\ B[a].state = "STOPPED"
    BY StateIsSet DEF AcceptorStates
<1>2. [acceptors EXCEPT ![a].state = "STOPPED", ![a].accepting = FALSE] = C
    OBVIOUS
<1> HIDE DEF B
<1>3. AreAcceptors(B) /\ a \in DOMAIN B
    BY <1>1 DEF Changes
<1>4. Changes(B, C, a) /\ C[a].state = B[a].state /\ C[a].accepting = FALSE
    BY <1>3, AcceptingIsSet
<1> HIDE DEF C
<1>5. QED
    BY <1>1, <1>2, <1>4, ChangesTwice

\* The head of a queue is of an acceptor.
LEMMA AcceptorRuns ==
    ASSUME LifeInv, ChainInv, NEW x \in AllContexts, NEW a,
           NEW fn \in AcceptorHandlers, Run(x, fn, a)
    PROVE  /\ a \in DOMAIN acceptors /\ x = acceptors[a].context
           /\ thread[x] = "running" /\ queue[x] # <<>>
           /\ Head(queue[x]).fn = fn /\ Head(queue[x]).of = a
           /\ acceptors[a].state \in {"PROCESSING", "STOPPED"}
           /\ Chain(queue[x], acceptors[a], a, Failing)
           /\ \E H : queue[x] \in Seq(H)
           /\ owner \notin {"configuring", "building"}
<1>1. /\ thread[x] = "running" /\ queue[x] # <<>>
      /\ Head(queue[x]).fn = fn /\ Head(queue[x]).of = a
    BY DEF Run, MayRun
<1>2. PICK H : queue[x] \in Seq(H)
    BY DEF ChainInv, Queues, AreQueues
<1>3. 1 \in DOMAIN queue[x] /\ Head(queue[x]) = queue[x][1]
    BY <1>1, <1>2, TailLaw
<1>4. a \in DOMAIN acceptors /\ x = acceptors[a].context
    BY <1>1, <1>3 DEF ChainInv, Queues, ArePlaced
<1>5. Chain(queue[x], acceptors[a], a, Failing)
    BY <1>4 DEF ChainInv, Queues, AreChains
<1>6. acceptors[a].state \in {"PROCESSING", "STOPPED"}
    BY <1>1, <1>4 DEF ChainInv, Begun
<1>7. owner \notin {"configuring", "building"}
    BY <1>1 DEF LifeInv, ThreadsInv
<1>8. QED
    BY <1>1, <1>2, <1>4, <1>5, <1>6, <1>7

LEMMA AcceptorMoves ==
    ASSUME ChainInv, UNCHANGED <<size, owner>>, owner \notin {"configuring", "building"},
           NEW a, Changes(acceptors, acceptors', a),
           \/ owner = "starting" /\ \A x \in AllContexts : thread'[x] = "none"
           \/ /\ (\E x \in AllContexts : thread'[x] # "none")
                    => \E x \in AllContexts : thread[x] # "none"
              /\ acceptors'[a].state \in {acceptors[a].state, "STOPPED"},
           Queues(queue', acceptors', Failing')
    PROVE  ChainInv'
<1>1. /\ AreAcceptors(acceptors') /\ DOMAIN acceptors' = DOMAIN acceptors
      /\ a \in DOMAIN acceptors
      /\ \A b \in DOMAIN acceptors : acceptors'[b].context = acceptors[b].context
      /\ \A b \in DOMAIN acceptors \ {a} : acceptors'[b].state = acceptors[b].state
    BY DEF Changes
<1>2. Contexts' = Contexts
    BY DEF Contexts
<1>3. \A b \in DOMAIN acceptors' : acceptors'[b].context \in Contexts'
    BY <1>1, <1>2 DEF ChainInv
<1>4. Begun' =>
         \A b \in DOMAIN acceptors' : acceptors'[b].state \in {"PROCESSING", "STOPPED"}
    BY <1>1 DEF ChainInv, Begun
<1>5. QED
    BY <1>1, <1>3, <1>4 DEF ChainInv

LEMMA FirstAcceptKeeps ==
    ASSUME LifeInv, ChainInv, NEW x \in AllContexts, NEW a, RunAcceptNext(x, a)
    PROVE  ChainInv'
<1>1. /\ Run(x, "accept_next", a) /\ acceptors' = Accepting(a)
      /\ queue' = Shrunk(queue, x)
      /\ UNCHANGED <<size, owner, thread, exception>>
    BY DEF RunAcceptNext, application, Taken, Shrunk
<1> DEFINE q == queue[x]
           s == acceptors[a]
<1>2. /\ a \in DOMAIN acceptors /\ x = s.context /\ q # <<>>
      /\ Head(q).fn = "accept_next" /\ Head(q).of = a
      /\ s.state \in {"PROCESSING", "STOPPED"} /\ Chain(q, s, a, Failing)
      /\ owner \notin {"configuring", "building"}
    BY <1>1, AcceptorRuns DEF AcceptorHandlers
<1>3. PICK H : q \in Seq(H)
    BY <1>1, AcceptorRuns DEF AcceptorHandlers
<1>4. IsFirst(Head(q), a) /\ IsLink(Head(q), a)
    BY <1>2 DEF IsFirst, IsLink
<1>5. s.state = "PROCESSING"
  <2>1. 1 \in DOMAIN q /\ q[1] = Head(q)
      BY <1>2, <1>3, TailLaw
  <2>2. QED
      BY <1>2, <1>4, <2>1 DEF Chain
<1>6. AreAcceptors(acceptors) /\ Queues(queue, acceptors, Failing)
    BY DEF ChainInv
<1>7. /\ Changes(acceptors, acceptors', a)
      /\ acceptors'[a].state = s.state /\ acceptors'[a].accepting = TRUE
    BY <1>1, <1>2, <1>6, AcceptingLaw
<1>8. Failing' <=> Failing
    BY <1>1 DEF Failing
<1>9. Chain(Tail(q), acceptors'[a], a, Failing)
    BY <1>2, <1>3, <1>4, <1>5, <1>7, ChainGoesOn
<1>10. Queues(Shrunk(queue, x), acceptors', Failing)
    BY <1>2, <1>6, <1>7, <1>9, ChainShrinks
<1>11. Queues(queue', acceptors', Failing')
    BY <1>1, <1>8, <1>10, QueuesFail
<1>12. QED
    BY <1>1, <1>2, <1>7, <1>11, AcceptorMoves

LEMMA AcceptedKeeps ==
    ASSUME LifeInv, ChainInv, NEW x \in AllContexts, NEW a, NEW c, OnAccept(x, a, c)
    PROVE  ChainInv'
<1> DEFINE q == queue[x]
           s == acceptors[a]
           on == s.state = "PROCESSING"
           y == s.socket
           h == Handler("read_next", c, "")
           Q == Shrunk(queue, x)
<1>1. /\ Run(x, "on_accept", a)
      /\ acceptors' = IF on THEN Accepting(a) ELSE acceptors
      /\ UNCHANGED <<size, owner, thread, exception>>
    BY DEF OnAccept, application
<1>2. queue' = Grown(Q, y, h)
    BY DEF OnAccept, TakenAndPosted, Taken, Grown, Shrunk
<1>3. /\ a \in DOMAIN acceptors /\ x = s.context /\ q # <<>>
      /\ Head(q).fn = "on_accept" /\ Head(q).of = a
      /\ s.state \in {"PROCESSING", "STOPPED"} /\ Chain(q, s, a, Failing)
      /\ owner \notin {"configuring", "building"}
    BY <1>1, AcceptorRuns DEF AcceptorHandlers
<1>4. PICK H : q \in Seq(H)
    BY <1>1, AcceptorRuns DEF AcceptorHandlers
<1>5. IsLink(Head(q), a)
    BY <1>3 DEF IsLink
<1>6. AreAcceptors(acceptors) /\ Queues(queue, acceptors, Failing)
    BY DEF ChainInv
<1>7. Failing' <=> Failing
    BY <1>1 DEF Failing
<1>8. /\ Changes(acceptors, acceptors', a) /\ acceptors'[a].state = s.state
      /\ Chain(Tail(q), acceptors'[a], a, Failing)
  <2>1. CASE on
    <3>1. /\ Changes(acceptors, acceptors', a)
          /\ acceptors'[a].state = s.state /\ acceptors'[a].accepting = TRUE
        BY <1>1, <1>3, <1>6, <2>1, AcceptingLaw
    <3>2. Chain(Tail(q), acceptors'[a], a, Failing)
        BY <1>3, <1>4, <1>5, <2>1, <3>1, ChainGoesOn
    <3>3. QED
        BY <3>1, <3>2
  <2>2. CASE ~on
    <3>1. s.state = "STOPPED" /\ acceptors' = acceptors
        BY <1>1, <1>3, <2>2
    <3>2. Chain(Tail(q), s, a, Failing)
        BY <1>3, <1>4, <3>1, ChainEnds
    <3>3. Changes(acceptors, acceptors', a)
        BY <1>3, <1>6, <3>1 DEF Changes
    <3>4. QED
        BY <3>1, <3>2, <3>3
  <2>3. QED
      BY <2>1, <2>2
<1>9. Queues(Q, acceptors', Failing)
    BY <1>3, <1>6, <1>8, ChainShrinks
<1>10. h.fn \notin AcceptorHandlers
    BY DEF Handler, AcceptorHandlers
<1>11. AreAcceptors(acceptors')
    BY <1>8 DEF Changes
<1> HIDE DEF h, Q, y
<1>12. Queues(Grown(Q, y, h), acceptors', Failing)
    BY <1>9, <1>10, <1>11, QueuesGrow
<1>13. Queues(queue', acceptors', Failing')
    BY <1>2, <1>7, <1>12, QueuesFail
<1>14. QED
    BY <1>1, <1>3, <1>8, <1>13, AcceptorMoves

LEMMA AbortedKeeps ==
    ASSUME LifeInv, ChainInv, NEW x \in AllContexts, NEW a, OnAcceptAborted(x, a)
    PROVE  ChainInv'
<1> DEFINE q == queue[x]
           s == acceptors[a]
<1>1. /\ Run(x, "on_accept", a) /\ Head(q).result = "aborted"
      /\ queue' = Shrunk(queue, x)
      /\ UNCHANGED <<size, owner, thread, exception, acceptors>>
    BY DEF OnAcceptAborted, serverVars, application, Taken, Shrunk, Result
<1>2. /\ a \in DOMAIN acceptors /\ x = s.context /\ q # <<>>
      /\ Head(q).fn = "on_accept" /\ Head(q).of = a
      /\ Chain(q, s, a, Failing)
      /\ owner \notin {"configuring", "building"}
    BY <1>1, AcceptorRuns DEF AcceptorHandlers
<1>3. PICK H : q \in Seq(H)
    BY <1>1, AcceptorRuns DEF AcceptorHandlers
<1>4. s.state = "STOPPED"
  <2>1. 1 \in DOMAIN q /\ q[1] = Head(q)
      BY <1>2, <1>3, TailLaw
  <2>2. QED
      BY <1>1, <1>2, <2>1 DEF Chain, IsAborted
<1>5. AreAcceptors(acceptors) /\ Queues(queue, acceptors, Failing)
    BY DEF ChainInv
<1>6. Failing' <=> Failing
    BY <1>1 DEF Failing
<1>7. Changes(acceptors, acceptors', a)
    BY <1>1, <1>2, <1>5 DEF Changes
<1>8. Chain(Tail(q), acceptors'[a], a, Failing)
    BY <1>1, <1>2, <1>3, <1>4, ChainEnds
<1>9. Queues(Shrunk(queue, x), acceptors', Failing)
    BY <1>2, <1>5, <1>7, <1>8, ChainShrinks
<1>10. Queues(queue', acceptors', Failing')
    BY <1>1, <1>6, <1>9, QueuesFail
<1>11. QED
    BY <1>1, <1>2, <1>7, <1>10, AcceptorMoves

LEMMA AcceptThrowsKeeps ==
    ASSUME LifeInv, ChainInv, NEW x \in AllContexts, NEW a, OnAcceptThrows(x, a)
    PROVE  ChainInv'
<1>1. /\ Run(x, "on_accept", a) /\ thread' = Thrown(x)
      /\ queue' = Shrunk(queue, x)
      /\ UNCHANGED <<size, owner, acceptors>>
    BY DEF OnAcceptThrows, serverVars, application, Taken, Shrunk
<1>2. /\ a \in DOMAIN acceptors /\ queue[x] # <<>> /\ thread[x] = "running"
      /\ owner \notin {"configuring", "building"}
    BY <1>1, AcceptorRuns DEF AcceptorHandlers
<1>3. AreAcceptors(acceptors) /\ Queues(queue, acceptors, Failing)
    BY DEF ChainInv
<1>4. Failing'
    BY <1>1, ThrownFails
<1>5. Queues(Shrunk(queue, x), acceptors, TRUE)
    BY <1>2, <1>3, QueuesThrow
<1>6. Queues(queue', acceptors', Failing')
    BY <1>1, <1>4, <1>5, QueuesFail
<1>7. Changes(acceptors, acceptors', a)
    BY <1>1, <1>2, <1>3 DEF Changes
<1>8. \E y \in AllContexts : thread[y] # "none"
    BY <1>2
<1>9. QED
    BY <1>1, <1>2, <1>6, <1>7, <1>8, AcceptorMoves

LEMMA StopKeeps ==
    ASSUME LifeInv, ChainInv, NEW x \in AllContexts, NEW a, Cancelled(x, a)
    PROVE  ChainInv'
<1> DEFINE q == queue[x]
           s == acceptors[a]
           h == Handler("on_accept", a, "aborted")
           Q == Shrunk(queue, x)
<1>1. /\ Run(x, "stop", a)
      /\ acceptors' = [acceptors EXCEPT ![a].state = "STOPPED", ![a].accepting = FALSE]
      /\ UNCHANGED <<size, owner, thread, exception>>
    BY DEF Cancelled, application
<1>2. queue' = IF s.accepting THEN Grown(Q, x, h) ELSE Q
    BY DEF Cancelled, TakenAndPosted, Taken, Grown, Shrunk
<1>3. /\ a \in DOMAIN acceptors /\ x = s.context /\ q # <<>>
      /\ Head(q).fn = "stop" /\ Head(q).of = a
      /\ Chain(q, s, a, Failing)
      /\ owner \notin {"configuring", "building"}
    BY <1>1, AcceptorRuns DEF AcceptorHandlers
<1>4. PICK H : q \in Seq(H)
    BY <1>1, AcceptorRuns DEF AcceptorHandlers
<1>5. AreAcceptors(acceptors) /\ Queues(queue, acceptors, Failing)
    BY DEF ChainInv
<1>6. Failing' <=> Failing
    BY <1>1 DEF Failing
<1>7. /\ Changes(acceptors, acceptors', a)
      /\ acceptors'[a].state = "STOPPED" /\ acceptors'[a].accepting = FALSE
    BY <1>1, <1>3, <1>5, CancelledLaw
<1>8. Chain(Tail(q), acceptors'[a], a, Failing)
    BY <1>3, <1>4, <1>7, ChainStopped DEF IsStop
<1>9. Queues(Q, acceptors', Failing)
    BY <1>3, <1>5, <1>7, <1>8, ChainShrinks
<1>10. ASSUME s.accepting PROVE Queues(Grown(Q, x, h), acceptors', Failing)
  <2>1. /\ h.of = a /\ IsLink(h, a) /\ ~IsFirst(h, a)
      BY DEF Handler, IsLink, IsFirst
  <2>2. Tail(q) \in Seq(H) /\ \A i \in DOMAIN Tail(q) : ~IsLink(Tail(q)[i], a)
      BY <1>3, <1>4, <1>10, TailLaw DEF Chain
  <2>3. Chain(Tail(q), acceptors'[a], a, TRUE)
      BY <1>8, ChainFails
  <2> HIDE DEF h
  <2>4. Chain(Append(Tail(q), h), acceptors'[a], a, Failing)
      BY <1>7, <2>1, <2>2, <2>3, ChainPosted
  <2>5. AreAcceptors(acceptors') /\ a \in DOMAIN acceptors' /\ acceptors'[a].context = x
      BY <1>3, <1>7 DEF Changes
  <2>6. Changes(acceptors', acceptors', a)
      BY <2>5 DEF Changes
  <2>7. Q[x] = Tail(q)
      BY <1>5, ShrunkQueue DEF Queues
  <2> HIDE DEF Q
  <2>8. Chain(Append(Q[x], h), acceptors'[a], a, Failing)
      BY <2>4, <2>7
  <2>9. QED
      BY <1>9, <2>1, <2>5, <2>6, <2>8, ChainGrows
<1>11. Queues(queue', acceptors', Failing)
  <2> HIDE DEF Q, h
  <2>1. QED
      BY <1>2, <1>9, <1>10
<1>12. Queues(queue', acceptors', Failing')
    BY <1>6, <1>11, QueuesFail
<1>13. QED
    BY <1>1, <1>3, <1>7, <1>12, AcceptorMoves

\* The accept that is outstanding completes.
LEMMA CompletionKeeps ==
    ASSUME LifeInv, ChainInv, NEW a \in DOMAIN acceptors, AcceptCompletes(a)
    PROVE  ChainInv'
<1> DEFINE s == acceptors[a]
           x == s.context
           q == queue[x]
<1>1. PICK result \in {"ok", "error"} :
         Completes(x, Handler("on_accept", a, result))
    BY DEF AcceptCompletes
<1> DEFINE h == Handler("on_accept", a, result)
<1>2. /\ s.accepting /\ acceptors' = [acceptors EXCEPT ![a].accepting = FALSE]
      /\ UNCHANGED <<size, owner, thread, exception>>
    BY <1>1 DEF AcceptCompletes, Completes, application
<1>3. queue' = Grown(queue, x, h)
    BY <1>1 DEF Completes, Posted, Grown
<1>4. AreAcceptors(acceptors) /\ Queues(queue, acceptors, Failing)
    BY DEF ChainInv
<1>5. x \in AllContexts /\ Chain(q, s, a, Failing) /\ \E H : q \in Seq(H)
    BY <1>4 DEF AreAcceptors, Queues, AreChains, AreQueues
<1>6. /\ Changes(acceptors, acceptors', a)
      /\ acceptors'[a].state = s.state /\ acceptors'[a].accepting = FALSE
    BY <1>2, <1>4, AcceptingIsSet
<1>7. h.of = a /\ IsLink(h, a) /\ ~IsFirst(h, a) /\ ~IsAborted(h, a)
    BY DEF Handler, IsLink, IsFirst, IsAborted
<1> HIDE DEF h
<1>8. Chain(Append(q, h), acceptors'[a], a, Failing)
  <2>1. /\ s.state \notin {"INIT", "STOPPED"}
        /\ \A i \in DOMAIN q : ~IsLink(q[i], a)
      BY <1>2, <1>5 DEF Chain
  <2>2. Chain(q, acceptors'[a], a, TRUE)
      BY <1>5, <1>6, <2>1 DEF Chain
  <2>3. QED
      BY <1>5, <1>6, <1>7, <2>1, <2>2, ChainPosted
<1>9. Queues(Grown(queue, x, h), acceptors', Failing)
    BY <1>4, <1>6, <1>7, <1>8, ChainGrows
<1>10. Failing' <=> Failing
    BY <1>2 DEF Failing
<1>11. Queues(queue', acceptors', Failing')
    BY <1>3, <1>9, <1>10, QueuesFail
<1>12. owner \notin {"configuring", "building"}
    BY DEF ChainInv
<1>13. QED
    BY <1>2, <1>6, <1>11, <1>12, AcceptorMoves

-----------------------------------------------------------------------------
(* Building and starting.                                                  *)

UseKinds == {"resolver", "acceptor"}

LEMMA UsesAreSequences ==
    ASSUME NEW uri, NEW n \in Nat
    PROVE  Uses(uri, n) \in Seq(UseKinds)
<1> USE DEF UseKinds
<1>1. [i \in 1..n |-> "acceptor"] \in Seq(UseKinds)
  <2>1. [i \in 1..n |-> "acceptor"] \in [1..n -> UseKinds]
      OBVIOUS
  <2> HIDE DEF UseKinds
  <2>2. QED
      BY <2>1
<1>2. TCPUses(n) \in Seq(UseKinds)
  <2>1. <<"resolver">> \in Seq(UseKinds)
      OBVIOUS
  <2> HIDE DEF UseKinds
  <2>2. QED
      BY <1>1, <2>1 DEF TCPUses
<1>3. UnixSocketUses \in Seq(UseKinds)
    BY DEF UnixSocketUses
<1>4. QED
    BY <1>2, <1>3 DEF Uses

\* The uses of all URIs are a sequence.
LEMMA AllUsesAreASequence ==
    ASSUME Len(uris) \in Nat, NEW endpoints, \A i \in 1..Len(uris) : endpoints[i] \in Nat
    PROVE  AllUses(endpoints) \in Seq(UseKinds)
<1> DEFINE N == Len(uris)
           Step(p, i) == IF i = 0 THEN <<>> ELSE p[i - 1] \o Uses(uris[i], endpoints[i])
           Law(p, n) == p = [i \in 0..n |-> Step(p, i)]
           S == {n \in Nat : \E p : Law(p, n)}
<1>1. 0 \in S
  <2> DEFINE p == [i \in 0..0 |-> <<>>]
  <2>1. Law(p, 0)
      OBVIOUS
  <2> HIDE DEF Law
  <2>2. QED
      BY <2>1
<1>2. ASSUME NEW n \in S PROVE n + 1 \in S
  <2>1. n \in Nat /\ \E p : Law(p, n)
      OBVIOUS
  <2>2. PICK p : Law(p, n)
      BY <2>1
  <2> DEFINE v == p[n] \o Uses(uris[n + 1], endpoints[n + 1])
             q == [i \in 0..(n + 1) |-> IF i = n + 1 THEN v ELSE p[i]]
  <2>3. ASSUME NEW i \in 0..(n + 1) PROVE q[i] = Step(q, i)
    <3>1. CASE i = n + 1
      <4>1. q[i] = v /\ q[i - 1] = p[n] /\ i # 0
          BY <2>1, <3>1
      <4> HIDE DEF q
      <4>2. QED
          BY <3>1, <4>1
    <3>2. CASE i # n + 1
      <4>1. i \in 0..n /\ q[i] = p[i] /\ (i # 0 => q[i - 1] = p[i - 1])
          BY <2>1, <3>2
      <4>2. p[i] = Step(p, i)
          BY <2>2, <4>1
      <4> HIDE DEF q
      <4>3. QED
          BY <4>1, <4>2
    <3>3. QED
        BY <3>1, <3>2
  <2>4. Law(q, n + 1)
    <3> DEFINE D == 0..(n + 1)
    <3>1. q = [i \in D |-> q[i]]
        OBVIOUS
    <3> HIDE DEF Step, q
    <3>2. QED
        BY <2>3, <3>1
  <2> HIDE DEF Law, q
  <2>5. QED
      BY <2>1, <2>4
<1>3. S = Nat
  <2>1. S \in SUBSET Nat
      OBVIOUS
  <2> HIDE DEF S
  <2>2. QED
      BY <1>1, <1>2, <2>1, SetInduction
<1>4. PICK p : p = CHOOSE q : Law(q, N)
    OBVIOUS
<1>5. AllUses(endpoints) = p[N]
    BY <1>4 DEF AllUses
<1>6. Law(p, N)
  <2>1. \E q : Law(q, N)
    <3> HIDE DEF Law
    <3>1. QED
        BY <1>3
  <2> HIDE DEF Law
  <2>2. QED
      BY <1>4, <2>1
<1> DEFINE T == {n \in Nat : n =< N => p[n] \in Seq(UseKinds)}
<1>7. 0 \in T
  <2>1. p[0] = <<>>
    <3>1. 0 \in 0..N
        OBVIOUS
    <3>2. p[0] = Step(p, 0)
        BY <1>6, <3>1
    <3>3. QED
        BY <3>2
  <2>2. <<>> \in Seq(UseKinds)
      OBVIOUS
  <2>3. p[0] \in Seq(UseKinds)
      BY <2>1, <2>2
  <2>4. QED
      BY <2>3
<1>8. ASSUME NEW n \in T PROVE n + 1 \in T
  <2>1. SUFFICES ASSUME n + 1 =< N PROVE p[n + 1] \in Seq(UseKinds)
      OBVIOUS
  <2>2. p[n] \in Seq(UseKinds)
      BY <2>1
  <2>3. p[n + 1] = p[n] \o Uses(uris[n + 1], endpoints[n + 1])
    <3>1. n + 1 \in 0..N /\ n + 1 # 0 /\ (n + 1) - 1 = n
        BY <2>1
    <3>2. p[n + 1] = Step(p, n + 1)
        BY <1>6, <3>1
    <3>3. QED
        BY <3>1, <3>2
  <2>4. Uses(uris[n + 1], endpoints[n + 1]) \in Seq(UseKinds)
      BY <2>1, UsesAreSequences
  <2>5. QED
      BY <2>2, <2>3, <2>4
<1>9. T = Nat
  <2>1. T \in SUBSET Nat
      OBVIOUS
  <2> HIDE DEF T
  <2>2. QED
      BY <1>7, <1>8, <2>1, SetInduction
<1>10. N \in T
    BY <1>9
<1>11. p[N] \in Seq(UseKinds)
    BY <1>10
<1>12. QED
    BY <1>5, <1>11

\* The queues hold no handlers of acceptors, nor do they when there are some.
LEMMA NewChains ==
    ASSUME NEW Q, AreQueues(Q), NEW A, ArePlaced(Q, <<>>), NEW f, AreAcceptors(A),
           \A a \in DOMAIN A : A[a].state = "INIT" /\ A[a].accepting = FALSE
    PROVE  Queues(Q, A, f)
<1>1. ASSUME NEW x \in AllContexts, NEW i \in DOMAIN Q[x]
      PROVE  Q[x][i].fn \notin AcceptorHandlers
    BY DEF ArePlaced
<1>2. ArePlaced(Q, A)
    BY <1>1 DEF ArePlaced
<1>3. ASSUME NEW a \in DOMAIN A PROVE Chain(Q[A[a].context], A[a], a, f)
  <2>1. \A i \in DOMAIN Q[A[a].context] : ~IsOf(Q[A[a].context][i], a)
      BY <1>1 DEF AreAcceptors, IsOf
  <2>2. \A g : IsLink(g, a) \/ IsFirst(g, a) \/ IsStop(g, a) \/ IsAborted(g, a) => IsOf(g, a)
      BY DEF IsLink, IsFirst, IsStop, IsAborted, IsOf, AcceptorHandlers
  <2>3. QED
      BY <2>1, <2>2 DEF Chain
<1>4. QED
    BY <1>2, <1>3 DEF Queues, AreChains

LEMMA BuildKeeps ==
    ASSUME LifeInv, ChainInv, NEW hasUnixSockets, Build(hasUnixSockets)
    PROVE  ChainInv'
<1>1. PICK endpoints \in [DOMAIN uris -> 1..MaxEndpoints] :
         LET uses == AllUses(endpoints)
             made == {i \in DOMAIN uses : uses[i] = "acceptor"}
         IN acceptors' = [a \in made |-> Acceptor(ContextAfter("TRANSPORT", a - 1))]
    BY DEF Build
<1> DEFINE uses == AllUses(endpoints)
           made == {i \in DOMAIN uses : uses[i] = "acceptor"}
           Context(a) == ContextAfter("TRANSPORT", a - 1)
<1>2. /\ owner = "building" /\ owner' = "starting"
      /\ UNCHANGED <<size, queue, thread, exception>>
      /\ acceptors' = [a \in made |-> Acceptor(Context(a))]
    BY <1>1 DEF Build
<1>3. made \subseteq Nat \ {0}
  <2>1. PICK S : uris \in Seq(S)
      BY DEF LifeInv, BuildingInv
  <2>2. Len(uris) \in Nat /\ DOMAIN uris = 1..Len(uris)
      BY <2>1
  <2>3. \A i \in 1..Len(uris) : endpoints[i] \in Nat
      BY <2>2, BoundsAssumption
  <2>4. uses \in Seq(UseKinds)
      BY <2>2, <2>3, AllUsesAreASequence
  <2> HIDE DEF uses
  <2>5. QED
      BY <2>4
<1>4. ASSUME NEW a \in made PROVE Context(a) \in Contexts
  <2> DEFINE n == (index["TRANSPORT"] + (a - 1)) % IndexLimit
             m == n % size["TRANSPORT"]
  <2>1. index["TRANSPORT"] \in Nat
      BY <1>2 DEF LifeInv, BuildingInv, Types
  <2>2. Context(a) = <<"TRANSPORT", m>>
      BY DEF ContextAfter
  <2>3. a - 1 \in Nat /\ IndexLimit \in Nat \ {0} /\ MaxThreads \in Nat
      BY <1>3, ThreadsAssumption
  <2>4. size["TRANSPORT"] \in 1..MaxThreads
      BY <1>2, <2>3 DEF LifeInv, ThreadsInv, Types, Alive
  <2>5. n \in Nat
      BY <2>1, <2>3
  <2> HIDE DEF n
  <2>6. m \in 0..(size["TRANSPORT"] - 1)
      BY <2>3, <2>4, <2>5
  <2> HIDE DEF m
  <2>7. m \in 0..(MaxThreads - 1) /\ m < size["TRANSPORT"]
      BY <2>3, <2>4, <2>6
  <2>8. QED
      BY <2>2, <2>7 DEF Contexts, AllContexts, Types
<1> HIDE DEF made, Context
<1>5. \A a \in made :
         /\ DOMAIN acceptors'[a] = {"context", "state", "accepting", "socket"}
         /\ acceptors'[a].context = Context(a) /\ acceptors'[a].state = "INIT"
         /\ acceptors'[a].accepting = FALSE
    BY <1>2 DEF Acceptor
<1>6. DOMAIN acceptors' = made /\ acceptors' = [a \in made |-> acceptors'[a]]
    BY <1>2
<1>7. Contexts' = Contexts /\ Contexts \subseteq AllContexts
    BY <1>2 DEF Contexts
<1>8. AreAcceptors(acceptors')
    BY <1>3, <1>4, <1>5, <1>6, <1>7 DEF AreAcceptors, AcceptorStates
<1>9. acceptors = <<>> /\ Queues(queue, acceptors, Failing)
    BY <1>2 DEF ChainInv
<1>10. AreQueues(queue) /\ ArePlaced(queue, <<>>)
    BY <1>9 DEF Queues
<1>11. Queues(queue, acceptors', Failing')
    BY <1>5, <1>6, <1>8, <1>10, NewChains
<1>12. Queues(queue', acceptors', Failing')
    BY <1>2, <1>11
<1>13. \A x \in AllContexts : thread'[x] = "none"
    BY <1>2 DEF LifeInv, ThreadsInv
<1>14. QED
    BY <1>2, <1>4, <1>5, <1>6, <1>7, <1>8, <1>12, <1>13 DEF ChainInv, Begun

\* The application goes on.
LEMMA OwnerMoves ==
    ASSUME ChainInv, UNCHANGED <<size, queue, thread, exception, acceptors>>,
           owner' \in {"configuring", "building"} => owner \in {"configuring", "building"},
           owner \in {"configuring", "building"} \/ Begun \/ AcceptorsStarted
    PROVE  ChainInv'
<1>1. Contexts' = Contexts /\ (Failing' <=> Failing)
    BY DEF Contexts, Failing
<1>2. Queues(queue, acceptors, Failing')
    BY <1>1, QueuesFail DEF ChainInv
<1>3. AreAcceptors(acceptors') /\ Queues(queue', acceptors', Failing')
    BY <1>2 DEF ChainInv
<1>4. Begun' => \A a \in DOMAIN acceptors' :
                   acceptors'[a].state \in {"PROCESSING", "STOPPED"}
    BY DEF ChainInv, AcceptorsStarted, AcceptorIndices
<1>5. QED
    BY <1>1, <1>3, <1>4 DEF ChainInv

\* Everything is destroyed.
LEMMA ClearingMoves ==
    ASSUME Clear, acceptors' = <<>>
    PROVE  ChainInv'
<1>1. \A x \in AllContexts : queue'[x] = <<>>
    BY DEF Clear
<1>2. queue' \in [AllContexts -> Seq({})]
    BY DEF Clear
<1>3. AreQueues(queue')
    BY <1>2 DEF AreQueues
<1>4. ArePlaced(queue', acceptors') /\ AreChains(queue', acceptors', Failing')
    BY <1>1 DEF ArePlaced, AreChains
<1>5. AreAcceptors(acceptors')
    BY DEF AreAcceptors
<1>6. QED
    BY <1>3, <1>4, <1>5 DEF ChainInv, Queues

LEMMA StartAcceptorKeeps ==
    ASSUME LifeInv, ChainInv, NEW a, StartAcceptor(a)
    PROVE  ChainInv'
<1> DEFINE s == acceptors[a]
           x == s.context
           h == Handler("accept_next", a, "")
<1>1. /\ owner = "starting" /\ a \in DOMAIN acceptors /\ s.state = "INIT"
      /\ acceptors' = [acceptors EXCEPT ![a].state = "STARTING"]
      /\ UNCHANGED <<size, owner, thread, exception>>
    BY DEF StartAcceptor, application, AcceptorIndices
<1>2. queue' = Grown(queue, x, h)
    BY DEF StartAcceptor, Posted, Grown
<1>3. AreAcceptors(acceptors) /\ Queues(queue, acceptors, Failing)
    BY DEF ChainInv
<1>4. Chain(queue[x], s, a, Failing) /\ \E H : queue[x] \in Seq(H)
    BY <1>1, <1>3 DEF AreAcceptors, Queues, AreChains, AreQueues
<1>5. /\ Changes(acceptors, acceptors', a)
      /\ acceptors'[a].state = "STARTING" /\ acceptors'[a].accepting = s.accepting
    BY <1>1, <1>3, StateIsSet DEF AcceptorStates
<1>6. h.of = a /\ IsFirst(h, a)
    BY DEF Handler, IsFirst
<1> HIDE DEF h
<1>7. Chain(Append(queue[x], h), acceptors'[a], a, Failing)
    BY <1>1, <1>4, <1>5, <1>6, ChainBegins
<1>8. Queues(Grown(queue, x, h), acceptors', Failing)
    BY <1>3, <1>5, <1>6, <1>7, ChainGrows
<1>9. Failing' <=> Failing
    BY <1>1 DEF Failing
<1>10. Queues(queue', acceptors', Failing')
    BY <1>2, <1>8, <1>9, QueuesFail
<1>11. \A y \in AllContexts : thread'[y] = "none"
    BY <1>1 DEF ChainInv, Begun
<1>12. QED
    BY <1>1, <1>5, <1>10, <1>11, AcceptorMoves

LEMMA ProcessingStartedKeeps ==
    ASSUME LifeInv, ChainInv, NEW a, ProcessingStarted(a)
    PROVE  ChainInv'
<1> DEFINE s == acceptors[a]
           x == s.context
           q == queue[x]
<1>1. /\ owner = "starting" /\ a \in DOMAIN acceptors /\ s.state = "STARTING"
      /\ acceptors' = [acceptors EXCEPT ![a].state = "PROCESSING"]
      /\ UNCHANGED <<size, owner, thread, exception, queue>>
    BY DEF ProcessingStarted, application, executorVars, AcceptorIndices
<1>2. AreAcceptors(acceptors) /\ Queues(queue, acceptors, Failing)
    BY DEF ChainInv
<1>3. Chain(q, s, a, Failing)
    BY <1>1, <1>2 DEF Queues, AreChains
<1>4. /\ Changes(acceptors, acceptors', a)
      /\ acceptors'[a].state = "PROCESSING" /\ acceptors'[a].accepting = s.accepting
    BY <1>1, <1>2, StateIsSet DEF AcceptorStates
<1>5. Chain(q, acceptors'[a], a, Failing)
    BY <1>1, <1>3, <1>4 DEF Chain
<1>6. Queues(queue, acceptors', Failing)
    BY <1>2, <1>4, <1>5, OneChainMoves DEF Queues, AreChains
<1>7. Failing' <=> Failing
    BY <1>1 DEF Failing
<1>8. Queues(queue', acceptors', Failing')
    BY <1>1, <1>6, <1>7, QueuesFail
<1>9. \A y \in AllContexts : thread'[y] = "none"
    BY <1>1 DEF ChainInv, Begun
<1>10. QED
    BY <1>1, <1>4, <1>8, <1>9, AcceptorMoves

\* No acceptor is asked to stop before the server is started.
LEMMA StopAcceptorKeeps ==
    ASSUME LifeInv, ChainInv, NEW a, StopAcceptor(a)
    PROVE  ChainInv'
<1> DEFINE s == acceptors[a]
           x == s.context
           h == Handler("stop", a, "")
<1>1. /\ owner = "stopping" /\ a \in DOMAIN acceptors
      /\ UNCHANGED <<size, owner, thread, exception, acceptors>>
    BY DEF StopAcceptor, AcceptorIndices
<1>2. queue' = Grown(queue, x, h)
    BY DEF StopAcceptor, Posted, Grown
<1>3. AreAcceptors(acceptors) /\ Queues(queue, acceptors, Failing)
    BY DEF ChainInv
<1>4. Chain(queue[x], s, a, Failing) /\ \E H : queue[x] \in Seq(H)
    BY <1>1, <1>3 DEF AreAcceptors, Queues, AreChains, AreQueues
<1>5. Changes(acceptors, acceptors', a)
    BY <1>1, <1>3 DEF Changes
<1>6. h.of = a /\ IsStop(h, a)
    BY DEF Handler, IsStop
<1> HIDE DEF h
<1>7. Chain(Append(queue[x], h), acceptors'[a], a, Failing)
    BY <1>1, <1>4, <1>6, ChainToStop DEF ChainInv, Begun
<1>8. Queues(Grown(queue, x, h), acceptors', Failing)
    BY <1>3, <1>5, <1>6, <1>7, ChainGrows
<1>9. Failing' <=> Failing
    BY <1>1 DEF Failing
<1>10. Queues(queue', acceptors', Failing')
    BY <1>2, <1>8, <1>9, QueuesFail
<1>11. QED
    BY <1>1, <1>5, <1>10, AcceptorMoves

\* A thread starts.
LEMMA ThreadStartKeeps ==
    ASSUME LifeInv, ChainInv, NEW x \in AllContexts, ServerThread(x)
    PROVE  ChainInv'
<1>1. /\ UNCHANGED <<size, queue, exception, owner, acceptors>>
      /\ thread[x] = "none" /\ thread' = [thread EXCEPT ![x] = "running"]
      /\ owner = "starting"
      /\ \A a \in DOMAIN acceptors : acceptors[a].state = "PROCESSING"
    BY DEF ServerThread, StartThread, NextThread, AcceptorsStarted, AcceptorIndices,
           serverVars, application
<1>2. Failing => Failing'
    BY <1>1, FailingStays
<1>3. Queues(queue, acceptors, Failing')
    BY <1>2, QueuesFail DEF ChainInv
<1>4. Contexts' = Contexts
    BY <1>1 DEF Contexts
<1>5. QED
    BY <1>1, <1>3, <1>4 DEF ChainInv

\* An operation of a connection completes.
LEMMA OperationKeeps ==
    ASSUME LifeInv, ChainInv, NEW c \in AllConnections,
           ReadCompletes(c) \/ WriteCompletes(c) \/ ResetEnds(c)
    PROVE  ChainInv'
<1>1. PICK fn, result : fn \in {"on_read", "on_sent"}
                        /\ Completes(conn[c].context, Handler(fn, c, result))
    BY DEF ReadCompletes, WriteCompletes, ResetEnds
<1> DEFINE h == Handler(fn, c, result)
<1>2. UNCHANGED <<size, owner, thread, exception, acceptors>>
    BY <1>1 DEF ReadCompletes, WriteCompletes, ResetEnds, Completes, application
<1>3. Completes(conn[c].context, h)
    BY <1>1
<1>4. h.fn \notin AcceptorHandlers
    BY <1>1 DEF Handler, AcceptorHandlers
<1> HIDE DEF h
<1>5. queue' = Grown(queue, conn[c].context, h)
    BY <1>3 DEF Completes, Posted, Grown
<1>6. PostsOther(queue)
    BY <1>4, <1>5 DEF PostsOther
<1>7. PICK x : x \in AllContexts
  <2>1. 0 \in 0..(MaxThreads - 1)
      BY ThreadsAssumption
  <2>2. <<"TRANSPORT", 0>> \in AllContexts
      BY <2>1 DEF AllContexts, Types
  <2>3. QED
      BY <2>2
<1>8. Failing <=> Failing'
    BY <1>2 DEF Failing
<1>9. Quiet(x)
    BY <1>2, <1>6, <1>8 DEF Quiet
<1>10. QED
    BY <1>7, <1>9, QuietKeeps

LEMMA ThreadStepKeeps ==
    ASSUME LifeInv, ChainInv, NEW x \in AllContexts, ThreadStep(x)
    PROVE  ChainInv'
<1>1. CASE \E a \in AcceptorIndices : AcceptorStep(x, a)
    BY <1>1, FirstAcceptKeeps, AcceptedKeeps, AbortedKeeps, AcceptThrowsKeeps, StopKeeps
       DEF AcceptorStep, StopInThread
<1>2. CASE \/ \E c \in AllConnections : ConnectionStep(x, c)
           \/ LockNext(x) \/ PostClose(x) \/ DropReference(x) \/ EndLoop(x) \/ Destroy(x)
           \/ ThreadEnds(x)
  <2>1. Quiet(x)
      BY <1>2, OthersAreQuiet
  <2>2. QED
      BY <2>1, QuietKeeps
<1>3. QED
    BY <1>1, <1>2 DEF ThreadStep

LEMMA ChainsBegin == ServerInit => ChainInv
<1> SUFFICES ASSUME ServerInit PROVE ChainInv
    OBVIOUS
<1>1. /\ acceptors = <<>> /\ owner = "configuring"
      /\ queue = [x \in AllContexts |-> <<>>]
      /\ thread = [x \in AllContexts |-> "none"]
    BY DEF ServerInit, ExecutorInit
<1>2. queue \in [AllContexts -> Seq({})]
    BY <1>1
<1>3. AreQueues(queue) /\ ArePlaced(queue, acceptors) /\ AreChains(queue, acceptors, Failing)
    BY <1>1, <1>2 DEF AreQueues, ArePlaced, AreChains
<1>4. AreAcceptors(acceptors)
    BY <1>1 DEF AreAcceptors
<1>5. QED
    BY <1>1, <1>3, <1>4 DEF ChainInv, Queues

\* What leaves the acceptors, their handlers and the threads alone.
LEMMA UntouchedKeeps ==
    ASSUME LifeInv, ChainInv, UNCHANGED <<size, owner, thread, exception, queue, acceptors>>
    PROVE  ChainInv'
<1>1. PICK x : x \in AllContexts
  <2>1. 0 \in 0..(MaxThreads - 1)
      BY ThreadsAssumption
  <2>2. <<"TRANSPORT", 0>> \in AllContexts
      BY <2>1 DEF AllContexts, Types
  <2>3. QED
      BY <2>2
<1>2. Failing <=> Failing'
    BY DEF Failing
<1>3. Quiet(x)
    BY <1>2 DEF Quiet
<1>4. QED
    BY <1>1, <1>3, QuietKeeps

LEMMA ChainInvariant == ServerSpec => []ChainInv
<1>1. ASSUME LifeInv, ChainInv, ServerNext PROVE ChainInv'
  <2> USE <1>1
  <2>1. CASE Configure
    <3>1. /\ owner' \in {"configuring", "building"} /\ owner \in {"configuring", "building"}
          /\ UNCHANGED <<queue, thread, exception, acceptors>>
        BY <2>1 DEF Configure, ParseFile, CreateBuilder, ListenTo, create_executor,
                    executorVars
    <3>2. acceptors = <<>> /\ \A x \in AllContexts : thread[x] = "none"
        BY <3>1 DEF ChainInv, LifeInv, ThreadsInv
    <3>3. Failing' <=> Failing
        BY <3>1 DEF Failing
    <3>4. AreAcceptors(acceptors') /\ Queues(queue', acceptors', Failing')
        BY <3>1, <3>3 DEF ChainInv
    <3>5. QED
        BY <3>1, <3>2, <3>4 DEF ChainInv
  <2>2. CASE \E hasUnixSockets \in BOOLEAN : Build(hasUnixSockets)
      BY <2>2, BuildKeeps
  <2>3. CASE \E a \in AcceptorIndices : StartAcceptor(a) \/ ProcessingStarted(a)
      BY <2>3, StartAcceptorKeeps, ProcessingStartedKeeps
  <2>4. CASE \E x \in AllContexts : ServerThread(x)
      BY <2>4, ThreadStartKeeps
  <2>5. CASE Started \/ ThreadFails
    <3>1. /\ UNCHANGED <<size, queue, thread, exception, acceptors>>
          /\ AcceptorsStarted /\ owner' \in {"running", "unwinding"}
        BY <2>5 DEF Started, ThreadFails, ResetGuards, executorVars
    <3>2. QED
        BY <3>1, OwnerMoves
  <2>6. CASE CallStop \/ CallRunUntilSignal \/ Signal \/ Wake \/ ReadLastException
             \/ StopExecutor
    <3>1. /\ UNCHANGED <<size, queue, thread, exception, acceptors>>
          /\ owner \in {"running", "waiting", "woken", "stopping"}
          /\ owner' \in {"waiting", "woken", "stopping", "joining"}
        BY <2>6 DEF CallStop, CallRunUntilSignal, Signal, Wake, Goto, ReadLastException,
                    StopExecutor, ResetGuards, executorVars
    <3>2. Begun
        BY <3>1 DEF Begun
    <3>3. QED
        BY <3>1, <3>2, OwnerMoves
  <2>7. CASE \E a \in AcceptorIndices : StopAcceptor(a)
      BY <2>7, StopAcceptorKeeps
  <2>8. CASE ClearExecutor
      BY <2>8, ClearingMoves DEF ClearExecutor
  <2>9. CASE GiveUp
    <3>1. Clear /\ owner = "building" /\ acceptors' = acceptors
        BY <2>9 DEF GiveUp
    <3>2. acceptors' = <<>>
        BY <3>1 DEF ChainInv
    <3>3. QED
        BY <3>1, <3>2, ClearingMoves
  <2>10. CASE Peers \/ Broken
    <3>1. ASSUME NEW c \in AllConnections, Resets(c) PROVE ChainInv'
        BY <3>1, UntouchedKeeps DEF Resets, executorVars, application
    <3>2. QED
        BY <2>10, <3>1, CompletionKeeps, OperationKeeps DEF Peers, Broken, AcceptorIndices
  <2>11. CASE \E x \in AllContexts : ThreadStep(x)
      BY <2>11, ThreadStepKeeps
  <2>12. CASE BuildThrows
      BY <2>12, UntouchedKeeps DEF BuildThrows, serverVars, application
  <2>13. QED
      BY <2>1, <2>2, <2>3, <2>4, <2>5, <2>6, <2>7, <2>8, <2>9, <2>10, <2>11, <2>12
         DEF ServerNext, Starting, Stopping, Faults, Decisions
<1>2. ASSUME ChainInv, UNCHANGED lifeVars PROVE ChainInv'
  <2>1. UNCHANGED <<size, queue, thread, exception, acceptors, owner>>
      BY <1>2 DEF lifeVars, executorVars, serverVars, application
  <2>2. Contexts' = Contexts /\ Begun' = Begun
      BY <2>1 DEF Contexts, Begun
  <2>3. Failing' <=> Failing
      BY <2>1 DEF Failing
  <2>4. Queues(queue', acceptors', Failing')
      BY <1>2, <2>1, <2>3 DEF ChainInv
  <2>5. AreAcceptors(acceptors')
      BY <1>2, <2>1 DEF ChainInv
  <2>6. QED
      BY <1>2, <2>1, <2>2, <2>4, <2>5 DEF ChainInv
<1>3. QED
    BY <1>1, <1>2, LifeInvariant, ChainsBegin, PTL DEF ServerSpec

\* What is queued of an acceptor is in the queue of its context.
LEMMA QueuedLaw ==
    ASSUME ChainInv, NEW a \in DOMAIN acceptors, NEW fn \in {"accept_next", "on_accept"}
    PROVE  LET x == acceptors[a].context
               q == queue[x]
           IN  /\ \A e : e \in Queued(fn, a) <=>
                            \E i \in DOMAIN q : e = <<x, i>> /\ q[i].fn = fn /\ q[i].of = a
               /\ \A i, j \in DOMAIN q : IsLink(q[i], a) /\ IsLink(q[j], a) => i = j
<1> DEFINE x == acceptors[a].context
           q == queue[x]
<1>1. \A e : e \in Queued(fn, a) <=>
                \E y \in Contexts : \E i \in DOMAIN queue[y] :
                   e = <<y, i>> /\ queue[y][i].fn = fn /\ queue[y][i].of = a
    BY DEF Queued
<1>2. x \in Contexts
    BY DEF ChainInv
<1>3. \A y \in Contexts : \A i \in DOMAIN queue[y] :
         queue[y][i].fn = fn /\ queue[y][i].of = a => y = x
    BY DEF ChainInv, Queues, ArePlaced, AcceptorHandlers, Contexts
<1>4. Chain(q, acceptors[a], a, Failing)
    BY DEF ChainInv, Queues, AreChains
<1>5. \A i, j \in DOMAIN q : IsLink(q[i], a) /\ IsLink(q[j], a) => i = j
    BY <1>4 DEF Chain
<1> HIDE DEF q
<1>6. \A e : e \in Queued(fn, a) =>
                \E i \in DOMAIN q : e = <<x, i>> /\ q[i].fn = fn /\ q[i].of = a
    BY <1>1, <1>3 DEF q
<1>7. \A i \in DOMAIN q : q[i].fn = fn /\ q[i].of = a => <<x, i>> \in Queued(fn, a)
    BY <1>1, <1>2 DEF q
<1>8. QED
    BY <1>5, <1>6, <1>7 DEF q

LEMMA QueuedOnce ==
    ASSUME ChainInv, NEW a \in DOMAIN acceptors, NEW fn \in {"accept_next", "on_accept"}
    PROVE  \/ Queued(fn, a) = {} /\ Cardinality(Queued(fn, a)) = 0
           \/ Cardinality(Queued(fn, a)) = 1
<1> DEFINE x == acceptors[a].context
           q == queue[x]
           Q == Queued(fn, a)
<1>1. \A d, e \in Q : d = e
  <2> SUFFICES ASSUME NEW d \in Q, NEW e \in Q PROVE d = e
      OBVIOUS
  <2>1. PICK i \in DOMAIN q : d = <<x, i>> /\ IsLink(q[i], a)
      BY QueuedLaw DEF IsLink
  <2>2. PICK j \in DOMAIN q : e = <<x, j>> /\ IsLink(q[j], a)
      BY QueuedLaw DEF IsLink
  <2>3. QED
      BY <2>1, <2>2, QueuedLaw
<1> HIDE DEF Q
<1>2. ASSUME Q # {} PROVE \E d : Q = {d}
  <2>1. PICK d : d \in Q
      BY <1>2
  <2>2. \A e : e \in Q <=> e = d
      BY <1>1, <2>1
  <2>3. Q = {d}
      BY <2>2
  <2>4. QED
      BY <2>3
<1>3. QED
    BY <1>2, FS_EmptySet, FS_Singleton DEF Q

\* An acceptor that is started has exactly one accept under way until it is
\* stopped, unless an exception ended the executor; on one that was stopped none
\* is begun.  on_accept() is what begins the next accept, so the chain is as long
\* as the acceptor accepts.
THEOREM AcceptorsAccept == ServerSpec => []AcceptChainAlive
<1>1. ASSUME ChainInv PROVE AcceptChainAlive
  <2> SUFFICES ASSUME NEW a \in DOMAIN acceptors
               PROVE  /\ Links(a) <= 1
                      /\ acceptors[a].state \in {"STARTING", "PROCESSING"} /\ ~Failing =>
                            Links(a) = 1
                      /\ acceptors[a].state \in {"INIT", "STOPPED"} =>
                            ~acceptors[a].accepting /\ Queued("accept_next", a) = {}
      BY DEF AcceptChainAlive, AcceptorIndices
  <2> DEFINE s == acceptors[a]
             x == s.context
             q == queue[x]
             First == Queued("accept_next", a)
             Accept == Queued("on_accept", a)
             m == Cardinality(First)
             n == Cardinality(Accept)
  <2> USE <1>1
  <2>1. Chain(q, s, a, Failing) /\ s.accepting \in BOOLEAN
      BY DEF ChainInv, Queues, AreChains, AreAcceptors
  <2>2. (First = {} /\ m = 0) \/ m = 1
      BY QueuedOnce
  <2>3. (Accept = {} /\ n = 0) \/ n = 1
      BY QueuedOnce
  <2>4. First # {} => \E i \in DOMAIN q : IsFirst(q[i], a)
      BY QueuedLaw DEF IsFirst
  <2>5. Accept # {} => \E i \in DOMAIN q : IsLink(q[i], a) /\ ~IsFirst(q[i], a)
      BY QueuedLaw DEF IsLink, IsFirst
  <2>6. ASSUME NEW i \in DOMAIN q, IsLink(q[i], a) PROVE First # {} \/ Accept # {}
    <3>1. q[i].fn = "accept_next" => <<x, i>> \in First
        BY <2>6, QueuedLaw DEF IsLink
    <3>2. q[i].fn = "on_accept" => <<x, i>> \in Accept
        BY <2>6, QueuedLaw DEF IsLink
    <3>3. QED
        BY <2>6, <3>1, <3>2 DEF IsLink
  <2>7. m = 1 => First # {}
      BY FS_EmptySet
  <2>8. n = 1 => Accept # {}
      BY FS_EmptySet
  <2>9. \A h : IsFirst(h, a) => IsLink(h, a)
      BY DEF IsFirst, IsLink
  <2>10. Links(a) = m + n + (IF s.accepting THEN 1 ELSE 0)
      BY DEF Links
  <2> HIDE DEF m, n, First, Accept, q, s
  <2>11. First = {} \/ Accept = {}
      BY <2>1, <2>4, <2>5, <2>9 DEF Chain
  <2>12. s.accepting => First = {} /\ Accept = {}
      BY <2>1, <2>4, <2>5, <2>9 DEF Chain
  <2>13. Links(a) <= 1
      BY <2>2, <2>3, <2>7, <2>8, <2>10, <2>11, <2>12
  <2>14. ASSUME s.state \in {"STARTING", "PROCESSING"}, ~Failing PROVE Links(a) = 1
    <3>1. s.accepting \/ First # {} \/ Accept # {}
        BY <2>1, <2>6, <2>14 DEF Chain
    <3>2. QED
        BY <2>2, <2>3, <2>7, <2>8, <2>10, <2>11, <2>12, <3>1
  <2>15. ASSUME s.state \in {"INIT", "STOPPED"} PROVE ~s.accepting /\ First = {}
    <3>1. \A h : IsFirst(h, a) => IsOf(h, a)
        BY DEF IsFirst, IsOf, AcceptorHandlers
    <3>2. QED
        BY <2>1, <2>4, <2>15, <3>1 DEF Chain
  <2>16. QED
      BY <2>13, <2>14, <2>15 DEF s, First
<1>2. QED
    BY <1>1, ChainInvariant, PTL
=============================================================================
