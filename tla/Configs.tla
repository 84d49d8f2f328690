------------------------------- MODULE Configs -------------------------------
(***************************************************************************)
(* Configurations and their files (config/...).  A file is the tables its  *)
(* sections hold, a table a sequence of entries in the order toml++ goes   *)
(* through them, a value is known by the type it can be read as.  Durations*)
(* are whole numbers of a unit that stands for the nanosecond; the numbers *)
(* of seconds in files may be halves of it.                                *)
(***************************************************************************)
EXTENDS Integers, Sequences, Addresses

CONSTANTS
    Unit,           \* units of time in a millisecond
    ReserveSize     \* MSGPACK_UNPACKER_RESERVE_SIZE

ASSUME UnitAssumption == Unit \in Nat \ {0} /\ ReserveSize \in Nat \ {0}

Value(type, v) == [type |-> type, v |-> v]
Entry(key, value) == [key |-> key, value |-> value]
Absent == Value("absent", <<>>)

-----------------------------------------------------------------------------
(* The classes of configurations: what their constructors set, and the     *)
(* smallest value their setters do not reject.                             *)

MessageParserConfig == [read_buffer_size |-> ReserveSize]
MessageParserLeast == [read_buffer_size |-> 1]

ExecutorConfig == [num_transport_threads |-> 1, num_callback_threads |-> 1]
ExecutorLeast == [num_transport_threads |-> 1, num_callback_threads |-> 1]

ReconnectionConfig ==
    [initial_waiting_time |-> 125 * Unit, max_waiting_time |-> 32000 * Unit,
     max_jitter_waiting_time |-> 125 * Unit]
ReconnectionLeast ==
    [initial_waiting_time |-> 1, max_waiting_time |-> 1,
     max_jitter_waiting_time |-> 0]

LoggingConfig ==
    [file_path |-> <<>>, max_file_size |-> 1024 * 1024, max_files |-> 5,
     output_log_level |-> "info"]
LoggingLeast == [max_file_size |-> 1, max_files |-> 1]

ClientConfig ==
    [uris |-> <<>>, call_timeout |-> 15000 * Unit,
     message_parser |-> MessageParserConfig, executor |-> ExecutorConfig,
     reconnection |-> ReconnectionConfig]
ClientLeast == [call_timeout |-> 1]

ServerConfig ==
    [uris |-> <<>>, message_parser |-> MessageParserConfig,
     executor |-> ExecutorConfig]

LogLevels == {"trace", "debug", "info", "warn", "error", "critical"}

-----------------------------------------------------------------------------
(* Reading values.                                                         *)

Stored(config, key, v) == Returns([config EXCEPT ![key] = v])

SetAtLeast(config, key, least, v) ==
    IF v < least THEN Throws("INVALID_ARGUMENT") ELSE Stored(config, key, v)

\* duration_cast of seconds: towards zero
Duration(halves) == IF halves < 0 THEN -((-halves) \div 2) ELSE halves \div 2

\* The macros MSGPACK_RPC_PARSE_TOML_VALUE and ..._DURATION
SetSize(config, least, e) ==
    IF e.value.type # "size" THEN Throws("INVALID_ARGUMENT")
    ELSE SetAtLeast(config, e.key, least[e.key], e.value.v)

SetDuration(config, least, e) ==
    IF e.value.type # "real" THEN Throws("INVALID_ARGUMENT")
    ELSE SetAtLeast(config, e.key, least[e.key], Duration(e.value.v))

\* The entries of a table one after the other, up to the first that throws.
EachEntry(table, config, Parsed(_, _)) ==
    LET after[i \in 0..Len(table)] ==
            IF i = 0 THEN Returns(config)
            ELSE LET r == after[i - 1]
                 IN IF Succeeded(r) THEN Parsed(r.value, table[i]) ELSE r
    IN after[Len(table)]

\* Keys that are not known are skipped.
Skip(config) == Returns(config)

ParseMessageParser(table, config) ==
    EachEntry(table, config, LAMBDA c, e :
        IF e.key \in DOMAIN MessageParserLeast
        THEN SetSize(c, MessageParserLeast, e) ELSE Skip(c))

ExecutorEntry(c, e) ==
    IF e.key \in DOMAIN ExecutorLeast THEN SetSize(c, ExecutorLeast, e) ELSE Skip(c)

ParseExecutor(table, config) == EachEntry(table, config, ExecutorEntry)

ParseReconnection(table, config) ==
    EachEntry(table, config, LAMBDA c, e :
        IF e.key \in DOMAIN ReconnectionLeast
        THEN SetDuration(c, ReconnectionLeast, e) ELSE Skip(c))

\* A table within the table: the configuration it is of is changed in place.
Nested(config, e, Parsed(_, _)) ==
    IF e.value.type # "table" THEN Throws("INVALID_ARGUMENT")
    ELSE LET r == Parsed(e.value.v, config[e.key])
         IN IF Succeeded(r) THEN Stored(config, e.key, r.value) ELSE r

\* add_uri() of each text of "uris", unless one of them is no URI
IsURI(text) == text.type = "string" /\ Succeeded(Parse(text.v))

ParseURIs(config, e) ==
    LET texts == e.value.v
    IN IF e.value.type # "array" \/ \E i \in DOMAIN texts : ~IsURI(texts[i])
       THEN Throws("INVALID_ARGUMENT")
       ELSE Stored(config, "uris",
                   config.uris \o [i \in DOMAIN texts |-> Parse(texts[i].v).value])

ParseClient(table, config) ==
    EachEntry(table, config, LAMBDA c, e :
        CASE e.key = "uris" -> ParseURIs(c, e)
          [] e.key = "call_timeout" -> SetDuration(c, ClientLeast, e)
          [] e.key = "message_parser" -> Nested(c, e, ParseMessageParser)
          [] e.key = "executor" -> Nested(c, e, ParseExecutor)
          [] e.key = "reconnection" -> Nested(c, e, ParseReconnection)
          [] OTHER -> Skip(c))

ServerEntry(c, e) ==
    CASE e.key = "uris" -> ParseURIs(c, e)
      [] e.key = "message_parser" -> Nested(c, e, ParseMessageParser)
      [] e.key = "executor" -> Nested(c, e, ParseExecutor)
      [] OTHER -> Skip(c)

ParseServer(table, config) == EachEntry(table, config, ServerEntry)

\* parse_log_level() and LoggingConfig::output_log_level()
SetLevel(config, e) ==
    IF e.value.type # "string" \/ e.value.v \notin LogLevels
    THEN Throws("INVALID_ARGUMENT") ELSE Stored(config, e.key, e.value.v)

ParseLogging(table, config) ==
    EachEntry(table, config, LAMBDA c, e :
        CASE e.key = "file_path" ->
               IF e.value.type # "string" THEN Throws("INVALID_ARGUMENT")
               ELSE Stored(c, e.key, e.value.v)
          [] e.key \in DOMAIN LoggingLeast -> SetSize(c, LoggingLeast, e)
          [] e.key = "output_log_level" -> SetLevel(c, e)
          [] OTHER -> Skip(c))

-----------------------------------------------------------------------------
(* ConfigParser: the configurations of all files, by section and name.     *)

Sections == <<"logging", "client", "server">>
NoConfigs == [s \in {Sections[i] : i \in DOMAIN Sections} |-> <<>>]

Default(section) ==
    CASE section = "logging" -> LoggingConfig
      [] section = "client" -> ClientConfig
      [] section = "server" -> ServerConfig

ParseOne(section, table) ==
    CASE section = "logging" -> ParseLogging(table, Default(section))
      [] section = "client" -> ParseClient(table, Default(section))
      [] section = "server" -> ParseServer(table, Default(section))

\* Configurations that were named before stay as they are.
try_emplace(configs, name, config) ==
    [n \in DOMAIN configs \cup {name} |->
        IF n \in DOMAIN configs THEN configs[n] ELSE config]

\* The maps as an exception leaves them.
Left(code, configs) == [code |-> code, value |-> configs]

\* The tables of one section; those before one that throws are kept.
SectionEntry(section, c, e) ==
    LET r == ParseOne(section, e.value.v)
    IN IF e.value.type # "table" \/ ~Succeeded(r)
       THEN Left("INVALID_ARGUMENT", c)
       ELSE Returns([c EXCEPT ![section] = try_emplace(@, e.key, r.value)])

ParseSection(configs, section, node) ==
    IF node.type = "absent" THEN Returns(configs)
    ELSE IF node.type # "table" THEN Left("INVALID_ARGUMENT", configs)
    ELSE EachEntry(node.v, configs, LAMBDA c, e : SectionEntry(section, c, e))

\* parse_toml(): the sections in their order.  A file that is no TOML changes
\* nothing.
parse_toml(file, configs) ==
    IF file.type # "toml" THEN Left("INVALID_ARGUMENT", configs)
    ELSE EachEntry(Sections, configs,
                   LAMBDA c, section : ParseSection(c, section, file.v[section]))

\* What files may hold: sequences as tables and arrays, and where executors of
\* servers ask for threads, not more of them than the limit.
IsList(node) == node.type \in {"table", "array"}
Items(node) == IF IsList(node) THEN {node.v[i] : i \in 1..Len(node.v)} ELSE {}

WellFormed(file, limit) ==
    LET IsFinite(node) ==
            IsList(node) => Len(node.v) \in Nat /\ DOMAIN node.v = 1..Len(node.v)
        IsCount(value) == value.type = "size" => value.v \in 0..limit
    IN file.type = "toml" =>
       /\ \A s \in DOMAIN NoConfigs : IsFinite(file.v[s])
       /\ \A config \in Items(file.v["server"]) :
             /\ IsFinite(config.value)
             /\ \A e \in Items(config.value) :
                   /\ IsFinite(e.value)
                   /\ e.key = "executor" => \A f \in Items(e.value) : IsCount(f.value)

\* ConfigParser::server_config() and its siblings
config_of(configs, section, name) ==
    IF name \in DOMAIN configs[section] THEN Returns(configs[section][name])
                                        ELSE Throws("INVALID_ARGUMENT")
=============================================================================
