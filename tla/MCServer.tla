------------------------------- MODULE MCServer -------------------------------
EXTENDS Server

Size(key, n) == Entry(key, Value("size", n))
Real(key, halves) == Entry(key, Value("real", halves))
Text(key, v) == Entry(key, Value("string", v))
Table(key, entries) == Entry(key, Value("table", entries))
URIs(texts) == Entry("uris", Value("array", [i \in DOMAIN texts |-> Value("string", texts[i])]))
Wrong(key) == Entry(key, Value("other", 0))

TCP == <<"tcp", "://", "name", ":", 80>>
Unix == <<"unix", "://", "file">>

File(logging, client, server) ==
    Value("toml", [logging |-> logging, client |-> client, server |-> server])
Section(entries) == Value("table", entries)

Two == Table("executor", <<Size("num_callback_threads", 1), Size("num_transport_threads", 2)>>)
Parser == Table("message_parser", <<Size("read_buffer_size", 3)>>)

\* Two threads, and a server that is left out for its number of threads.
FileOfTwo ==
    File(Absent, Absent,
         Section(<<Table("s", <<Two, Parser, URIs(<<TCP>>)>>),
                   Table("t", <<Table("executor", <<Size("num_transport_threads", 0)>>)>>)>>))

\* The same name with one thread and a socket of a file
FileOfOne ==
    File(Section(<<Table("l", <<Text("file_path", <<>>), Size("max_files", 1),
                               Text("output_log_level", "warn"), Wrong("unknown")>>)>>),
         Section(<<Table("c", <<Real("call_timeout", 2), Table("executor", <<>>), Parser,
                               Table("reconnection", <<Real("initial_waiting_time", 2),
                                                       Real("max_jitter_waiting_time", -1)>>),
                               URIs(<<TCP, Unix>>)>>)>>),
         Section(<<Table("s", <<URIs(<<Unix>>)>>)>>))

\* Files that throw, before or after the server of this name
FileOfNone ==
    File(Absent, Section(<<Table("c", <<Real("call_timeout", 1)>>)>>),
         Section(<<Table("s", <<>>)>>))
FileOfNoURIs ==
    File(Section(<<>>), Absent, Section(<<Table("s", <<>>), Wrong("t")>>))

MCTexts == {Unix, <<"unix", ":">>}
MCTomlFiles == {FileOfTwo, FileOfOne, FileOfNone, FileOfNoURIs, Value("broken", <<>>)}
=============================================================================
