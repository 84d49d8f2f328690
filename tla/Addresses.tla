------------------------------ MODULE Addresses ------------------------------
(***************************************************************************)
(* URIs and addresses (addresses/uri.h, tcp_address.h,                     *)
(* unix_socket_address.h).  The text of a URI is a sequence of tokens:     *)
(* schemes, punctuation, hosts, paths and port numbers.  A host is one     *)
(* token; the characters it is made of decide which patterns of            *)
(* URI::parse() it matches.                                                *)
(***************************************************************************)
EXTENDS Naturals, Sequences, Common

CONSTANTS
    Names,      \* hosts of letters, digits and "+,-.": names and IPv4
    V6Hosts,    \* IPv6 addresses: these characters and ":"
    OtherHosts, \* hosts with other characters, as the "%" of a scope
    Files       \* tokens of the path of a socket file

ASSUME HostsAssumption == Names \cap V6Hosts = {} /\ OtherHosts \cap V6Hosts = {}

Ports == 0..65535       \* std::uint16_t
NoPort == 65536         \* std::nullopt

\* addresses::URI and its accessors.
URI(scheme, host_or_path, port_number) ==
    [scheme |-> scheme, host_or_path |-> host_or_path,
     port_number |-> port_number]

-----------------------------------------------------------------------------
(* URI::parse().                                                           *)

Separated(t, scheme) == Len(t) > 2 /\ t[1] = scheme /\ t[2] = "://"

\* A port that does not fit in 16 bits does not match.
EndsWithPort(t) == t[Len(t) - 1] = ":" /\ t[Len(t)] \in Ports

\* ip_regex: tcp://host:port
MatchesIP(t) ==
    Separated(t, "tcp") /\ Len(t) = 5 /\ t[3] \in Names /\ EndsWithPort(t)

\* ipv6_regex: tcp://[host]:port
MatchesIPv6(t) ==
    /\ Separated(t, "tcp") /\ Len(t) = 7
    /\ t[3] = "[" /\ t[4] \in Names \cup V6Hosts /\ t[5] = "]"
    /\ EndsWithPort(t)

Parse(t) ==
    CASE MatchesIP(t) -> Returns(URI("tcp", <<t[3]>>, t[5]))
      [] MatchesIPv6(t) -> Returns(URI("tcp", <<t[4]>>, t[7]))
      [] Separated(t, "unix") -> Returns(URI("unix", SubSeq(t, 3, Len(t)), NoPort))
      [] OTHER -> Throws("INVALID_ARGUMENT")

-----------------------------------------------------------------------------
(* Formatting.                                                             *)

HasColon(host) == \E i \in DOMAIN host : host[i] \in V6Hosts \cup OtherHosts

Bracketed(host) == IF HasColon(host) THEN <<"[">> \o host \o <<"]">> ELSE host

\* Fault: an IPv6 address is written without brackets.
FormatUnbracketed(uri) ==
    <<uri.scheme, "://">> \o uri.host_or_path
    \o IF uri.port_number = NoPort THEN <<>> ELSE <<":", uri.port_number>>

\* fmt::formatter<URI>: hosts with a colon are bracketed, a port is optional.
Format(uri) ==
    <<uri.scheme, "://">>
    \o (IF uri.scheme = "tcp" THEN Bracketed(uri.host_or_path)
                              ELSE uri.host_or_path)
    \o IF uri.port_number = NoPort THEN <<>> ELSE <<":", uri.port_number>>

-----------------------------------------------------------------------------
(* Addresses of sockets.                                                   *)

TCPAddress(ip, port) == [ip |-> ip, port |-> port]
UnixSocketAddress(path) == [path |-> path]

TCPToURI(address) == URI("tcp", <<address.ip>>, address.port)
UnixToURI(address) == URI("unix", address.path, NoPort)

\* to_string(): asio brackets IPv6 addresses in the text of an endpoint.
TCPToString(address) ==
    <<"tcp", "://">> \o Bracketed(<<address.ip>>) \o <<":", address.port>>
UnixToString(address) == <<"unix", "://">> \o address.path
=============================================================================
