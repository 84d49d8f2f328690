------------------------------- MODULE Backends -------------------------------
(* The list of backends by their schemes (transport/backend_list.h).       *)
EXTENDS Common

\* A backend is known by its scheme.  It throws if its executor was deleted, but
\* connectors and acceptors are created only while the executor lives.
TCPBackend == "tcp"
UnixSocketBackend == "unix"

\* BackendList::append()
append(list, scheme) ==
    IF scheme \in list THEN Throws("INVALID_ARGUMENT")
                       ELSE Returns(list \cup {scheme})

\* create_default_backend_list(); sockets of files depend on the platform.
DefaultBackends(hasUnixSockets) ==
    LET tcp == append({}, TCPBackend).value
    IN IF hasUnixSockets THEN append(tcp, UnixSocketBackend).value ELSE tcp

\* BackendList::find()
find(list, scheme) ==
    IF scheme \in list THEN Returns(scheme) ELSE Throws("INVALID_ARGUMENT")
=============================================================================
